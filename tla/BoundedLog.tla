------------------------------ MODULE BoundedLog ------------------------------
(***************************************************************************)
(* What the inspector's Store promises: it keeps the latest Capacity       *)
(* entries since it was last cleared, in the order in which they were      *)
(* added.                                                                  *)
(***************************************************************************)
EXTENDS Integers, Sequences

CONSTANTS Entry,    \* what can be added
          Capacity  \* how many entries are kept

VARIABLE log  \* oldest first

Init == log = <<>>

\* The latest Capacity elements of s.
Latest(s) ==
  LET drop == IF Len(s) > Capacity THEN Len(s) - Capacity ELSE 0
  IN SubSeq(s, drop + 1, Len(s))

Add(e) == log' = Latest(Append(log, e))

Clear == log' = <<>>

Next == Clear \/ \E e \in Entry : Add(e)

Spec == Init /\ [][Next]_log
=============================================================================
