------------------------------ MODULE ByteStream ------------------------------
(***************************************************************************)
(* What a mux stream promises to whoever reads it, whatever the session    *)
(* below it does: the payloads written at the far end, each once and in    *)
(* order, then one end.  A clean end (io.EOF) means that nothing is        *)
(* missing and nothing more will be written; any other end means that      *)
(* something may be.  Payloads are numbered by the order they are written  *)
(* in, and every variable is indexed by the reading end.                   *)
(***************************************************************************)
EXTENDS Naturals, Sequences

CONSTANTS Side, StreamId

VARIABLES written,  \* how many payloads were written towards this reader
          got,      \* the payloads Read has returned
          end       \* how Read ended

vars == <<written, got, end>>

Broken == {"reset", "session"}

Init ==
  /\ written = [p \in Side |-> [s \in StreamId |-> 0]]
  /\ got = [p \in Side |-> [s \in StreamId |-> <<>>]]
  /\ end = [p \in Side |-> [s \in StreamId |-> "none"]]

Write(p, s) ==
  /\ end[p][s] # "EOF"
  /\ written' = [written EXCEPT ![p][s] = @ + 1]
  /\ UNCHANGED <<got, end>>

\* A payload that was under way when the stream broke may still be read.
Read(p, s) ==
  /\ end[p][s] # "EOF"
  /\ Len(got[p][s]) < written[p][s]
  /\ got' = [got EXCEPT ![p][s] = Append(@, Len(@) + 1)]
  /\ UNCHANGED <<written, end>>

EndClean(p, s) ==
  /\ end[p][s] = "none"
  /\ Len(got[p][s]) = written[p][s]
  /\ end' = [end EXCEPT ![p][s] = "EOF"]
  /\ UNCHANGED <<written, got>>

EndBroken(p, s) ==
  /\ end[p][s] = "none"
  /\ \E e \in Broken : end' = [end EXCEPT ![p][s] = e]
  /\ UNCHANGED <<written, got>>

Next ==
  \E p \in Side, s \in StreamId :
    Write(p, s) \/ Read(p, s) \/ EndClean(p, s) \/ EndBroken(p, s)

Spec == Init /\ [][Next]_vars
=============================================================================
