----------------------------- MODULE MCInspection -----------------------------
(***************************************************************************)
(* Small instance of Inspection for TLC.                                   *)
(***************************************************************************)
EXTENDS Inspection

\* One tab is opened first and may stop reading, the others come and go.  Clear is
\* pressed when the ring is full.
CONSTANT First
OneSlowTab ==
  /\ slow' \subseteq {First}
  /\ tab'[First] = "upgraded" => seq = 0
  /\ tab[First] = "reading" /\ tab'[First] = "leaving" => First \in dead
  /\ n' < n => n = Cap
FairOneSlowTab == Init /\ [][Next /\ OneSlowTab]_vars /\ Fairness
=============================================================================
