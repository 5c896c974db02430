---------------------------- MODULE MCMuxStream ----------------------------
(***************************************************************************)
(* Small instances of MuxStream for TLC: how many DATA frames each end may *)
(* write, and what may go wrong at which end.                              *)
(***************************************************************************)
EXTENDS MuxStream

Writes(server, client) == [p \in Side |-> IF p = "server" THEN server ELSE client]

\* Two frames one way: with ChunkCap = 1 the second one blocks in pushData.
TwoFromServer == Writes(2, 0)

\* Either end aborts, the client's session is closed, the server's socket breaks.
AbortCloseBreak == ({"abort"} \X Side) \cup {<<"close", "client">>, <<"break", "server">>}
AbortAtServer == {<<"abort", "server">>}

\* The step is a fault, not what follows from one.
Aborts(p) == \E s \in StreamId : apc[p][s] = "idle" /\ apc'[p][s] # "idle"
Closes(p) == ~closed[p] /\ closed'[p] /\ rl[p].pc # "exit"
Breaks(p) == ~broken[p] /\ broken'[p]

\* Behaviours with one fault; the safety properties are proved for all of them.
FaultFree ==
  \A p \in Side : ~closed[p] /\ ~broken[p] /\ \A s \in StreamId : ~reset[p][s]
OneFault == (\E p \in Side : Aborts(p) \/ Closes(p) \/ Breaks(p)) => FaultFree

FairOneFault == Init /\ [][Next /\ OneFault]_vars /\ Fairness
=============================================================================
