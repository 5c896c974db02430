-------------------------- MODULE MCWebSocketPipe --------------------------
(***************************************************************************)
(* Small instances of WebSocketPipe for TLC.                               *)
(***************************************************************************)
EXTENDS WebSocketPipe

Writes(server, client) == [p \in Side |-> IF p = "server" THEN server ELSE client]

\* With ChunkCap = WireCap = 1: the request, a frame in the client's buffer, one in
\* pushData, one on the connection, and one whose Write waits for room.
FiveFromViewer == Writes(5, 1)
\* The same, but for the case that the client has read the request.
FourFromViewer == Writes(4, 1)
NoFaults == {}
ServerCloses == {<<"close", "server">>}

\* One thing goes wrong: a connection ends, fails or cannot be made, or the server
\* closes the session, before the request or once the viewer has sent all it will.
Undisturbed ==
  /\ ~closed["server"]
  /\ \A p \in Side, g \in Goroutine : pipe[p][g] \notin {"error", "st", "wait", "conn", "gone"}
LeavesByItself(p) ==
  \/ pipe[p]["up"] = "dial" /\ pipe'[p]["up"] = "error"
  \/ /\ conn[p] = "open" /\ rres'[p][S] = "none" /\ MayWrite(p, S)
     /\ \E g \in Goroutine :
          pipe[p][g] \in {"copy", "conn write"} /\ pipe'[p][g] \in {"st", "conn"}
OneFault ==
  /\ \A p \in Side : LeavesByItself(p) => Undisturbed
  /\ closed'["server"] # closed["server"] =>
       /\ Undisturbed /\ sent["server"][S] \in {0, MaxWrites["server"]}
       /\ \A p \in Side, g \in Goroutine : pipe[p][g] \in {"none", "copy"}
WSSpecOneFault == WSInit /\ [][WSNext /\ OneFault]_allVars /\ WSFairness
=============================================================================
