---------------------------- MODULE WebSocketPipe ----------------------------
(***************************************************************************)
(* A tunnelled WebSocket: one mux stream with a raw pipe at each end       *)
(* (proxyWebSocket on the server, Serve and serveWebSocket on the client). *)
(* Each end owns a connection (the viewer's, the local service's).  The    *)
(* server writes the upgrade request on the stream, the client reads it,   *)
(* dials the service and passes it on; then each end runs two goroutines:  *)
(* "up" copies from the connection to the stream, "down" from the stream   *)
(* to the connection, and each closes both when its copy ends.             *)
(*                                                                         *)
(* The stream underneath is MuxStream's, step for step.  io.Copy writes at *)
(* most 32 KiB at a time, below MaxPayload, so a Write is a single frame;  *)
(* so is the upgrade request, and so is an error response.  A write to a   *)
(* connection takes as long as the far end of that connection likes,       *)
(* unless it is closed here.                                               *)
(***************************************************************************)
EXTENDS MuxStream

S == 1  \* the one stream of this model
ASSUME OneStream == StreamId = {S}
\* The bound leaves room for the request and for an error response.
ASSUME HandshakeFits == \A p \in Side : MaxWrites[p] > 0

VARIABLES
  conn,  \* the viewer's connection at the server, the local one at the client
  pipe   \* pipe[p][g]: where goroutine g of end p is (see Pc)

wsVars == <<conn, pipe>>
allVars == <<vars, wsVars>>

\* "up" stands for the handler too, which does the handshake alone: "down" is
\* none until the copying starts.
Goroutine == {"up", "down"}
Pc == {"none",
       "request", "prebuf", "error",  \* writing that on the stream
       "dial",                        \* dialling the local service
       "conn write",                  \* writing to the connection
       "copy",                        \* io.Copy, waiting for input or in a Write
       "st", "wait", "conn",          \* closing the stream, the connection
       "gone"}

\* The viewer's connection was hijacked; the local one is not dialled yet.
WSInit ==
  /\ Init
  /\ conn = [p \in Side |-> IF p = "server" THEN "open" ELSE "closed"]
  /\ pipe = [p \in Side |-> [g \in Goroutine |-> "none"]]

Goto(p, g, pc) == pipe' = [pipe EXCEPT ![p][g] = pc]
StartCopying(p) == pipe' = [pipe EXCEPT ![p] = [g \in Goroutine |-> "copy"]]

\* What goroutine g does first once its copy has ended: every one closes the
\* stream and then the connection, but for the client's "down".
AfterCopy(p, g) == IF p = "client" /\ g = "down" THEN "conn" ELSE "st"

-----------------------------------------------------------------------------
(* The handshake.                                                          *)

\* proxyWebSocket after OpenStream: on to the request, or, if that failed, only
\* the deferred conn.Close.
ServerStart(p) ==
  /\ p = "server" /\ pipe[p]["up"] = "none"
  /\ \/ /\ ep[p][S] = "live"
        /\ Goto(p, "up", "request")
        /\ UNCHANGED conn
     \/ /\ ep[p][S] = "failed"
        /\ Goto(p, "up", "gone")
        /\ conn' = [conn EXCEPT ![p] = "closed"]
  /\ UNCHANGED vars

\* Serve reads the request, or finds the end of the stream instead of one.
ClientStart(p) ==
  /\ p = "client" /\ pipe[p]["up"] = "none"
  /\ \/ Read(p, S) /\ Goto(p, "up", "dial")
     \/ ReadEnd(p, S) /\ Goto(p, "up", "error")
  /\ UNCHANGED conn

\* serveWebSocket dials the local service; if that fails it answers with an error.
Dial(p) ==
  /\ pipe[p]["up"] = "dial"
  /\ \/ Goto(p, "up", "conn write") /\ conn' = [conn EXCEPT ![p] = "open"]
     \/ Goto(p, "up", "error") /\ UNCHANGED conn
  /\ UNCHANGED vars

\* The request, and what came with it, is written to the local service: both
\* directions are copied, or the write failed and the handler returns.
RequestPassedOn(p) ==
  /\ pipe[p]["up"] = "conn write"
  /\ StartCopying(p) \/ Goto(p, "up", "st")
  /\ UNCHANGED <<vars, conn>>

-----------------------------------------------------------------------------
(* Writing on the stream.                                                  *)

\* A handshake Write begins, or "up" has read from its connection and writes it.
CopyUp(p) ==
  /\ \/ pipe[p]["up"] \in {"request", "prebuf", "error"}
     \/ pipe[p]["up"] = "copy" /\ conn[p] = "open"
  /\ WriteLock(p, S)
  /\ UNCHANGED wsVars

\* That Write returns.  What the viewer sent along with the request follows it
\* before the copying starts, and an error of that Write is ignored.
UpWrites(p) ==
  /\ WriteFrame(p, S) /\ wpc'[p][S] = "idle"
  /\ LET ok == sent'[p][S] # sent[p][S] IN
     \/ pipe[p]["up"] = "request" /\ ok /\ StartCopying(p)
     \/ /\ pipe[p]["up"] = "request" /\ ok /\ sent'[p][S] < MaxWrites[p]
        /\ Goto(p, "up", "prebuf")
     \/ pipe[p]["up"] = "prebuf" /\ StartCopying(p)
     \/ pipe[p]["up"] = "copy" /\ ok /\ UNCHANGED pipe
     \/ pipe[p]["up"] \in {"request", "copy"} /\ ~ok /\ Goto(p, "up", "st")
     \/ pipe[p]["up"] = "error" /\ Goto(p, "up", "st")
  /\ UNCHANGED conn

\* "up" ends: its connection reached its end or failed, or Write's check fails.
UpEnds(p) ==
  /\ pipe[p]["up"] = "copy" /\ wpc[p][S] = "idle"
  /\ Goto(p, "up", "st")
  /\ UNCHANGED <<vars, conn>>

-----------------------------------------------------------------------------
(* Reading from the stream.                                                *)

\* "down" reads a payload and goes on to write it to its connection.
CopyDown(p) ==
  /\ pipe[p]["down"] = "copy"
  /\ Read(p, S)
  /\ Goto(p, "down", "conn write")
  /\ UNCHANGED conn

\* The write to the connection returns; it fails if the connection is closed.
DownWrites(p) ==
  /\ pipe[p]["down"] = "conn write"
  /\ \/ conn[p] = "open" /\ Goto(p, "down", "copy")
     \/ Goto(p, "down", AfterCopy(p, "down"))
  /\ UNCHANGED <<vars, conn>>

\* "down" ends because the stream did.
DownEnds(p) ==
  /\ pipe[p]["down"] = "copy"
  /\ ReadEnd(p, S)
  /\ Goto(p, "down", AfterCopy(p, "down"))
  /\ UNCHANGED conn

-----------------------------------------------------------------------------
(* Closing.                                                                *)

\* Mutant: the goroutine forgets to close the stream.
PipeSkipsStream(p, g) ==
  /\ pipe[p][g] = "st"
  /\ Goto(p, g, "conn")
  /\ UNCHANGED <<vars, conn>>

\* st.Close(), which is CloseWrite: only the first caller emits a frame.
PipeClosesStream(p, g) ==
  /\ pipe[p][g] = "st"
  /\ \/ CloseWrite(p, S) /\ Goto(p, g, "wait")
     \/ /\ ~MayWrite(p, S)
        /\ Goto(p, g, IF AfterCopy(p, g) = "st" THEN "conn" ELSE "gone")
        /\ UNCHANGED vars
  /\ UNCHANGED conn

\* CloseWrite returns.
PipeStreamClosed(p, g) ==
  /\ pipe[p][g] = "wait" /\ cpc[p][S] = "idle"
  /\ Goto(p, g, IF AfterCopy(p, g) = "st" THEN "conn" ELSE "gone")
  /\ UNCHANGED <<vars, conn>>

\* conn.Close().
PipeClosesConn(p, g) ==
  /\ pipe[p][g] = "conn"
  /\ conn' = [conn EXCEPT ![p] = "closed"]
  /\ Goto(p, g, IF AfterCopy(p, g) = "st" THEN "gone" ELSE "st")
  /\ UNCHANGED vars

PipeCloses(p, g) ==
  PipeClosesStream(p, g) \/ PipeStreamClosed(p, g) \/ PipeClosesConn(p, g)

\* What goes on in the stream by itself.
StreamStep(p) ==
  /\ LoopStep(p, S) \/ OpenFrame(p, S) \/ CloseFrame(p, S) \/ CloseRetire(p, S)
  /\ UNCHANGED wsVars

\* The session below the pipe is shut down, by its owner or because it died.
SessionStep(p) ==
  /\ Shutdown(p) \/ ShutdownMark(p, S) \/ ShutdownEnd(p) \/ ReadFail(p)
  /\ UNCHANGED wsVars

WSNext ==
  \E p \in Side :
    \/ OpenStream(p) /\ UNCHANGED wsVars
    \/ ServerStart(p) \/ ClientStart(p) \/ Dial(p) \/ RequestPassedOn(p)
    \/ CopyUp(p) \/ UpWrites(p) \/ UpEnds(p)
    \/ CopyDown(p) \/ DownWrites(p) \/ DownEnds(p)
    \/ \E g \in Goroutine : PipeCloses(p, g)
    \/ StreamStep(p) \/ SessionStep(p)

\* A goroutine that can go on does.  A connection need not deliver anything, nor
\* end, nor take what is written to it, by itself: it only fails once closed.
WSFairness ==
  \A p \in Side :
    /\ WF_allVars((ReadFail(p) \/ LoopStep(p, S)) /\ UNCHANGED wsVars)
    /\ WF_allVars(StreamStep(p))
    /\ WF_allVars((closed[p] \/ rl[p].pc = "exit") /\ SessionStep(p))
    /\ WF_allVars(ServerStart(p) \/ ClientStart(p) \/ Dial(p))
    /\ WF_allVars((pipe[p]["up"] # "copy" /\ CopyUp(p)) \/ UpWrites(p))
    /\ WF_allVars(conn[p] = "closed" /\ UpEnds(p))
    /\ WF_allVars(\/ CopyDown(p) \/ DownEnds(p)
                  \/ conn[p] = "closed" /\ DownWrites(p))
    /\ \A g \in Goroutine : WF_allVars(PipeCloses(p, g))

WSSpec == WSInit /\ [][WSNext]_allVars /\ WSFairness

-----------------------------------------------------------------------------

\* The handler of end p has returned, and with it both its goroutines.
Returned(p) == pipe[p]["up"] = "gone" /\ pipe[p]["down"] \in {"none", "gone"}

\* Neither end leaks: when the handler of a pipe has returned, it has closed its
\* connection and ended its direction of the stream, if it got one.
PipeLeavesNothingOpen ==
  \A p \in Side :
    Returned(p) =>
      conn[p] = "closed" /\ (sentClose[p][S] \/ reset[p][S] \/ ep[p][S] = "failed")

\* When the half of a pipe that reads the connection of end p has ended, the
\* handlers of both ends return for good, so neither the viewer nor the local
\* service is left with a dead connection, and no goroutine is left behind.
EndsTogether(p) ==
  pipe[p]["up"] = "gone" ~> [](\A q \in Side : ep[q][S] = "live" => Returned(q))

\* Whoever is at the far end of p's connection goes on taking what is written.
ConnGoesOn(p) == []<>(\A g \in Goroutine : pipe[p][g] # "conn write")

\* "closing one half aborts the other" (proxyWebSocket), as far as it goes: it needs
\* both connections to take what is written to them, and both read loops not to
\* stay blocked for ever on a buffer nobody reads.
PipeEndsTogether ==
  (\A q \in Side : ConnGoesOn(q) /\ LoopGoesOn(q)) => \A p \in Side : EndsTogether(p)

\* "closing one half aborts the other": with no assumption on the read loops, since
\* it is the pipe itself that reads the stream, the connection of the other end
\* gets closed.
HalvesEndTogether ==
  (\A q \in Side : ConnGoesOn(q)) =>
    \A p \in Side : pipe[p]["up"] = "gone" ~> conn[Peer(p)] = "closed"
=============================================================================
