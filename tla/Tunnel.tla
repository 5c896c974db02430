-------------------------------- MODULE Tunnel --------------------------------
(***************************************************************************)
(* The tunnel client's control loop (internal/client/tunnel.go): Run with  *)
(* its reconnects and backoff, one connectOnce at a time, the goroutine    *)
(* that closes the socket when the context is cancelled, the request       *)
(* handlers that outlive a session, the bounded event channel they all     *)
(* send on, and the main goroutine that shows the events: the terminal UI  *)
(* (internal/tui) or, without a terminal, the plain log of                 *)
(* cmd/client/main.go.  The process ends when the main goroutine returns.  *)
(*                                                                         *)
(* The session is reduced to its read loop: it reads, or it is stalled in  *)
(* pushData on a stream whose local reader is slow, or has gone: a         *)
(* WebSocket's pipe ends without aborting its stream (WebSocketPipe).  A   *)
(* stalled loop does not notice that its socket was closed.                *)
(***************************************************************************)
EXTENDS Integers, Sequences

CONSTANTS EventCap,  \* capacity of Tunnel.events, 256 in New
          Handler,   \* request handlers (a bound)
          Answers    \* what servers may answer a hello with

ASSUME EventCapAssumption == EventCap \in Nat \ {0}
ASSUME AnswersAssumption == Answers \subseteq {"ok", "rejected", "tls_required"}

VARIABLES
  cancelled,  \* the context was cancelled
  pc,         \* where Run and connectOnce are
  err,        \* what connectOnce returned
  backoff,    \* Run's backoff, in seconds
  sock,       \* the control connection: none, open, ended (by the peer), closed
  loop,       \* the session's read loop, while pc is "run"
  connected,  \* Tunnel.status.Connected
  events,     \* the contents of Tunnel.events
  closed,     \* Tunnel.closed, and Tunnel.events is closed
  handler,    \* request handlers: idle, serving, emit
  ui,         \* what the main goroutine runs: the terminal UI or the log
  consumer,   \* the main goroutine: it shows events, waits, or has returned
  shown,      \* the status on the screen, or the last one logged
  lost,       \* the newest status event was dropped
  refused,    \* a server answered tls_required to this plaintext client
  resent      \* and a hello with the token was sent after that

connVars == <<err, backoff, sock, loop, connected>>
eventVars == <<events, lost>>
uiVars == <<ui, consumer, shown>>
histVars == <<refused, resent>>
vars == <<cancelled, pc, connVars, eventVars, closed, handler, uiVars, histVars>>

Event == {"connecting", "connected", "disconnected", "reconnecting", "request", "shutting_down"}
MaxBackoff == 10

TypeOK ==
  /\ cancelled \in BOOLEAN
  /\ pc \in {"start", "dial", "hello", "ack", "publish", "up", "run", "after", "down",
             "parked", "backoff", "again", "stop", "close", "returned"}
  /\ err \in {"none", "failed", "tls_required"}
  /\ backoff \in 1 .. MaxBackoff
  /\ sock \in {"none", "open", "ended", "closed"}
  /\ loop \in {"reading", "stalled"}
  /\ connected \in BOOLEAN
  /\ events \in Seq(Event) /\ Len(events) <= EventCap
  /\ closed \in BOOLEAN
  /\ handler \in [Handler -> {"idle", "serving", "emit"}]
  /\ ui \in {"tui", "log"}
  /\ consumer \in {"showing", "waiting", "exited"}
  /\ shown \in Event \ {"request"}
  /\ lost \in BOOLEAN
  /\ refused \in BOOLEAN /\ resent \in BOOLEAN

Init ==
  /\ cancelled = FALSE
  /\ pc = "start"
  /\ err = "none"
  /\ backoff = 1
  /\ sock = "none"
  /\ loop = "reading"
  /\ connected = FALSE
  /\ events = <<>>
  /\ closed = FALSE
  /\ handler = [h \in Handler |-> "idle"]
  /\ ui \in {"tui", "log"}
  /\ consumer = "showing"
  /\ shown = "connecting"
  /\ lost = FALSE
  /\ refused = FALSE
  /\ resent = FALSE

-----------------------------------------------------------------------------

\* A send on the channel that never blocks: an event that does not fit is
\* dropped.  lost remembers whether that was the newest word on the tunnel.
Send(e, dropped) ==
  /\ events' = IF dropped THEN events ELSE Append(events, e)
  /\ lost' = IF e = "request" THEN lost ELSE dropped

\* Mutant: emit does not look at closed.
EmitUnchecked(e) == Send(e, Len(events) = EventCap)

\* emit: nothing after shutdown, and nothing into a full channel.
Emit(e) == Send(e, closed \/ Len(events) = EventCap)

Others == <<cancelled, closed, handler, uiVars>>

\* Run: emit Connecting.
Start ==
  /\ pc = "start"
  /\ Emit("connecting")
  /\ pc' = "dial"
  /\ UNCHANGED <<Others, connVars, histVars>>

\* dial succeeds, unless the context was cancelled before.
DialOK ==
  /\ pc = "dial" /\ ~cancelled
  /\ sock' = "open"
  /\ pc' = "hello"
  /\ UNCHANGED <<Others, err, backoff, loop, connected, eventVars, histVars>>

\* connectOnce returns: its deferred calls end the watcher and close the socket.
ConnectOnceReturns(e) == err' = e /\ pc' = "after" /\ sock' = "none"

\* dial fails, or the hello cannot be written, or no ack comes in time.
HandshakeFails ==
  /\ pc \in {"dial", "hello", "ack"}
  /\ ConnectOnceReturns("failed")
  /\ UNCHANGED <<Others, backoff, loop, connected, eventVars, histVars>>

\* The hello, with the token, is written.
SendHello ==
  /\ pc = "hello" /\ sock \in {"open", "ended"}
  /\ resent' = (resent \/ refused)
  /\ pc' = "ack"
  /\ UNCHANGED <<Others, connVars, eventVars, refused>>

\* The ack arrives: the tunnel is accepted or the error says why not.
ReadAck(a) ==
  /\ pc = "ack" /\ sock = "open"
  /\ a \in Answers
  /\ \/ a = "ok" /\ pc' = "publish" /\ UNCHANGED <<err, sock>>
     \/ a = "rejected" /\ ConnectOnceReturns("failed")
     \/ a = "tls_required" /\ ConnectOnceReturns("tls_required")
  /\ refused' = (refused \/ a = "tls_required")
  /\ UNCHANGED <<Others, backoff, loop, connected, eventVars, resent>>

\* The session is published in the status.
Publish ==
  /\ pc = "publish"
  /\ connected' = TRUE
  /\ pc' = "up"
  /\ UNCHANGED <<Others, err, backoff, sock, loop, eventVars, histVars>>

\* Emit Connected and enter Session.Run.
Up ==
  /\ pc = "up"
  /\ Emit("connected")
  /\ pc' = "run"
  /\ loop' = "reading"
  /\ UNCHANGED <<Others, err, backoff, sock, connected, histVars>>

\* The read loop blocks in pushData, or gets on.
Stall ==
  /\ pc = "run" /\ loop = "reading" /\ sock = "open"
  /\ loop' = "stalled"
  /\ UNCHANGED <<Others, pc, err, backoff, sock, connected, eventVars, histVars>>

Unstall ==
  /\ pc = "run" /\ loop = "stalled"
  /\ loop' = "reading"
  /\ UNCHANGED <<Others, pc, err, backoff, sock, connected, eventVars, histVars>>

\* The read loop finds the connection gone; Run returns, and so does connectOnce.
SessionEnds ==
  /\ pc = "run" /\ loop = "reading" /\ sock # "open"
  /\ ConnectOnceReturns("failed")
  /\ UNCHANGED <<Others, backoff, loop, connected, eventVars, histVars>>

\* Run looks at the context, and records that the tunnel is down.
After ==
  /\ pc = "after"
  /\ \/ cancelled /\ pc' = "stop" /\ UNCHANGED connected
     \/ ~cancelled /\ pc' = "down" /\ connected' = FALSE
  /\ UNCHANGED <<Others, err, backoff, sock, loop, eventVars, histVars>>

\* Mutant: a tls_required refusal is retried like any other.
DownRetries ==
  /\ pc = "down"
  /\ Emit("disconnected")
  /\ pc' = "backoff"
  /\ UNCHANGED <<Others, connVars, histVars>>

\* Mutant: the refusal that ends the retries is not announced.
DownSilentRefusal ==
  /\ pc = "down"
  /\ IF err = "tls_required" THEN UNCHANGED eventVars ELSE Emit("disconnected")
  /\ pc' = IF err = "tls_required" THEN "parked" ELSE "backoff"
  /\ UNCHANGED <<Others, connVars, histVars>>

\* Emit Disconnected; after tls_required stay down.
Down ==
  /\ pc = "down"
  /\ Emit("disconnected")
  /\ pc' = IF err = "tls_required" THEN "parked" ELSE "backoff"
  /\ UNCHANGED <<Others, connVars, histVars>>

\* The backoff is over.
BackoffOver ==
  /\ pc = "backoff"
  /\ pc' = "again"
  /\ UNCHANGED <<Others, connVars, eventVars, histVars>>

\* Mutant: the backoff is doubled without a cap.
AgainUncapped ==
  /\ pc = "again"
  /\ Emit("reconnecting")
  /\ backoff' = IF backoff < MaxBackoff THEN 2 * backoff ELSE backoff
  /\ pc' = "start"
  /\ UNCHANGED <<Others, err, sock, loop, connected, histVars>>

\* Emit Reconnecting and double the backoff, up to ten seconds.
Again ==
  /\ pc = "again"
  /\ Emit("reconnecting")
  /\ backoff' = IF 2 * backoff > MaxBackoff THEN MaxBackoff ELSE 2 * backoff
  /\ pc' = "start"
  /\ UNCHANGED <<Others, err, sock, loop, connected, histVars>>

\* The context ends a wait.
WaitCancelled ==
  /\ pc \in {"parked", "backoff"} /\ cancelled
  /\ pc' = "stop"
  /\ UNCHANGED <<Others, connVars, eventVars, histVars>>

\* Emit ShuttingDown.
Stop ==
  /\ pc = "stop"
  /\ Emit("shutting_down")
  /\ pc' = "close"
  /\ UNCHANGED <<Others, connVars, histVars>>

\* The deferred shutdown closes the channel.
Shutdown ==
  /\ pc = "close"
  /\ closed' = TRUE
  /\ pc' = "returned"
  /\ UNCHANGED <<cancelled, handler, uiVars, connVars, eventVars, histVars>>

-----------------------------------------------------------------------------
(* The other goroutines.                                                   *)

\* The context is cancelled: a signal, or the user quits.
Cancel ==
  /\ ~cancelled
  /\ cancelled' = TRUE
  /\ UNCHANGED <<pc, closed, handler, uiVars, connVars, eventVars, histVars>>

\* connectOnce's watcher closes the socket once the context is cancelled.
WatcherCloses ==
  /\ cancelled /\ sock \in {"open", "ended"}
  /\ sock' = "closed"
  /\ UNCHANGED <<Others, pc, err, backoff, loop, connected, eventVars, histVars>>

\* The server or the network ends the connection.
PeerEnds ==
  /\ sock = "open"
  /\ sock' = "ended"
  /\ UNCHANGED <<Others, pc, err, backoff, loop, connected, eventVars, histVars>>

\* OnStream starts a handler; it may serve for as long as it likes, even after
\* the session, and then emits its record.
HandlerStarts(h) ==
  /\ pc = "run" /\ loop = "reading" /\ sock = "open"
  /\ handler[h] = "idle"
  /\ handler' = [handler EXCEPT ![h] = "serving"]
  /\ UNCHANGED <<cancelled, pc, closed, uiVars, connVars, eventVars, histVars>>

HandlerServed(h) ==
  /\ handler[h] = "serving"
  /\ handler' = [handler EXCEPT ![h] = "emit"]
  /\ UNCHANGED <<cancelled, pc, closed, uiVars, connVars, eventVars, histVars>>

HandlerEmits(h) ==
  /\ handler[h] = "emit"
  /\ Emit("request")
  /\ handler' = [handler EXCEPT ![h] = "idle"]
  /\ UNCHANGED <<cancelled, pc, closed, uiVars, connVars, histVars>>

\* An event on the screen, or in the log: the status changes, a record is listed.
\* EventShuttingDown ends the process.
Show(e) ==
  /\ shown' = IF e = "request" THEN shown ELSE e
  /\ consumer' = IF e = "shutting_down" THEN "exited" ELSE "showing"

\* The main goroutine takes the next event.
Consume ==
  /\ consumer = "showing" /\ events # <<>>
  /\ events' = Tail(events)
  /\ Show(Head(events))
  /\ UNCHANGED <<cancelled, pc, closed, handler, connVars, ui, lost, histVars>>

\* Mutant: a closed channel is taken for an empty one.
ChannelClosedIgnored == FALSE

\* It finds the channel closed and drained: the terminal UI makes the missing
\* EventShuttingDown up (waitEvent), the log leaves its loop.
ChannelClosed ==
  /\ consumer = "showing" /\ events = <<>> /\ closed
  /\ \/ ui = "tui" /\ Show("shutting_down")
     \/ ui = "log" /\ consumer' = "waiting" /\ UNCHANGED shown
  /\ UNCHANGED <<cancelled, pc, closed, handler, connVars, eventVars, ui, histVars>>

\* The log's wait for the context, after its channel was closed.
LogReturns ==
  /\ consumer = "waiting" /\ cancelled
  /\ consumer' = "exited"
  /\ UNCHANGED <<cancelled, pc, closed, handler, connVars, eventVars, ui, shown, histVars>>

\* q, ctrl+c or esc in the terminal UI: the context is cancelled and the UI
\* returns.
QuitKey ==
  /\ ui = "tui" /\ consumer = "showing"
  /\ cancelled' = TRUE
  /\ consumer' = "exited"
  /\ UNCHANGED <<pc, closed, handler, connVars, eventVars, ui, shown, histVars>>

-----------------------------------------------------------------------------

RunStep ==
  \/ Start \/ DialOK \/ HandshakeFails \/ SendHello \/ \E a \in Answers : ReadAck(a)
  \/ Publish \/ Up \/ SessionEnds \/ After \/ Down \/ BackoffOver \/ Again
  \/ WaitCancelled \/ Stop \/ Shutdown

\* Nothing runs in a process that has ended.
InProcess == consumer # "exited"

Next ==
  /\ InProcess
  /\ \/ RunStep \/ Stall \/ Unstall
     \/ Cancel \/ WatcherCloses \/ PeerEnds
     \/ Consume \/ ChannelClosed \/ LogReturns \/ QuitKey
     \/ \E h \in Handler : HandlerStarts(h) \/ HandlerServed(h) \/ HandlerEmits(h)

\* Run goes on when it can (dial, handshake and backoff are all bounded in
\* time), the watcher runs, and so does the main goroutine.
Fairness ==
  /\ WF_vars(InProcess /\ RunStep)
  /\ WF_vars(InProcess /\ WatcherCloses)
  /\ WF_vars(InProcess /\ (Consume \/ ChannelClosed \/ LogReturns))

Spec == Init /\ [][Next]_vars /\ Fairness

-----------------------------------------------------------------------------

\* "Each retry would resend the token in plaintext to a server that will never
\* accept it there": after a tls_required answer no hello is ever sent again.
PlaintextRefusalIsFinal == ~resent

\* What the user is told is so.  While the tunnel waits to reconnect, or is kept
\* down for good, its status (the inspector's) says so and no connection is left,
\* whichever way the last attempt ended; and once the UI has caught up, it shows
\* the state Run is in, unless the newest status event itself was dropped: records
\* of handlers that outlive their session and earlier drops do no harm.
StatusIsCurrent ==
  /\ pc \in {"backoff", "parked", "again", "start", "dial"} => ~connected /\ sock = "none"
  /\ InProcess /\ events = <<>> /\ ~lost =>
       /\ pc = "run" => shown = "connected"
       /\ pc \in {"backoff", "parked"} => shown = "disconnected"

\* A handler that outlives Run never sends on the closed channel.
NoSendAfterClose == [][closed => Len(events') <= Len(events)]_vars

\* The read loop is never blocked for good in pushData.
ReaderGoesOn == []<>(InProcess => ~(pc = "run" /\ loop = "stalled"))

\* Cancelling the context ends the process, in whatever Run is doing, whichever
\* UI runs, and although emit may have dropped EventShuttingDown: if no stream
\* stays without a reader for ever.
CancelEndsProcess == ReaderGoesOn => (cancelled ~> ~InProcess)

\* What connectOnce's comment says of its watcher, and the shutdown test of a
\* request in flight: "close the socket so sess.Run() returns promptly".
CancelEndsRun == cancelled ~> (pc = "returned" \/ ~InProcess)
=============================================================================
