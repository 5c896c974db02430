# Munnel: TLA+ models, TLC runs and TLAPS proofs

Munnel exposes a local HTTP service under a public subdomain. A tunnel client
keeps one TCP (or TLS) control connection to the server; every public request
becomes a stream of a small multiplexing protocol on that connection. This
directory models the parts of the program where something can go wrong between
two goroutines, two machines or two moments, checks them with TLC on small
instances, and proves the safety properties of every modelled part for all
instances with TLAPS. Paths below are relative to `src/`.

Contents: [the system](#the-system) · [modules](#the-modules) ·
[runs](#the-runs) · [fairness](#fairness) · [proofs](#the-proofs) ·
[where the code and its text disagree](#where-the-code-and-its-text-disagree) ·
[not modelled](#what-is-not-modelled) · [plan](#plan) · [running it](#running-it)

## The system

| part | code | state it keeps | operations | must be right |
|---|---|---|---|---|
| mux streams | `internal/mux/stream.go`, `session.go` | per session: `streams`, `nextID`, `closed`, `done`; per stream: `chunks`, `readDone`/`readErr`, `sentClose`, `reset`, `aborted` | OpenStream, Write, CloseWrite, Abort, Read, readLoop, shutdown | no payload lost, repeated or reordered before an EOF; streams leave the map; a close or an abort always gets through to blocked goroutines |
| mux liveness | `session.go` (startHeartbeat, watchdog, liveReader, Stale) | `lastRecv`, `stalled`, the pending pong | ping, pong, idle close, Stale | a peer that is there is never timed out or called stale; one that is gone is noticed |
| frame codec | `internal/mux/frame.go` | none | writeFrame, readFrame | round trip, length limit |
| WebSocket pipe | `server/proxy.go` proxyWebSocket, `client/forwarder.go` serveWebSocket | two connections, one stream | two copy goroutines at each end | all four ends close together, as far as the read loops go on |
| request exchange | `server/proxy.go` proxyTo, `client/forwarder.go` Serve | handler locals, header timer, disconnect watcher | send, relay, time out, abort | every wait ends; a cut body never counts as complete |
| control handshake | `server/control.go` handleControlConn | handler locals | hello, checks, ack, serve | only entitled clients hold a name |
| registry | `server/registry.go` | `clients`: name -> Client; `ready` | Register (with takeover), Unregister, Get | a live tunnel keeps its name, a dead one gives it up |
| authenticator, tokens | `server/auth.go`, `token/token.go` | configuration | NewAuthenticatorWith, Check, CheckSubdomain, CheckReserved, ..., Mint | scoped and reserved names |
| public admission | `server/proxy.go` ServeHTTP | none | lookup, wait for ready, forward-auth, proxy | no frame ahead of the ack, no unprotected request |
| tunnel client loop | `client/tunnel.go`, `cmd/client/main.go`, `tui/model.go` | status, events channel, backoff; the status on the screen | Run, connectOnce, emit, shutdown; waitEvent, Update, the log loop | ends when told to, shows what is so, does not resend a refused token |
| inspector | `internal/inspection`, `client/forwarder.go` Replay | ring of records, registered tabs | Add, List, Get, Clear, broadcast, ServeWS, replay | the latest records in order, no gap in a tab, nobody held up by a tab that does not read |
| forward-auth, token issuance | `internal/forwardauth`, `server/proxy.go` handleTokenIssue | none (signed cookies, signed tokens) | login, logout, authorize, mint | no request without a session, no self-issued token for a reserved name |
| certificate reload | `server/certfile.go` | cached pair and stamp | GetCertificate | a renewal is picked up, a broken one is not |
| on-demand TLS, landing page, processes | `server/ask.go`, `landing.go`, `cmd` | none of their own | | |

The parts interact in three ways. Through **shared state**: handlers of control
connections and of public requests share the registry; the read loop, the
writers and the watchdog share a session. Through **messages**: frames on the
control connection, in order, lost only when the connection dies. Through
**blocking**: one read loop per session feeds the buffers of all its streams,
16 chunks each, so a stream nobody reads stops every other one.

What makes it hard: the read loop must never wait for something that needs the
read loop; half-closed streams are retired by whichever end notices last; an
abort may come from a viewer, a timer or a handler, at the same time; a
takeover replaces a session whose handler is still running; the token is parsed
again at every check while time passes; a request can find a tunnel in the
registry before the client was told that it exists; a connection that is full
stops whoever writes to it, and whoever waits for that writer's lock; a tab of the
inspector that does not read is written to by the request handlers.

`PROJECT.json` lists these hazards one by one, at the line where they bite, with
the property that covers each.

## The modules

```
   ByteStream (abstract)                      BoundedLog (abstract)
        ^ implements                               ^ implements
     MuxStream  <- MCMuxStream                 Inspection <- MCInspection
     /       \
 WebSocketPipe  Exchange                      Auth
 <- MCWebSocketPipe  <- MCExchange             |
                                          ControlPlane <- MCControlPlane
 Heartbeat <- MCHeartbeat                 Tunnel <- MCTunnel

 MuxStreamProofs <- MuxOrderProofs <- ExchangeProofs,  MuxStreamProofs <- WebSocketPipeProofs
 HeartbeatProofs    ControlPlaneProofs    TunnelProofs    InspectionProofs
```

**MuxStream** — the two ends of one session (`Side`), the connection between
them (`wire[p]`: frames `p` wrote and its peer has not read), and the streams.
Variables carry the names of the fields they stand for. A step is what the code
does between two points where another goroutine can interfere: a section under
`Stream.mu` or `Session.mu`, one frame, one channel operation. An operation
with several such sections is several actions joined by a program counter:
`wpc` (Write), `cpc` (CloseWrite), `apc` (Abort), `rl` (the read loop), `marking`
(shutdown). `CloseWrite`/`CloseFrame`/`CloseRetire` are CloseWrite;
`Abort`/`AbortFrame`/`AbortFinish` are Abort; `RecvClose`/`CloseCheck` are
remoteClose; `RecvData` then `PushData` or `PushDrop` are pushData with its
select. A payload is its position in the stream, which is what order and
completeness need. Two reductions are argued in the module's header: a frame is
checked against `closed` and put on the connection in one step, and the last
calls of an ending stream are one step. The connection takes `WireCap` frames:
whoever writes to a full one waits, whatever it holds, and nobody else gets a frame
out in the meantime (`Session.wmu`).

**ByteStream** — what one direction of a stream promises its reader, with neither
frames, buffers nor locks: the payloads written at the far end, each once and in
order, then one end. A clean end means that nothing is missing and nothing more will
be written; any other end may come at any time. `Streams` in MuxStream
is the refinement mapping.

**WebSocketPipe** — extends MuxStream with the connection and the goroutines at each
end. The handshake is there with its ways to fail: no stream, no request, a refused
dial, a failed write, each followed by the closes of its return path; an error
response is one more frame on the stream. Then two goroutines copy at each end, and
a write of theirs to the viewer's or the service's connection takes as long as the
far end likes (`conn write`). The stream steps are MuxStream's own actions.

**Exchange** — extends MuxStream with proxyTo (`h`), its viewer, its
disconnect watcher and header timer, and with Forwarder.Serve (`cl`), its
context and the local request. `time.AfterFunc` and `context.AfterFunc` fire in
one step and call Abort in a later one, as their goroutines do, so
`headerTimer.Stop` can return false before the stream is aborted. The HTTP
parsers of `net/http` are external: what matters of a body is whether its end
is announced (`framed`), is the end of the stream (`close`), or there is none
(`short`).

**Heartbeat** — the pinger, the watchdog, the read loop with `stalled`, and a
connection of bounded capacity and delay, in discrete time. Ages saturate, so
time is unbounded and the state space finite. A large DATA frame is a sequence
of parts, so bytes keep arriving while no frame completes. The watchdog's two
loads (`stalled`, then the silence) are two steps.

**Auth** — the authenticator's checks as operators of a configuration, a token
and the time, and the configuration itself as NewAuthenticatorWith builds it. A
signed token is its claims and whether its signature verifies.

**ControlPlane** — handleControlConn for every control connection, the
registry, and ServeHTTP up to OpenStream for every viewer. Each check is a step
of its own, because each parses the token again and the clock (`now`) may move
in between. `first` records what was written first on a connection. A session is
open or closed here; that `Stale` is only true of a client that is gone is what
Heartbeat establishes. `cookies` are the session values signed so far (`FAHandle`). As
in verifySession they know no host and a logout does not touch them: a request may
carry any of them, or a made-up one, to any tunnel. Its identity headers are the
viewer's own until StripIdentityHeaders, the session's after Authorize. `IssueToken` is the token
endpoint; the tokens it minted appear in later hellos (`EnrolledHellos`).
`ValidName` are the names ValidSubdomain accepts; a hello or a token of the operator
may carry another one (`Name`).

**Tunnel** — Run and connectOnce, the context watcher, request handlers that
outlive Run, the bounded event channel, and the main goroutine that takes from it:
the terminal UI or the plain log (`ui`), with what it shows (`shown`). When the
main goroutine returns the process is over (`InProcess`). The session is reduced
to its read loop: reading, or stalled in pushData, maybe for ever, where it does not
notice that its socket was closed.

**Inspection** — Store as the ring it is (`buf`, `head`, `n`, `seq`), Hub with its
mutex and a broadcast that writes to one tab after the other, ServeWS for every
tab, and the goroutines that add records: request handlers and replays. An ID is
taken before the lock, so two Adds may swap. A tab that has stopped reading takes a
write or lets it run into its deadline. A replay sends what `Replay` makes of a record:
the captured path, escaped once more if it was escaped (`Escaped`), and the captured
headers, which the record of a replay does not have. `feed` is what was written to a tab and
`due` what was broadcast since it was registered.

**BoundedLog** — what Store promises: the latest Capacity records since the last
Clear, in the order of their Adds. `Log` in Inspection maps the ring to it.

Definitions whose comment starts with *Mutant* are plausible bugs of the
definition below them. No specification uses them; each shows, when put in the
place of the original, that a property can fail.

## The runs

| run | question | instance | size |
|---|---|---|---|
| `mux` | Is each direction of a stream a byte stream, ended truthfully and retired, and does an abort or a close free whoever it must? | one stream, two payloads against a one-slot buffer, a connection of two frames, one fault: an abort at either end, the client's session closed or the server's socket broken; no reader assumed | 84 k states |
| `mux_full_socket` | *violation*: does Abort end its own side although the connection is full? | two payloads towards a client that does not read, one abort | small |
| `websocket_pipe` | Do the four ends of a WebSocket close together? | four writes from the viewer's end, one from the service's, a buffer and a connection of one frame; a connection that ends, a refused dial or a closed session | 187 k |
| `websocket_half_close` | *violation*: does closing one half abort the other? | five writes from the viewer's end | small |
| `exchange` | Does every wait of an HTTP exchange end, what does the viewer get, and is a complete response whole? | a request of one frame, every kind of response, a viewer that may leave, timer, failing or hanging service, a tunnel that may die | 232 k |
| `heartbeat` | Are live peers kept and dead ones noticed? | Ping 2, Idle 4, Delay 1, a frame of 6 parts | 290 k |
| `control_admission` | Who can hold which name, and until when? | two clients, thirteen kinds of hello, a self-issued token, expiry during the handshake | 319 k |
| `control_takeover` | Can a takeover, a failed ack or a late handler hurt another tunnel, or a request slip through? | three clients, one name, a viewer that logs in and out | 3.1 M, symmetric in the clients |
| `control_mandate` | *violation*: is the `prot` claim enforced when the token expires? | one client, one request | small |
| `tunnel` | Does the client end, show what is so and never resend? | two event slots, two late handlers, either UI | 696 k |
| `tunnel_cancel` | *violation*: does Run return after a cancel whatever the handlers do? | no handler needed | small |
| `inspection` | Is the ring a bounded log, and does every tab get every record? | two goroutines, two tabs, three records in a ring of two, one of two requests with an escaped path | 411 k |

Why these bounds are enough to see the interesting cases:

* `ChunkCap = 1` with two payloads is the smallest buffer that fills: the second
  payload blocks the read loop, as the seventeenth does in the code. One stream
  is enough for the properties of a stream, since streams share only the map, the
  connection and the read loop; the safety properties are proved for any number.
* A fault happens at most once per end; a second abort or close is a no-op in
  the code (`reset`, `closed`). The runs with liveness take one fault per behaviour
  (`OneFault`, `TunnelDies` in the MC modules), at any point but where a comment
  there says otherwise, which keeps TLC's graphs small; what follows from it at both
  ends interleaves freely. The safety properties are proved for all faults together.
* `WireCap` is 1 or 2: the smallest connections on which one frame, or a frame and
  the CLOSE behind it, can be under way while a writer waits.
* In the WebSocket runs a buffer, the read loop's pushData and the connection hold one
  frame each, so with five writes (the upgrade request is the first) all three are
  full and one more Write waits while it holds `Stream.wmu`; with four that happens
  while the client has yet to read the request.
* In `heartbeat` the order of the intervals is the code's (ping < 1.5 ping <
  idle timeout), the delay is within what `TimingAssumption` says, and the large
  frame takes longer than the idle timeout.
* Three control connections give a chain of two takeovers while the first
  handler has yet to unregister. `MaxRolls` is 2 instead of 100: one collision
  and one success, or two collisions and a refusal. The clock has a time before
  and one after the tokens expire. `SessionTTL = 0` makes a login good for the
  instant in which it was made and expired in the next. One self-issued token, at
  the first instant (`FairEarlyIssue`), is enough to be used before and after it
  expires.
* Two event slots and two handlers fill the channel and leave a handler that
  emits after the channel was closed.
* Three records are one more than the ring holds, so one is overwritten, or one
  more is stored after a Clear of a full ring. One tab is there from the start and may stop
  reading, the other comes and goes (`OneSlowTab`).

What they show, beyond the invariants' names:

* *Stream layer.* `ImplementsByteStream`: the refinement of ByteStream; a reader
  told EOF has every payload, and a payload dropped by pushData is never followed
  by a delivered one.
  `NoDataAfterClose`: the lock around CLOSE does its job. `DoneMarksEveryStream`:
  no stream slips in behind a shutdown. `ClosedBothWaysRetired`: the two ends of
  the remove race never both miss. `AbortedIsAbnormal`: a clean end never cancels
  a local request. `CloseEndsReadLoop`, `ReadersAreReleased`: nobody stays blocked
  behind backpressure after the session was closed. `AbortFreesReadLoop`,
  `AbortReachesPeer`, `ClosedStreamsAreRetired` hold as long as the peer's read
  loop is not blocked for ever (`LoopGoesOn`), and only then: see
  `websocket_half_close` and `mux_full_socket`.
* *WebSocket.* `PipeLeavesNothingOpen`: on every return path of both handlers.
  `PipeEndsTogether`: if either end is done, so is the other, provided that both read
  loops go on (`LoopGoesOn`) and that viewer and service take what is written to them
  (`ConnGoesOn`). Without the first, `websocket_half_close` shows the opposite.
* *Exchange.* `TimeoutIsAnswered504`: the header timer never cuts a response that
  is being relayed. `GoneFreesLocal`: a viewer that leaves at any point ends the
  local request. `HeaderWaitEnds`, `ExchangeIsRetired`. `CompleteMeansWhole`
  speaks of proxyTo's variable `complete`. A close-delimited body that the local
  service breaks off does count as complete, since Serve ends the stream with
  CLOSE in that case too. And when `complete` is false proxyTo still returns
  normally, so for a response without Content-Length `net/http` ends the public
  response as if it were whole: the model stops at `complete`.
* *Control plane.* `RegistryIsExact`, `OneOpenSessionPerName`,
  `ClosedSessionFreesItsName`: no takeover, eviction, failed ack or late Unregister
  takes or leaks a name. `NoFrameBeforeAck`, `OptInIsEnforced`: although the Client
  is in the registry before the ack is written and before Protected is set, and
  although the session may expire while a request waits for the ack. The session is
  one the server signed and has not expired; nothing more, since verifySession looks
  at neither the host nor a logout.
  `HolderIsEntitled`: whatever expires in the middle of the handshake, whoever
  issued the token.
* *Tunnel.* `CancelEndsProcess`: also when the channel was so full that
  EventShuttingDown was dropped, but only if the read loop is not stalled for ever
  (`ReaderGoesOn`); `tunnel_cancel` is the run without that. `StatusIsCurrent`: late records and earlier drops
  never leave the wrong status on the screen.
* *Inspection.* `StoreIsBoundedLog` is the refinement of BoundedLog.
  `FeedHasNoGaps`: a tab that could not be written to is dropped, never skipped.
  `EveryRecordIsShown`: the write deadline is what keeps a tab that does not read
  from stopping the tabs and the handlers behind it. `ReplaySendsWhatIsShown`:
  what a replay sends and records is the request the tab shows under that ID, also
  around the ring and across a Clear, except for an escaped path and for the headers
  of a replay's record.

Runs say `CHECK_DEADLOCK FALSE` where the system may really stop: a finished
session, pipe, exchange or tunnel. `heartbeat` never stops and is checked for
deadlock.

## Fairness

A goroutine that is inside an operation and can go on does: weak fairness of the
steps after the first one of each operation, of the read loop, of timers and of
goroutines started by `AfterFunc`. That is what the Go scheduler gives. Not fair:
that a caller starts an operation, that the network fails, that a viewer leaves,
that a local service answers, continues or ends.

In Inspection weak fairness is also enough for the waits on `Hub.mu`: the instance
has finitely many records, hence finitely many broadcasts to wait for. A replay's
request to the local service is not fair, since the code gives it neither a context
nor a timeout.

Three assumptions go further. The code guarantees none of them, so they are not
fairness conditions but hypotheses, written in the properties that need them:

* `LoopGoesOn(p)`, in three mux properties and in `PipeEndsTogether`: the read loop of
  `p` is not blocked for ever.
* `ConnGoesOn(p)`, in `PipeEndsTogether` and `HalvesEndTogether`: the viewer, or the
  local service, goes on taking what is written to its connection.
* `ReaderGoesOn`, in `CancelEndsProcess`: the client's read loop does not stay stalled.
  On cancel the client closes only the socket, which a loop blocked in pushData does
  not look at.

In Heartbeat time passes only when no runnable goroutine waits (`Settled`): the
processor is never late by a whole tick, while the network and stream readers
may be late by as much as the constants, or for ever.

## The proofs

Eight modules prove, for every value of the constants, each safety invariant, each
action property and both refinements that the passing runs check.

| module | theorem | statement |
|---|---|---|
| `MuxStreamProofs` | `TypeCorrect` | `Spec => []TypeOK`; no buffer exceeds its capacity |
| | `ShutdownMarksEveryStream` | `Spec => []DoneMarksEveryStream` |
| | `ClosedStreamsLeaveTheMap` | `Spec => []ClosedBothWaysRetired` |
| `MuxOrderProofs` | `StreamsDeliverInOrder` | `Spec => ImplementsByteStream` (refinement) |
| | `NoDataFollowsClose` | `Spec => []NoDataAfterClose` |
| | `AbortedHasACause` | `Spec => []AbortedIsAbnormal` |
| `WebSocketPipeProofs` | `PipesCloseBothSides` | `WSSpec => []PipeLeavesNothingOpen` |
| `ExchangeProofs` | `LateHeadersAre504` | `EXSpec => []TimeoutIsAnswered504` |
| | `CompleteResponsesAreWhole` | `EXSpec => []CompleteMeansWhole` |
| `HeartbeatProofs` | `TypeCorrect` | `Spec => []TypeOK` |
| | `WatchdogSparesTheLiving` | `Spec => []NoFalseIdleClose` |
| | `StalenessIsReal` | `Spec => []StaleMeansGone` |
| | `SilenceStaysBounded` | `Spec => []SilenceIsBounded` |
| `ControlPlaneProofs` | `TypeCorrect` | `Spec => []TypeOK` |
| | `RegistryStaysExact` | `Spec => []RegistryIsExact` |
| | `TakeoverClosesTheOld` | `Spec => []OneOpenSessionPerName` |
| | `HoldersAreEntitled` | `Spec => []HolderIsEntitled` |
| | `AckComesFirst` | `Spec => []NoFrameBeforeAck` |
| | `ProtectionHolds` | `Spec => OptInIsEnforced` (action property) |
| `TunnelProofs` | `TypeCorrect` | `Spec => []TypeOK` |
| | `RefusedTokenIsNotResent` | `Spec => []PlaintextRefusalIsFinal` |
| | `ClosedChannelTakesNothing` | `Spec => NoSendAfterClose` (action property) |
| | `StatusStaysCurrent` | `Spec => []StatusIsCurrent` |
| `InspectionProofs` | `TypeCorrect` | `Spec => []TypeOK` |
| | `FeedsAreComplete` | `Spec => []FeedHasNoGaps` |
| | `ReplaysRepeat` | `Spec => []ReplaySendsWhatIsShown` |
| | `RingIsBoundedLog` | `Spec => StoreIsBoundedLog` (refinement) |

Each invariant is proved to hold initially, to be preserved by every action (one
step per action, and under it one per conjunct the action can disturb), and to
imply the property. A property is seldom inductive as it stands; what had to be
added is the argument why the code is right:

*Shutdown.* A stream could have left the map unmarked before the shutdown collects
the map. `ShutdownInv` says that every stream that was handed out is registered, or
being marked, or has its terminal read state, and what `closed`, `marking` and
`done` say of one another.

*Retiring.* Two parties each write one flag and then read the other's: CloseWrite
sets `sentClose` and reads `readDone`, remoteClose sets `readDone` and reads
`sentClose`. `RetireInv` says who is still obliged to remove the stream when both
are set. It would fail if an identifier could be registered again after it was
removed, so `OpenInv` shows that it cannot: identifiers have the parity of their
allocator, lie below `nextID` once used, and at most one OPEN of each is ever on
the connection, and none once the peer has the stream. `PristineInv` says that a
stream that does not exist at an end has no state there.

*Order.* `DeliveryInv` follows a payload from Write to Read. At the sender
(`SendInv`, `WireSentInv`): CLOSE is written when no Write can follow, and DATA is
numbered as written. On the connection (`WireOrderInv`): DATA of a stream in
increasing order, none behind its CLOSE. At the receiver (`BufferInv`): what Read
returned, what is buffered and the payload the read loop is about to push are an
initial segment of what was written. As long as nothing has ended the reads
(`FreshInv`), the connection holds exactly the rest. `WireLiveInv` is about the
beginning: the OPEN of a stream the receiver does not know yet is in front of all
its DATA, so no payload is discarded for want of a stream. `EofInv` is about the
end: io.EOF means that the far end has finished and everything is here.
The refinement then maps each step of MuxStream to a step of ByteStream for one
reader, or to a stutter. `AbortInv` is separate: a RESET on the connection, an
Abort under way and a stream collected by shutdown each have their cause.

*Pipes and exchanges.* Their steps are MuxStream steps or leave the streams alone
(`WSSpec => Spec`, `EXSpec => Spec`), so the results above hold below them. To
these `UpInv` adds which closes a pipe's goroutines have behind them, which needs that a
failed OpenStream has failed for good; `StageInv`
what the place proxyTo has reached says of the header timer and the answer;
`ServeInv` and `WholeInv` that Serve never writes more frames than its response has
and has finished when a body without a length counts as complete.

*Heartbeat.* `Heard` is the heart: while the path is there, an end that listens has
heard of its peer since the peer's ticker last fired, or a tick waits for the
pinger (which runs before time passes), or a segment is on its way (which takes at
most `Delay`). It relates the silence at one end to the pinger at the other, through
the connection. `WatchInv` bounds the silence by the watchdog's own clock;
`StallInv` and `ClearInv` tie `stalled` to the place of the read loop.

*Control plane.* `HeldInv`: the registry names only handlers between Register and
Unregister, under their own names. `KeepsInv`: such a handler is in the registry
unless its client went stale. `EvictInv`: one that was replaced has its session
closed, or whoever replaced it is about to close it. `BoundInv`, `ScopedInv` and
`OwnedInv` say what the checks passed so far imply about token and name, by facts
that do not change with time, which is why an expiry between two checks does no
harm. For requests: a Client is ready only after its ack, or with its session
closed (`ReadyInv`), a request goes on only to one that is ready (`RequestInv`), and
`Protected` says what the hello asked for by then (`ProtectedInv`). `CookieInv`: a value
with the server's signature is one it signed, and ends at most `SessionTTL` from now.

*Tunnel.* `RefusalInv` says where Run can be after a tls_required answer. `ConnInv`
uses `LastWord(s)`: `s` is the newest status among the events under way, or is shown
and only request records are under way.

*Inspection.* `WorkInv`: who broadcasts holds `Hub.mu`, and no ID is handed out
beyond the bound. `FeedInv`: a tab the broadcast has still to reach lacks exactly
the record under way. `NameInv`: wherever an ID turns up (ring, feeds, goroutines
between numbering and broadcast) it stands for one record. `StoreShifts` is the
arithmetic of the ring: an Add moves every record that List returns by one place.

*Assumptions.* They are the named `ASSUME`s of the modules, which TLC evaluates in
every run. Most only type the constants. Those that say more:

* `TimingAssumption` (Heartbeat): an interval and a delay fit into the idle
  timeout, and the delay into half an interval. With the code's defaults (15 s and
  45 s) that is a delay of at most 7.5 s.
* `ConfigAssumption` (ControlPlane): the configuration is one NewAuthenticatorWith
  accepts. `EnrollAssumption`: a random token ID is not one the operator listed.
* `HelloAssumption`, `AskAssumption`, `NameAssumption`: the fields of a hello and of
  a request for a token have their types; generated names are valid ones. A token
  may be bound to an invalid name, since the mint command does not check it.
* `OneStream` (WebSocketPipe, Exchange): the one stream of the pipe or exchange.
  `HandshakeFits` (WebSocketPipe): the bound on writes has room for the upgrade
  request and for an error response. `RequestAssumption` (Exchange): both ends may write what an exchange needs.

*Only model-checked:* liveness, since fairness and `ENABLED` are out of this
prover's reach: `CloseEndsReadLoop`, `ReadersAreReleased`, `AbortFreesReadLoop`,
`AbortReachesPeer`, `ClosedStreamsAreRetired`, `PipeEndsTogether`,
`GoneFreesLocal`, `HeaderWaitEnds`, `ExchangeIsRetired`, `LostPeerIsNoticed`,
`ClosedSessionFreesItsName`, `CancelEndsProcess`, `EveryRecordIsShown`. The four
violations are counterexamples of TLC.

## Where the code and its text disagree

* `websocket_half_close`: both ends of a WebSocket end it with `st.Close()`, which is
  CloseWrite, and never abort. If the local service leaves while the viewer keeps
  sending, nobody reads the client's end of the stream: its buffer fills, pushData
  blocks the one read loop of the tunnel for ever, and the connection fills. The
  server's copy to the stream then waits in `st.Write` with `Stream.wmu`, and its
  other goroutine, told EOF, waits for that lock in `st.Close()`, so the `conn.Close()`
  behind it (`proxy.go:418-419`) is not reached. `proxy.go:358-359` says "closing one
  half aborts the other" and `stream.go:26-28` that a full buffer "never deadlocks
  against a closer". The same happens in the other direction. For plain requests
  proxyTo does abort.
* `tunnel_cancel`: on cancel the watcher of connectOnce closes the socket, and a read
  loop blocked in pushData on a stream without a reader (such as the one above)
  waits for room, the end of that stream or the end of the session, never for the
  socket. Run does not return, and in log mode SIGTERM does not end the process.
  `tunnel.go:165-168` says "close the socket so sess.Run() returns promptly", and
  `integration/shutdown_test.go:8-10` "so sess.Run unblocks independently of any
  in-flight forwarder goroutine".
* `mux_full_socket`: Abort sends its RESET through `Session.writeFrame`, under
  `Session.wmu`, before it ends the reads and writes of its own side and closes
  Aborted. While a Write holds that lock on a full connection, Abort waits with it.
  `stream.go` says Abort "fails pending and future reads and writes on this side,
  closes Aborted" and "a Write blocked on a full socket must not delay the RESET".
* `control_mandate`: ProtectedByToken parses the token again. A token that expires
  after CheckSubdomain and before that opens its tunnel unprotected; `token.go`
  says "Prot mandates forward-auth on the tunnel this token opens."

Smaller things, seen while modelling and not runs:

* `emit` drops EventShuttingDown when the channel is full, and a late handler may
  emit after it, while `tunnel.go` says the channel is closed "after a final
  EventShuttingDown".
* After a `tls_required` answer Run stays down "with the reason on screen"
  (`tunnel.go`), but the terminal UI's View prints `message` only as long as no
  request is listed, and a late record with an error overwrites it.
* The truncated response above.
* The session cookie is "scoped to the tunnel subdomain" (`README.md:246-247`, and the
  comment of `forwardauth.Handle`) by the browser alone: verifySession accepts a value
  signed on another tunnel's host, and one whose user has logged out, until it expires.
* Replay puts the captured RequestURI, which is escaped, into `URL.Path`
  (`forwarder.go:88, 262`), so a request for `/a%20b` is sent again as `/a%2520b`.
* The record of a replay has no request headers, so a replay of a replay is sent
  without them. Replay refuses a truncated body but not an upgrade request
  (README: "upgrade requests cannot be replayed"), and without a context or a
  timeout it waits for as long as the local service takes.
* Store's order may differ from the order of IDs when two Adds race. The page loads
  the list and opens its WebSocket independently, and does not load again when it
  reconnects, so a record may be missing from a tab, or be there twice: the model
  speaks of what is written to the tab.

## What is not modelled

* Certificate reload (`certfile.go`), the on-demand TLS answer (`ask.go`), host
  routing: each is a function of a file or of one read of the registry.
* The bytes of a frame header and `readFrame`'s length limit; the wrap of the
  32-bit `nextID` after 2^31 streams.
* `OnClose`, `Wait` and the error values a session reports: the repository does not
  use them.
* The inspector's guard (token, Host, Origin) and its page's script.
* JSON, HMAC, header rewriting, the text formats of configuration files, flags, the
  token command, listeners, rendering and the landing page: data or I/O without
  protocol.

## Plan

Modelled, in this order: MuxStream, WebSocketPipe, Heartbeat, Auth and
ControlPlane, Tunnel, Exchange; then the bounded connection under MuxStream, with
WebSocketPipe and Exchange over it, ByteStream and its refinement, logins and token
issuance in ControlPlane, the main goroutine in Tunnel, Inspection and BoundedLog.

Proved, in this order: the stream map (`MuxStreamProofs`), order and causes
(`MuxOrderProofs`), the control plane, the client loop, the inspector, the
heartbeat, then the pipe and the exchange over the stream layer.

Left: no safety property that a run checks. Worth stating as theorems of their own
are that the streams below a pipe and an exchange implement ByteStream (it follows
from `WSSpec => Spec` and `EXSpec => Spec`). Liveness stays with TLC.

## Running it

```
tlc -workers 2 -config mux.cfg MCMuxStream   # any run: its cfg and MC module
tlapm MuxOrderProofs.tla                     # any module whose name ends in Proofs
```

A run takes from a few seconds to four minutes, a proof module from ten seconds to
about three minutes.
