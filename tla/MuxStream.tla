------------------------------ MODULE MuxStream ------------------------------
(***************************************************************************)
(* The stream layer of internal/mux: the two ends of one session, the      *)
(* connection between them, and the life of every stream on it, from the   *)
(* OPEN frame to the moment both ends have dropped it.                      *)
(*                                                                         *)
(* Each end runs one read loop (Session.readLoop) and any number of        *)
(* goroutines that call Write, CloseWrite, Abort and Read on a stream, or  *)
(* CloseWithError on the session.  A step of the model is what the code    *)
(* does between two points where another goroutine can interfere: a        *)
(* section under Stream.mu or Session.mu, one frame written, one channel   *)
(* operation.  Payloads are abstracted to their position in the stream:    *)
(* the k-th DATA frame an end writes on a stream carries k.                *)
(*                                                                         *)
(* A frame is checked against Session.closed and put on the connection in  *)
(* one step.  Session.wmu admits one writer at a time, and a successful    *)
(* socket write commutes to the left with every step of the other          *)
(* goroutines of its end, and so does the read at the far end that made    *)
(* room for it, so this loses no behaviour.  The connection holds WireCap  *)
(* frames each way; a writer that finds it full waits, and since it holds  *)
(* Session.wmu meanwhile so does every other writer of its end, whatever   *)
(* the stream.  The calls that end a stream for good (markReadDone,        *)
(* signalAbort, remove) are one step: each happens once and none waits for *)
(* another goroutine.                                                      *)
(***************************************************************************)
EXTENDS Integers, Sequences, FiniteSets

CONSTANTS StreamId,   \* the stream identifiers that may be allocated (a bound)
          MaxWrites,  \* DATA frames each end may write on one stream (a bound)
          Faults,     \* what may go wrong, and at which end (a bound)
          ChunkCap,   \* capacity of Stream.chunks, 16 in newStream
          WireCap     \* frames the connection holds in each direction (a bound)

ASSUME StreamIdAssumption == StreamId \subseteq Nat \ {0}
ASSUME ChunkCapAssumption == ChunkCap \in Nat \ {0}
ASSUME WireCapAssumption == WireCap \in Nat \ {0}

Side == {"server", "client"}
Peer(p) == IF p = "server" THEN "client" ELSE "server"

ASSUME MaxWritesAssumption == MaxWrites \in [Side -> Nat]
ASSUME FaultsAssumption == Faults \subseteq {"break", "close", "abort"} \X Side

VARIABLES
  nextID,      \* Session.nextID: the next identifier OpenStream hands out
  registered,  \* the keys of Session.streams
  closed,      \* Session.closed
  marking,     \* the streams shutdown collected and has yet to mark
  done,        \* Session.done is closed, and so is the socket
  broken,      \* the socket reports an error to this end from now on
  wire,        \* wire[p]: frames p wrote that its peer has not read yet
  rl,          \* the read loop: between two frames, or inside one
  ep,          \* the Stream object: none, opening, live (handed out), failed
  chunks,      \* Stream.chunks
  readErr,     \* Stream.readErr; readDone and eofCh are "readErr # none"
  sentClose,   \* Stream.sentClose
  reset,       \* Stream.reset
  aborted,     \* Stream.aborted is closed
  wpc,         \* the Write that holds Stream.wmu, if there is one
  cpc,         \* the CloseWrite under way, if there is one
  apc,         \* the Abort under way, if there is one
  sent,        \* DATA frames this end has put on the connection
  got,         \* the payloads Read has returned
  rres         \* the terminal result of Read

sessVars == <<nextID, registered, closed, marking, done>>
connVars == <<broken, wire>>
flagVars == <<sentClose, reset, aborted>>
pcVars   == <<wpc, cpc, apc>>
readVars == <<got, rres>>
vars == <<sessVars, connVars, rl, ep, chunks, readErr, flagVars, pcVars, sent, readVars>>

ReadErr == {"none", "EOF", "reset", "session"}

Frame == [type : {"OPEN", "DATA", "CLOSE", "RESET"}, id : StreamId, data : Nat]

Idle == [pc |-> "idle", id |-> 0, data |-> 0]
Exit == [pc |-> "exit", id |-> 0, data |-> 0]
RLState == [pc : {"idle", "push", "close", "exit"}, id : StreamId \cup {0}, data : Nat]

EndpointsOf(S) == [Side -> [StreamId -> S]]
All(v) == [p \in Side |-> [s \in StreamId |-> v]]
FirstID(p) == IF p = "server" THEN 1 ELSE 2

TypeOK ==
  /\ nextID \in [Side -> Nat]
  /\ registered \in [Side -> SUBSET StreamId]
  /\ closed \in [Side -> BOOLEAN]
  /\ marking \in [Side -> SUBSET StreamId]
  /\ done \in [Side -> BOOLEAN]
  /\ broken \in [Side -> BOOLEAN]
  /\ wire \in [Side -> Seq(Frame)]
  /\ rl \in [Side -> RLState]
  /\ ep \in EndpointsOf({"none", "opening", "live", "failed"})
  /\ chunks \in EndpointsOf(Seq(Nat))
  /\ \A p \in Side, s \in StreamId : Len(chunks[p][s]) <= ChunkCap
  /\ readErr \in EndpointsOf(ReadErr)
  /\ sentClose \in EndpointsOf(BOOLEAN)
  /\ reset \in EndpointsOf(BOOLEAN)
  /\ aborted \in EndpointsOf(BOOLEAN)
  /\ wpc \in EndpointsOf({"idle", "frame", "more"})
  /\ cpc \in EndpointsOf({"idle", "frame", "frameRetire", "retire"})
  /\ apc \in EndpointsOf({"idle", "frame", "mark"})
  /\ sent \in EndpointsOf(Nat)
  /\ got \in EndpointsOf(Seq(Nat))
  /\ rres \in EndpointsOf(ReadErr)

Init ==
  /\ nextID = [p \in Side |-> FirstID(p)]
  /\ registered = [p \in Side |-> {}]
  /\ closed = [p \in Side |-> FALSE]
  /\ marking = [p \in Side |-> {}]
  /\ done = [p \in Side |-> FALSE]
  /\ broken = [p \in Side |-> FALSE]
  /\ wire = [p \in Side |-> <<>>]
  /\ rl = [p \in Side |-> Idle]
  /\ ep = All("none")
  /\ chunks = All(<<>>)
  /\ readErr = All("none")
  /\ sentClose = All(FALSE)
  /\ reset = All(FALSE)
  /\ aborted = All(FALSE)
  /\ wpc = All("idle")
  /\ cpc = All("idle")
  /\ apc = All("idle")
  /\ sent = All(0)
  /\ got = All(<<>>)
  /\ rres = All("none")

-----------------------------------------------------------------------------
(* Helpers shared by the operations.                                       *)

\* Session.writeFrame succeeds: the session is open and the socket has room.
Emit(p, type, s, k) ==
  /\ ~closed[p] /\ ~broken[p]
  /\ Len(wire[p]) < WireCap
  /\ wire' = [wire EXCEPT ![p] = Append(@, [type |-> type, id |-> s, data |-> k])]
  /\ UNCHANGED broken

\* Session.writeFrame fails: the session is closed or the socket is broken.
EmitFails(p) ==
  /\ closed[p] \/ broken[p]
  /\ UNCHANGED connVars

\* Stream.readDone.
ReadDone(p, s) == readErr[p][s] # "none"

\* Stream.markReadDone: only the first call has an effect.
MarkReadDone(p, s, err) ==
  readErr' = [readErr EXCEPT ![p][s] = IF @ = "none" THEN err ELSE @]

\* Stream.signalAbort.
SignalAbort(p, s) == aborted' = [aborted EXCEPT ![p][s] = TRUE]

\* Stream.remove and Session.removeStream.
Remove(p, s) == registered' = [registered EXCEPT ![p] = @ \ {s}]

-----------------------------------------------------------------------------
(* Opening a stream.                                                       *)

\* OpenStream up to the unlock of Session.mu: allocate and register, or fail.
OpenStream(p) ==
  LET s == nextID[p] IN
  /\ s \in StreamId
  /\ nextID' = [nextID EXCEPT ![p] = @ + 2]
  /\ \/ /\ closed[p]
        /\ ep' = [ep EXCEPT ![p][s] = "failed"]
        /\ UNCHANGED registered
     \/ /\ ~closed[p]
        /\ ep' = [ep EXCEPT ![p][s] = "opening"]
        /\ registered' = [registered EXCEPT ![p] = @ \cup {s}]
  /\ UNCHANGED <<closed, marking, done, connVars, rl, chunks, readErr, flagVars,
                 pcVars, sent, readVars>>

\* The rest of OpenStream: the OPEN frame, or removeStream and an error.
OpenFrame(p, s) ==
  /\ ep[p][s] = "opening"
  /\ \/ /\ Emit(p, "OPEN", s, 0)
        /\ ep' = [ep EXCEPT ![p][s] = "live"]
        /\ UNCHANGED registered
     \/ /\ EmitFails(p)
        /\ ep' = [ep EXCEPT ![p][s] = "failed"]
        /\ Remove(p, s)
  /\ UNCHANGED <<nextID, closed, marking, done, rl, chunks, readErr, flagVars,
                 pcVars, sent, readVars>>

-----------------------------------------------------------------------------
(* Write: Stream.wmu is held from WriteLock to the end of the call.        *)

\* The conditions Write's check() lets a chunk through under.
MayWrite(p, s) == ~reset[p][s] /\ ~sentClose[p][s]

\* Write takes Stream.wmu and passes its second check.
WriteLock(p, s) ==
  /\ ep[p][s] = "live"
  /\ wpc[p][s] = "idle"
  /\ MayWrite(p, s)
  /\ sent[p][s] < MaxWrites[p]
  /\ wpc' = [wpc EXCEPT ![p][s] = "frame"]
  /\ UNCHANGED <<sessVars, connVars, rl, ep, chunks, readErr, flagVars, cpc, apc,
                 sent, readVars>>

\* Write emits one DATA frame; the buffer ends there, or there is more of it.
WriteFrame(p, s) ==
  /\ wpc[p][s] = "frame"
  /\ \/ /\ Emit(p, "DATA", s, sent[p][s] + 1)
        /\ sent' = [sent EXCEPT ![p][s] = @ + 1]
        /\ \/ wpc' = [wpc EXCEPT ![p][s] = "idle"]
           \/ wpc' = [wpc EXCEPT ![p][s] = "more"]
     \/ /\ EmitFails(p)
        /\ wpc' = [wpc EXCEPT ![p][s] = "idle"]
        /\ UNCHANGED sent
  /\ UNCHANGED <<sessVars, rl, ep, chunks, readErr, flagVars, cpc, apc, readVars>>

\* Write checks again before its next chunk, and gives up if the check fails.
WriteAgain(p, s) ==
  /\ wpc[p][s] = "more"
  /\ wpc' = [wpc EXCEPT ![p][s] =
               IF MayWrite(p, s) /\ sent[p][s] < MaxWrites[p] THEN "frame" ELSE "idle"]
  /\ UNCHANGED <<sessVars, connVars, rl, ep, chunks, readErr, flagVars, cpc, apc,
                 sent, readVars>>

-----------------------------------------------------------------------------
(* CloseWrite and Abort.                                                   *)

\* Mutant: CloseWrite forgets that the peer may already be done.
CloseWriteNoPeerDone(p, s) ==
  /\ ep[p][s] = "live"
  /\ MayWrite(p, s)
  /\ sentClose' = [sentClose EXCEPT ![p][s] = TRUE]
  /\ cpc' = [cpc EXCEPT ![p][s] = "frame"]
  /\ UNCHANGED <<sessVars, connVars, rl, ep, chunks, readErr, reset, aborted,
                 wpc, apc, sent, readVars>>

\* CloseWrite's section under Stream.mu; it remembers whether the peer is done.
CloseWrite(p, s) ==
  /\ ep[p][s] = "live"
  /\ MayWrite(p, s)
  /\ sentClose' = [sentClose EXCEPT ![p][s] = TRUE]
  /\ cpc' = [cpc EXCEPT ![p][s] = IF ReadDone(p, s) THEN "frameRetire" ELSE "frame"]
  /\ UNCHANGED <<sessVars, connVars, rl, ep, chunks, readErr, reset, aborted,
                 wpc, apc, sent, readVars>>

\* Mutant: CLOSE is emitted without taking Stream.wmu.
CloseFrameNoLock(p, s) ==
  /\ cpc[p][s] \in {"frame", "frameRetire"}
  /\ Emit(p, "CLOSE", s, 0) \/ EmitFails(p)
  /\ cpc' = [cpc EXCEPT ![p][s] = IF @ = "frameRetire" THEN "retire" ELSE "idle"]
  /\ UNCHANGED <<sessVars, rl, ep, chunks, readErr, flagVars, wpc, apc, sent, readVars>>

\* CloseWrite gets Stream.wmu and emits CLOSE; a failure changes nothing else.
CloseFrame(p, s) ==
  /\ cpc[p][s] \in {"frame", "frameRetire"}
  /\ wpc[p][s] = "idle"
  /\ Emit(p, "CLOSE", s, 0) \/ EmitFails(p)
  /\ cpc' = [cpc EXCEPT ![p][s] = IF @ = "frameRetire" THEN "retire" ELSE "idle"]
  /\ UNCHANGED <<sessVars, rl, ep, chunks, readErr, flagVars, wpc, apc, sent, readVars>>

\* CloseWrite unregisters a stream whose peer had already finished.
CloseRetire(p, s) ==
  /\ cpc[p][s] = "retire"
  /\ Remove(p, s)
  /\ cpc' = [cpc EXCEPT ![p][s] = "idle"]
  /\ UNCHANGED <<nextID, closed, marking, done, connVars, rl, ep, chunks, readErr,
                 flagVars, wpc, apc, sent, readVars>>

\* Mutant: Abort sends no RESET on a half-closed stream.
AbortSilentAfterClose(p, s) ==
  /\ <<"abort", p>> \in Faults
  /\ ep[p][s] = "live"
  /\ ~reset[p][s]
  /\ apc' = [apc EXCEPT ![p][s] = IF sentClose[p][s] THEN "mark" ELSE "frame"]
  /\ reset' = [reset EXCEPT ![p][s] = TRUE]
  /\ sentClose' = [sentClose EXCEPT ![p][s] = TRUE]
  /\ UNCHANGED <<sessVars, connVars, rl, ep, chunks, readErr, aborted, wpc, cpc,
                 sent, readVars>>

\* Abort's section under Stream.mu; no RESET if both ends finished cleanly.
Abort(p, s) ==
  /\ <<"abort", p>> \in Faults
  /\ ep[p][s] = "live"
  /\ ~reset[p][s]
  /\ apc' = [apc EXCEPT ![p][s] =
               IF sentClose[p][s] /\ readErr[p][s] = "EOF" THEN "mark" ELSE "frame"]
  /\ reset' = [reset EXCEPT ![p][s] = TRUE]
  /\ sentClose' = [sentClose EXCEPT ![p][s] = TRUE]
  /\ UNCHANGED <<sessVars, connVars, rl, ep, chunks, readErr, aborted, wpc, cpc,
                 sent, readVars>>

\* Abort emits RESET without Stream.wmu; an error is ignored.
AbortFrame(p, s) ==
  /\ apc[p][s] = "frame"
  /\ Emit(p, "RESET", s, 0) \/ EmitFails(p)
  /\ apc' = [apc EXCEPT ![p][s] = "mark"]
  /\ UNCHANGED <<sessVars, rl, ep, chunks, readErr, flagVars, wpc, cpc, sent, readVars>>

\* Mutant: Abort does not mark the read side done.
AbortFinishNoMark(p, s) ==
  /\ apc[p][s] = "mark"
  /\ SignalAbort(p, s)
  /\ Remove(p, s)
  /\ apc' = [apc EXCEPT ![p][s] = "idle"]
  /\ UNCHANGED <<nextID, closed, marking, done, connVars, rl, ep, chunks, readErr,
                 sentClose, reset, wpc, cpc, sent, readVars>>

\* Abort ends the local side: readers fail, Aborted closes, unregistered.
AbortFinish(p, s) ==
  /\ apc[p][s] = "mark"
  /\ MarkReadDone(p, s, "reset")
  /\ SignalAbort(p, s)
  /\ Remove(p, s)
  /\ apc' = [apc EXCEPT ![p][s] = "idle"]
  /\ UNCHANGED <<nextID, closed, marking, done, connVars, rl, ep, chunks, sentClose,
                 reset, wpc, cpc, sent, readVars>>

-----------------------------------------------------------------------------
(* The read loop.                                                          *)

\* readFrame returns the next frame, of type t on stream s, to p's read loop.
Take(p, t, s) ==
  /\ rl[p].pc = "idle"
  /\ wire[Peer(p)] # <<>>
  /\ Head(wire[Peer(p)]).type = t
  /\ Head(wire[Peer(p)]).id = s
  /\ wire' = [wire EXCEPT ![Peer(p)] = Tail(@)]
  /\ UNCHANGED broken

\* Mutant: an OPEN read after the shutdown is registered all the same.
RecvOpenAfterClose(p, s) ==
  /\ Take(p, "OPEN", s)
  /\ registered' = [registered EXCEPT ![p] = @ \cup {s}]
  /\ ep' = [ep EXCEPT ![p][s] = "live"]
  /\ UNCHANGED <<nextID, closed, marking, done, rl, chunks, readErr, flagVars, pcVars,
                 sent, readVars>>

\* readLoop, OPEN: register a new stream and hand it to OnStream, unless closed.
RecvOpen(p, s) ==
  /\ Take(p, "OPEN", s)
  /\ \/ closed[p] /\ UNCHANGED <<registered, ep>>
     \/ /\ ~closed[p]
        /\ registered' = [registered EXCEPT ![p] = @ \cup {s}]
        /\ ep' = [ep EXCEPT ![p][s] = "live"]
  /\ UNCHANGED <<nextID, closed, marking, done, rl, chunks, readErr, flagVars, pcVars,
                 sent, readVars>>

\* readLoop, DATA: look the stream up and enter pushData, which drops the
\* payload at once when the stream is done.
RecvData(p, s) ==
  /\ Take(p, "DATA", s)
  /\ rl' = [rl EXCEPT ![p] =
              IF s \in registered[p] /\ ~ReadDone(p, s)
              THEN [pc |-> "push", id |-> s, data |-> Head(wire[Peer(p)]).data]
              ELSE @]
  /\ UNCHANGED <<sessVars, ep, chunks, readErr, flagVars, pcVars, sent, readVars>>

\* Mutant: the buffer is not bounded.
PushDataUnbounded(p, s) ==
  /\ rl[p].pc = "push" /\ rl[p].id = s
  /\ chunks' = [chunks EXCEPT ![p][s] = Append(@, rl[p].data)]
  /\ rl' = [rl EXCEPT ![p] = Idle]
  /\ UNCHANGED <<sessVars, connVars, ep, readErr, flagVars, pcVars, sent, readVars>>

\* pushData's select delivers: there is room in the channel.
PushData(p, s) ==
  /\ rl[p].pc = "push" /\ rl[p].id = s
  /\ Len(chunks[p][s]) < ChunkCap
  /\ chunks' = [chunks EXCEPT ![p][s] = Append(@, rl[p].data)]
  /\ rl' = [rl EXCEPT ![p] = Idle]
  /\ UNCHANGED <<sessVars, connVars, ep, readErr, flagVars, pcVars, sent, readVars>>

\* Mutant: the select has a default case, so a payload may always be dropped.
PushDropByDefault(p, s) ==
  /\ rl[p].pc = "push" /\ rl[p].id = s
  /\ rl' = [rl EXCEPT ![p] = Idle]
  /\ UNCHANGED <<sessVars, connVars, ep, chunks, readErr, flagVars, pcVars, sent, readVars>>

\* Mutant: pushData is a plain channel send.
PushDropNever(p, s) == FALSE

\* pushData's select drops: the stream ended meanwhile, or the session did.
PushDrop(p, s) ==
  /\ rl[p].pc = "push" /\ rl[p].id = s
  /\ ReadDone(p, s) \/ done[p]
  /\ rl' = [rl EXCEPT ![p] = Idle]
  /\ UNCHANGED <<sessVars, connVars, ep, chunks, readErr, flagVars, pcVars, sent, readVars>>

\* readLoop, CLOSE: remoteClose marks the reader done ...
RecvClose(p, s) ==
  /\ Take(p, "CLOSE", s)
  /\ \/ s \notin registered[p] /\ UNCHANGED <<readErr, rl>>
     \/ /\ s \in registered[p]
        /\ MarkReadDone(p, s, "EOF")
        /\ rl' = [rl EXCEPT ![p] = [pc |-> "close", id |-> s, data |-> 0]]
  /\ UNCHANGED <<sessVars, ep, chunks, flagVars, pcVars, sent, readVars>>

\* Mutant: the end of a cleanly closed stream is signalled as an abort.
CloseCheckSignals(p, s) ==
  /\ rl[p].pc = "close" /\ rl[p].id = s
  /\ IF sentClose[p][s] THEN Remove(p, s) /\ SignalAbort(p, s)
                        ELSE UNCHANGED <<registered, aborted>>
  /\ rl' = [rl EXCEPT ![p] = Idle]
  /\ UNCHANGED <<nextID, closed, marking, done, connVars, ep, chunks, readErr, sentClose,
                 reset, pcVars, sent, readVars>>

\* Mutant: remoteClose leaves the unregistering to CloseWrite.
CloseCheckNoRemove(p, s) ==
  /\ rl[p].pc = "close" /\ rl[p].id = s
  /\ rl' = [rl EXCEPT ![p] = Idle]
  /\ UNCHANGED <<sessVars, connVars, ep, chunks, readErr, flagVars, pcVars, sent, readVars>>

\* ... and then unregisters the stream if this end had closed too.
CloseCheck(p, s) ==
  /\ rl[p].pc = "close" /\ rl[p].id = s
  /\ IF sentClose[p][s] THEN Remove(p, s) ELSE UNCHANGED registered
  /\ rl' = [rl EXCEPT ![p] = Idle]
  /\ UNCHANGED <<nextID, closed, marking, done, connVars, ep, chunks, readErr, flagVars,
                 pcVars, sent, readVars>>

\* readLoop, RESET: remoteReset ends both directions.
RecvReset(p, s) ==
  /\ Take(p, "RESET", s)
  /\ \/ s \notin registered[p] /\ UNCHANGED <<registered, reset, aborted, readErr>>
     \/ /\ s \in registered[p]
        /\ reset' = [reset EXCEPT ![p][s] = TRUE]
        /\ MarkReadDone(p, s, "reset")
        /\ SignalAbort(p, s)
        /\ Remove(p, s)
  /\ UNCHANGED <<nextID, closed, marking, done, rl, ep, chunks, sentClose, pcVars, sent,
                 readVars>>

\* readFrame fails: the socket broke, or one of the ends closed it.  What was
\* still in flight towards p is lost.
ReadFail(p) ==
  /\ rl[p].pc = "idle"
  /\ broken[p] \/ done[p] \/ done[Peer(p)]
  /\ rl' = [rl EXCEPT ![p] = Exit]
  /\ UNCHANGED <<sessVars, connVars, ep, chunks, readErr, flagVars, pcVars, sent, readVars>>

-----------------------------------------------------------------------------
(* Reading a stream: the single reader of each end.                        *)

\* Read returns the next buffered payload.
Read(p, s) ==
  /\ ep[p][s] = "live"
  /\ chunks[p][s] # <<>>
  /\ got' = [got EXCEPT ![p][s] = Append(@, Head(chunks[p][s]))]
  /\ chunks' = [chunks EXCEPT ![p][s] = Tail(@)]
  /\ UNCHANGED <<sessVars, connVars, rl, ep, readErr, flagVars, pcVars, sent, rres>>

\* Mutant: Read reports the end without draining the buffer first.
ReadEndUndrained(p, s) ==
  /\ ep[p][s] = "live"
  /\ ReadDone(p, s)
  /\ rres[p][s] = "none"
  /\ rres' = [rres EXCEPT ![p][s] = readErr[p][s]]
  /\ UNCHANGED <<sessVars, connVars, rl, ep, chunks, readErr, flagVars, pcVars, sent, got>>

\* Read reports the terminal state once the buffer is drained.
ReadEnd(p, s) ==
  /\ ep[p][s] = "live"
  /\ ReadDone(p, s) /\ chunks[p][s] = <<>>
  /\ rres[p][s] = "none"
  /\ rres' = [rres EXCEPT ![p][s] = readErr[p][s]]
  /\ UNCHANGED <<sessVars, connVars, rl, ep, chunks, readErr, flagVars, pcVars, sent, got>>

-----------------------------------------------------------------------------
(* The end of a session.                                                   *)

\* Mutant: shutdown collects no streams to mark.
ShutdownMarksNone(p) ==
  /\ ~closed[p]
  /\ rl[p].pc = "exit" \/ <<"close", p>> \in Faults
  /\ closed' = [closed EXCEPT ![p] = TRUE]
  /\ UNCHANGED <<nextID, registered, marking, done, connVars, rl, ep, chunks, readErr,
                 flagVars, pcVars, sent, readVars>>

\* shutdown's section under Session.mu: called by CloseWithError at any time,
\* and by Run once readLoop has returned.
Shutdown(p) ==
  /\ ~closed[p]
  /\ rl[p].pc = "exit" \/ <<"close", p>> \in Faults
  /\ closed' = [closed EXCEPT ![p] = TRUE]
  /\ marking' = [marking EXCEPT ![p] = registered[p]]
  /\ UNCHANGED <<nextID, registered, done, connVars, rl, ep, chunks, readErr, flagVars,
                 pcVars, sent, readVars>>

\* shutdown marks one of the streams it collected.
ShutdownMark(p, s) ==
  /\ s \in marking[p]
  /\ marking' = [marking EXCEPT ![p] = @ \ {s}]
  /\ MarkReadDone(p, s, "session")
  /\ SignalAbort(p, s)
  /\ UNCHANGED <<nextID, registered, closed, done, connVars, rl, ep, chunks, sentClose,
                 reset, pcVars, sent, readVars>>

\* shutdown closes done and the socket.
ShutdownEnd(p) ==
  /\ closed[p] /\ ~done[p] /\ marking[p] = {}
  /\ done' = [done EXCEPT ![p] = TRUE]
  /\ UNCHANGED <<nextID, registered, closed, marking, connVars, rl, ep, chunks, readErr,
                 flagVars, pcVars, sent, readVars>>

\* The network fails as seen from p: from now on its socket reports errors.
BreakConn(p) ==
  /\ <<"break", p>> \in Faults
  /\ ~broken[p]
  /\ broken' = [broken EXCEPT ![p] = TRUE]
  /\ UNCHANGED <<sessVars, wire, rl, ep, chunks, readErr, flagVars, pcVars, sent, readVars>>

-----------------------------------------------------------------------------

\* What the read loop of p does about stream s.
LoopStep(p, s) ==
  \/ RecvOpen(p, s) \/ RecvData(p, s) \/ RecvClose(p, s) \/ RecvReset(p, s)
  \/ PushData(p, s) \/ PushDrop(p, s) \/ CloseCheck(p, s)

\* What goroutines that already entered an operation on stream s do next.
CallStep(p, s) ==
  \/ OpenFrame(p, s) \/ WriteFrame(p, s) \/ WriteAgain(p, s)
  \/ CloseFrame(p, s) \/ CloseRetire(p, s) \/ AbortFrame(p, s) \/ AbortFinish(p, s)

Next ==
  \E p \in Side :
    \/ OpenStream(p) \/ Shutdown(p) \/ ShutdownEnd(p) \/ ReadFail(p) \/ BreakConn(p)
    \/ \E s \in StreamId :
         \/ LoopStep(p, s) \/ CallStep(p, s)
         \/ WriteLock(p, s) \/ CloseWrite(p, s) \/ Abort(p, s)
         \/ Read(p, s) \/ ReadEnd(p, s) \/ ShutdownMark(p, s)

Spec == Init /\ [][Next]_vars

-----------------------------------------------------------------------------
(* Safety.                                                                 *)

\* Whatever races with pushData, Write, CloseWrite, Abort and shutdown, a reader
\* gets the payloads its peer wrote, each once and in order, and io.EOF only
\* when it has all of them and no other will follow (module ByteStream).
Streams == INSTANCE ByteStream WITH written <- [p \in Side |-> sent[Peer(p)]],
                                    got <- got, end <- rres
ImplementsByteStream == Streams!Spec

\* On the connection no DATA of a stream follows its CLOSE (the rule pushData's
\* comment relies on), although Write and CloseWrite may run concurrently.
NoDataAfterClose ==
  \A p \in Side : \A i, j \in 1 .. Len(wire[p]) :
    i < j /\ wire[p][i].type = "CLOSE" /\ wire[p][i].id = wire[p][j].id
      => wire[p][j].type # "DATA"

\* "Session is gone; shutdown marked every stream, so loop" (Stream.Read): once
\* done is closed every stream ever handed out has its terminal read state, so
\* Read returns instead of spinning.
DoneMarksEveryStream ==
  \A p \in Side, s \in StreamId :
    done[p] /\ ep[p][s] = "live" => ReadDone(p, s)

\* A stream both of whose directions ended cleanly is not leaked: unless one of
\* the calls that will unregister it is still under way, it is unregistered.
ClosedBothWaysRetired ==
  \A p \in Side, s \in StreamId :
    /\ ep[p][s] = "live" /\ sentClose[p][s] /\ readErr[p][s] = "EOF"
    /\ cpc[p][s] = "idle" /\ apc[p][s] = "idle"
    /\ ~(rl[p].pc = "close" /\ rl[p].id = s)
    => s \notin registered[p]

\* Aborted "is never closed by a graceful CLOSE": it is closed only where the
\* session was shut down or one of the two ends called Abort.
AbortedIsAbnormal ==
  \A p \in Side, s \in StreamId :
    aborted[p][s] => closed[p] \/ \E q \in Side : reset[q][s] /\ sentClose[q][s]

-----------------------------------------------------------------------------
(* Liveness.                                                               *)

\* Goroutines that are inside an operation get to run: the read loop, whoever
\* is in shutdown, and on each stream the one that opens it or writes, the one
\* in CloseWrite and the one in Abort.  Nothing says that a caller starts an
\* operation: OpenStream, Write, CloseWrite, Abort and a voluntary close carry
\* no fairness, and neither does the failure of the network.
Fairness ==
  \A p \in Side :
    /\ WF_vars(ReadFail(p) \/ \E s \in StreamId : LoopStep(p, s))
    /\ WF_vars(\/ rl[p].pc = "exit" /\ Shutdown(p)
               \/ ShutdownEnd(p)
               \/ \E s \in StreamId : ShutdownMark(p, s))
    /\ \A s \in StreamId :
         /\ WF_vars(OpenFrame(p, s) \/ WriteFrame(p, s) \/ WriteAgain(p, s))
         /\ WF_vars(CloseFrame(p, s) \/ CloseRetire(p, s))
         /\ WF_vars(AbortFrame(p, s) \/ AbortFinish(p, s))

FairSpec == Spec /\ Fairness

\* A close is never stuck behind backpressure: once an end is shut down its
\* read loop returns (so Run does), even when it was blocked in pushData on a
\* full buffer that nobody reads.
CloseEndsReadLoop == \A p \in Side : closed[p] ~> rl[p].pc = "exit"

\* The read loop of p is not blocked for ever by a reader that stopped reading.
LoopGoesOn(p) == []<>(rl[p].pc # "push")

\* Abort frees a read loop blocked on the aborted stream, whoever reads it, as
\* long as the peer goes on taking frames from the connection.
AbortFreesReadLoop ==
  \A p \in Side, s \in StreamId :
    LoopGoesOn(Peer(p)) => (reset[p][s] ~> ~(rl[p].pc = "push" /\ rl[p].id = s))

\* A RESET gets through: after Abort the peer drops the stream too, unless the
\* session is going down or the socket is broken at the end that aborts.
AbortReachesPeer ==
  \A p \in Side, s \in StreamId :
    LoopGoesOn(Peer(p)) =>
      (reset[p][s] ~>
         \/ ep[Peer(p)][s] = "live" /\ s \notin registered[Peer(p)]
         \/ closed[p] \/ closed[Peer(p)] \/ broken[p])

\* Once both ends have closed a stream, both unregister it.
ClosedStreamsAreRetired ==
  \A s \in StreamId :
    (\A p \in Side : LoopGoesOn(p)) =>
      ((\A p \in Side : sentClose[p][s]) ~>
         \/ \A p \in Side : s \notin registered[p]
         \/ \E p \in Side : closed[p] \/ broken[p])

\* A reader is released: after a shutdown at its end the stream gets the
\* terminal state that makes a blocked Read return, full connection or not.
ReadersAreReleased ==
  \A p \in Side, s \in StreamId :
    ep[p][s] = "live" /\ closed[p] ~> ReadDone(p, s)

\* What Abort's comments say, of a full connection too: it "fails pending and
\* future reads and writes on this side, closes Aborted", and "a Write blocked
\* on a full socket must not delay the RESET".
AbortEndsLocally ==
  \A p \in Side, s \in StreamId : reset[p][s] ~> ReadDone(p, s) /\ aborted[p][s]
=============================================================================
