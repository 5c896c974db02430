------------------------- MODULE WebSocketPipeProofs -------------------------
(***************************************************************************)
(* Proofs about WebSocketPipe, for any number of frames, any buffer and    *)
(* any faults of the session below.  Fairness plays no part in them.       *)
(***************************************************************************)
EXTENDS WebSocketPipe, MuxStreamProofs

\* The pipe is a client of the stream layer: each of its steps is one of a
\* MuxStream action or leaves the streams alone.
LEMMA PipeUsesStreams == [WSNext]_allVars => [Next]_vars
<1> SUFFICES ASSUME [WSNext]_allVars
             PROVE  [Next]_vars
  OBVIOUS
<1>0. S \in StreamId
  BY OneStream
<1>1. CASE UNCHANGED allVars
  BY <1>1 DEF allVars
<1>2. ASSUME NEW p \in Side, OpenStream(p)
      PROVE  [Next]_vars
  BY <1>2 DEF Next
<1>3. ASSUME NEW p \in Side,
             \/ ServerStart(p) \/ ClientStart(p) \/ Dial(p) \/ RequestPassedOn(p)
             \/ CopyUp(p) \/ UpWrites(p) \/ UpEnds(p)
             \/ CopyDown(p) \/ DownWrites(p) \/ DownEnds(p)
      PROVE  [Next]_vars
  <2>1. \/ UNCHANGED vars \/ Read(p, S) \/ ReadEnd(p, S) \/ WriteLock(p, S) \/ WriteFrame(p, S)
    BY <1>3 DEF ServerStart, ClientStart, Dial, RequestPassedOn, CopyUp, UpWrites, UpEnds,
                CopyDown, DownWrites, DownEnds
  <2> QED BY <1>0, <2>1 DEF Next, CallStep
<1>4. ASSUME NEW p \in Side, NEW g \in Goroutine, PipeCloses(p, g)
      PROVE  [Next]_vars
  BY <1>0, <1>4 DEF PipeCloses, PipeClosesStream, PipeStreamClosed, PipeClosesConn, Next
<1>5. ASSUME NEW p \in Side, StreamStep(p) \/ SessionStep(p)
      PROVE  [Next]_vars
  BY <1>0, <1>5 DEF StreamStep, SessionStep, Next, CallStep
<1> QED BY <1>1, <1>2, <1>3, <1>4, <1>5 DEF WSNext

\* So the streams below a pipe behave as MuxStream's do, and whatever is proved of
\* those holds below it.
LEMMA StreamsBelow == WSSpec => Spec
<1>1. WSInit => Init
  BY DEF WSInit
<1> QED BY <1>1, PipeUsesStreams, PTL DEF WSSpec, Spec

-----------------------------------------------------------------------------

\* Neither flag that ends a direction of the stream is ever taken back.
LEMMA EndsAreFinal ==
  ASSUME TypeOK, [Next]_vars
  PROVE  \A p \in Side, s \in StreamId :
           sentClose[p][s] \/ reset[p][s] => sentClose'[p][s] \/ reset'[p][s]
<1> DEFINE Final == \A p \in Side, s \in StreamId :
                     sentClose[p][s] \/ reset[p][s] => sentClose'[p][s] \/ reset'[p][s]
<1>1. CASE UNCHANGED <<sentClose, reset>>
  BY <1>1
<1>2. CASE UNCHANGED vars
  BY <1>2 DEF vars, flagVars
<1>3. ASSUME NEW p \in Side,
             \/ OpenStream(p) \/ Shutdown(p) \/ ShutdownEnd(p) \/ ReadFail(p) \/ BreakConn(p)
      PROVE  Final
  BY <1>3, Zenon DEF OpenStream, Shutdown, ShutdownEnd, ReadFail, BreakConn, flagVars
<1>4. ASSUME NEW p \in Side, NEW s \in StreamId,
             \/ RecvOpen(p, s) \/ RecvData(p, s) \/ RecvClose(p, s) \/ PushData(p, s)
             \/ PushDrop(p, s) \/ CloseCheck(p, s) \/ OpenFrame(p, s) \/ WriteFrame(p, s)
             \/ WriteAgain(p, s)
      PROVE  Final
  <2>1. UNCHANGED <<sentClose, reset>>
    BY <1>4 DEF RecvOpen, RecvData, RecvClose, PushData, PushDrop, CloseCheck, OpenFrame,
                WriteFrame, WriteAgain, flagVars
  <2> QED BY <2>1
<1>5. ASSUME NEW p \in Side, NEW s \in StreamId,
             \/ CloseFrame(p, s) \/ CloseRetire(p, s) \/ AbortFrame(p, s) \/ AbortFinish(p, s)
             \/ WriteLock(p, s) \/ Read(p, s) \/ ReadEnd(p, s) \/ ShutdownMark(p, s)
      PROVE  Final
  <2>1. UNCHANGED <<sentClose, reset>>
    BY <1>5 DEF CloseFrame, CloseRetire, AbortFrame, AbortFinish, WriteLock, Read, ReadEnd,
                ShutdownMark, flagVars
  <2> QED BY <2>1
<1>6. ASSUME NEW p \in Side, NEW s \in StreamId, RecvReset(p, s)
      PROVE  Final
  <2>1. sentClose' = sentClose /\ (reset' = reset \/ reset' = [reset EXCEPT ![p][s] = TRUE])
    BY <1>6 DEF RecvReset
  <2>2. CASE reset' = reset
    BY <2>1, <2>2
  <2>3. CASE reset' = [reset EXCEPT ![p][s] = TRUE]
    <3>1. \A q \in Side, r \in StreamId : reset[q][r] => reset'[q][r]
      BY <2>3 DEF TypeOK, EndpointsOf
    <3> QED BY <2>1, <3>1
  <2> QED BY <2>1, <2>2, <2>3
<1>7. ASSUME NEW p \in Side, NEW s \in StreamId, CloseWrite(p, s)
      PROVE  Final
  BY <1>7 DEF CloseWrite, TypeOK, EndpointsOf
<1>8. ASSUME NEW p \in Side, NEW s \in StreamId, Abort(p, s)
      PROVE  Final
  BY <1>8 DEF Abort, TypeOK, EndpointsOf
<1> QED BY <1>2, <1>3, <1>4, <1>5, <1>6, <1>7, <1>8, NextCases

\* "up" is the goroutine that sees to everything: when it goes on to the connection
\* it has ended its direction of the stream, or never got one, and it has closed
\* the connection when it is gone.
UpInv ==
  /\ pipe \in [Side -> [Goroutine -> Pc]]
  /\ conn \in [Side -> {"open", "closed"}]
  /\ \A p \in Side :
       /\ pipe[p]["up"] \in {"wait", "conn"} => sentClose[p][S] \/ reset[p][S]
       /\ pipe[p]["up"] = "gone" =>
            conn[p] = "closed" /\ (sentClose[p][S] \/ reset[p][S] \/ ep[p][S] = "failed")

\* An OpenStream that failed has failed for good: its identifier is not used again.
LEMMA FailedIsFinal ==
  ASSUME TypeOK, OpenInv, [Next]_vars
  PROVE  \A p \in Side, s \in StreamId : ep[p][s] = "failed" => ep'[p][s] = "failed"
<1> DEFINE Final == \A p \in Side, s \in StreamId : ep[p][s] = "failed" => ep'[p][s] = "failed"
<1>0. ep \in [Side -> [StreamId -> {"none", "opening", "live", "failed"}]]
  BY WireFrames
<1>q. CASE UNCHANGED ep
  BY <1>q
<1>u. CASE UNCHANGED vars
  BY <1>q, <1>u DEF vars
<1>1. ASSUME NEW p \in Side, OpenStream(p)
      PROVE  Final
  <2>1. nextID[p] \in StreamId /\ \E e \in {"opening", "failed"} : ep' = [ep EXCEPT ![p][nextID[p]] = e]
    BY <1>1 DEF OpenStream
  <2>2. ep[p][nextID[p]] = "none"
    BY <1>1, OpenStreamKeepsOpen
  <2> QED BY <1>0, <2>1, <2>2
<1>2. ASSUME NEW p \in Side, NEW s \in StreamId, OpenFrame(p, s)
      PROVE  Final
  <2>1. ep[p][s] = "opening" /\ \E e \in {"live", "failed"} : ep' = [ep EXCEPT ![p][s] = e]
    BY <1>2 DEF OpenFrame
  <2> QED BY <1>0, <2>1
<1>3. ASSUME NEW p \in Side, NEW s \in StreamId, RecvOpen(p, s)
      PROVE  Final
  <2>1. ep' = ep \/ ep' = [ep EXCEPT ![p][s] = "live"]
    BY <1>3 DEF RecvOpen
  <2>2. ep[p][s] = "none"
    BY <1>3, RecvOpenKeepsOpen
  <2> QED BY <1>0, <1>q, <2>1, <2>2
<1>4. ASSUME NEW p \in Side, Shutdown(p) \/ ShutdownEnd(p) \/ ReadFail(p) \/ BreakConn(p)
      PROVE  Final
  BY <1>4, <1>q DEF Shutdown, ShutdownEnd, ReadFail, BreakConn
<1>5. ASSUME NEW p \in Side, NEW s \in StreamId,
             \/ RecvData(p, s) \/ RecvClose(p, s) \/ RecvReset(p, s)
             \/ PushData(p, s) \/ PushDrop(p, s) \/ CloseCheck(p, s)
             \/ WriteFrame(p, s) \/ WriteAgain(p, s) \/ CloseFrame(p, s) \/ CloseRetire(p, s)
      PROVE  Final
  BY <1>5, <1>q DEF RecvData, RecvClose, RecvReset, PushData, PushDrop, CloseCheck, WriteFrame,
                    WriteAgain, CloseFrame, CloseRetire
<1>6. ASSUME NEW p \in Side, NEW s \in StreamId,
             \/ AbortFrame(p, s) \/ AbortFinish(p, s) \/ WriteLock(p, s) \/ CloseWrite(p, s)
             \/ Abort(p, s) \/ Read(p, s) \/ ReadEnd(p, s) \/ ShutdownMark(p, s)
      PROVE  Final
  BY <1>6, <1>q DEF AbortFrame, AbortFinish, WriteLock, CloseWrite, Abort, Read, ReadEnd,
                    ShutdownMark
<1> QED BY <1>u, <1>1, <1>2, <1>3, <1>4, <1>5, <1>6, NextCases

\* Every action keeps UpInv.
LEMMA UpStep == TypeOK /\ OpenInv /\ UpInv /\ [WSNext]_allVars => UpInv'
<1> SUFFICES ASSUME TypeOK, OpenInv, UpInv, [WSNext]_allVars
             PROVE  UpInv'
  OBVIOUS
<1>0. /\ S \in StreamId /\ "up" \in Goroutine /\ "down" \in Goroutine
      /\ \A g \in Goroutine : g = "up" \/ g = "down"
  BY OneStream DEF Goroutine
<1>1. \A p \in Side :
        /\ sentClose[p][S] \/ reset[p][S] => sentClose'[p][S] \/ reset'[p][S]
        /\ ep[p][S] = "failed" => ep'[p][S] = "failed"
  BY <1>0, PipeUsesStreams, EndsAreFinal, FailedIsFinal
<1>2. CASE UNCHANGED wsVars
  BY <1>1, <1>2 DEF UpInv, wsVars
\* A goroutine goes where nothing is asked of it.
<1>a. ASSUME NEW p \in Side, NEW g \in Goroutine, NEW pc \in Pc,
             g = "down" \/ pc \notin {"wait", "conn", "gone"},
             Goto(p, g, pc), pipe[p]["up"] # "gone" \/ conn' = conn,
             conn' \in [Side -> {"open", "closed"}], \A q \in Side : q # p => conn'[q] = conn[q]
      PROVE  UpInv'
  BY <1>0, <1>1, <1>a DEF Goto, UpInv
<1>b. ASSUME NEW p \in Side, StartCopying(p), conn' = conn
      PROVE  UpInv'
  BY <1>0, <1>1, <1>b DEF StartCopying, UpInv, Pc
<1>3. ASSUME NEW p \in Side, ServerStart(p)
      PROVE  UpInv'
  <2>1. CASE Goto(p, "up", "request") /\ conn' = conn
    BY <1>0, <1>a, <2>1 DEF Pc, UpInv
  <2>2. CASE /\ ep[p][S] = "failed" /\ Goto(p, "up", "gone")
             /\ conn' = [conn EXCEPT ![p] = "closed"]
    BY <1>0, <1>1, <2>2 DEF Goto, UpInv, Pc
  <2> QED BY <1>3, <2>1, <2>2 DEF ServerStart
<1>4. ASSUME NEW p \in Side, ClientStart(p) \/ RequestPassedOn(p) \/ UpWrites(p) \/ UpEnds(p)
      PROVE  UpInv'
  <2>1. /\ conn' = conn
        /\ \/ StartCopying(p) \/ pipe' = pipe
           \/ \E pc \in {"dial", "error", "prebuf", "st"} : Goto(p, "up", pc)
    BY <1>4 DEF ClientStart, RequestPassedOn, UpWrites, UpEnds
  <2>2. CASE pipe' = pipe
    BY <1>2, <2>1, <2>2 DEF wsVars
  <2>3. ASSUME NEW pc \in {"dial", "error", "prebuf", "st"}, Goto(p, "up", pc)
        PROVE  UpInv'
    <3>1. pc \in Pc /\ pc \notin {"wait", "conn", "gone"}
      BY <2>3 DEF Pc
    <3>2. conn' \in [Side -> {"open", "closed"}]
      BY <2>1 DEF UpInv
    <3> QED BY <1>0, <1>a, <2>1, <2>3, <3>1, <3>2
  <2> QED BY <1>b, <2>1, <2>2, <2>3
<1>5. ASSUME NEW p \in Side, Dial(p)
      PROVE  UpInv'
  <2>1. /\ pipe[p]["up"] # "gone"
        /\ conn' = conn \/ conn' = [conn EXCEPT ![p] = "open"]
        /\ \E pc \in {"conn write", "error"} : Goto(p, "up", pc)
    BY <1>5 DEF Dial
  <2>2. conn' \in [Side -> {"open", "closed"}] /\ \A q \in Side : q # p => conn'[q] = conn[q]
    BY <2>1 DEF UpInv
  <2>3. PICK pc \in {"conn write", "error"} : Goto(p, "up", pc)
    BY <2>1
  <2>4. pc \in Pc /\ pc \notin {"wait", "conn", "gone"}
    BY DEF Pc
  <2> QED BY <1>0, <1>a, <2>1, <2>2, <2>3, <2>4
<1>6. ASSUME NEW p \in Side, CopyDown(p) \/ DownWrites(p) \/ DownEnds(p)
      PROVE  UpInv'
  <2>1. conn' = conn /\ \E pc \in {"conn write", "copy", "conn", "st"} : Goto(p, "down", pc)
    BY <1>6 DEF CopyDown, DownWrites, DownEnds, AfterCopy
  <2> QED BY <1>0, <1>a, <2>1 DEF Pc, UpInv
<1>7. ASSUME NEW p \in Side, NEW g \in Goroutine, PipeClosesStream(p, g)
      PROVE  UpInv'
  <2>1. conn' = conn
    BY <1>7 DEF PipeClosesStream
  <2>2. CASE CloseWrite(p, S) /\ Goto(p, g, "wait")
    <3>1. sentClose'[p][S]
      BY <1>0, <2>2 DEF CloseWrite, TypeOK, EndpointsOf
    <3> QED BY <1>0, <1>1, <2>1, <2>2, <3>1 DEF Goto, UpInv, Pc
  <2>3. CASE ~MayWrite(p, S) /\ Goto(p, g, IF AfterCopy(p, g) = "st" THEN "conn" ELSE "gone")
    <3>1. sentClose'[p][S] \/ reset'[p][S]
      BY <1>1, <2>3 DEF MayWrite
    <3> QED BY <1>0, <1>1, <2>1, <2>3, <3>1 DEF Goto, AfterCopy, UpInv, Pc
  <2> QED BY <1>7, <2>2, <2>3 DEF PipeClosesStream
<1>8. ASSUME NEW p \in Side, NEW g \in Goroutine, PipeStreamClosed(p, g)
      PROVE  UpInv'
  <2>1. /\ conn' = conn /\ pipe[p][g] = "wait"
        /\ pipe' = [pipe EXCEPT ![p][g] = IF AfterCopy(p, g) = "st" THEN "conn" ELSE "gone"]
    BY <1>8 DEF PipeStreamClosed, Goto
  <2>2. CASE g = "up"
    <3>1. pipe' = [pipe EXCEPT ![p]["up"] = "conn"] /\ "conn" \in Pc
      BY <2>1, <2>2 DEF AfterCopy, Pc
    <3>2. sentClose[p][S] \/ reset[p][S]
      BY <2>1, <2>2 DEF UpInv
    <3> QED BY <1>0, <1>1, <2>1, <3>1, <3>2 DEF UpInv
  <2>3. CASE g = "down"
    <3>1. PICK pc \in {"conn", "gone"} : Goto(p, "down", pc)
      BY <2>1, <2>3 DEF Goto
    <3>2. pc \in Pc
      BY DEF Pc
    <3> QED BY <1>0, <1>a, <2>1, <3>1, <3>2 DEF UpInv
  <2> QED BY <1>0, <2>2, <2>3
<1>9. ASSUME NEW p \in Side, NEW g \in Goroutine, PipeClosesConn(p, g)
      PROVE  UpInv'
  BY <1>0, <1>1, <1>9 DEF PipeClosesConn, Goto, AfterCopy, UpInv, Pc
<1>10. CASE UNCHANGED allVars
  BY <1>2, <1>10 DEF allVars
<1>11. ASSUME NEW p \in Side,
              \/ OpenStream(p) /\ UNCHANGED wsVars
              \/ CopyUp(p) \/ StreamStep(p) \/ SessionStep(p)
       PROVE  UpInv'
  BY <1>2, <1>11 DEF CopyUp, StreamStep, SessionStep
<1> QED BY <1>3, <1>4, <1>5, <1>6, <1>7, <1>8, <1>9, <1>10, <1>11 DEF WSNext, PipeCloses

\* proxyWebSocket and serveWebSocket: when the handler of a pipe has returned, this
\* end has closed its connection and ended its direction of the stream, if it got
\* one, whatever failed, closed first or took the session away.
THEOREM PipesCloseBothSides == WSSpec => []PipeLeavesNothingOpen
<1> DEFINE IInv == TypeOK /\ OpenInv /\ UpInv
<1>1. WSInit => IInv
  <2>1. WSInit => TypeOK /\ OpenInv
    BY TypeInit, RetireInit DEF WSInit
  <2>2. WSInit => UpInv
    BY DEF WSInit, UpInv, Goroutine, Pc
  <2> QED BY <2>1, <2>2
<1>2. IInv /\ [WSNext]_allVars => IInv'
  BY PipeUsesStreams, TypeStep, OpenStep, UpStep
<1>3. IInv => PipeLeavesNothingOpen
  BY DEF UpInv, PipeLeavesNothingOpen, Returned
<1> QED BY <1>1, <1>2, <1>3, PTL DEF WSSpec
=============================================================================
