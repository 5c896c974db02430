---------------------------- MODULE ExchangeProofs ----------------------------
(***************************************************************************)
(* Proofs about Exchange, for requests of any length, any buffers, any     *)
(* kinds of response and any faults.  Fairness plays no part in them.      *)
(***************************************************************************)
EXTENDS Exchange, MuxOrderProofs

-----------------------------------------------------------------------------
(* The exchange and the stream below it.                                   *)

\* The stream of an exchange is one of the stream layer's.
LEMMA OneId == S \in StreamId /\ Server \in Side /\ Client \in Side /\ Peer(Server) = Client
BY OneStream DEF Server, Client, Side, Peer

\* Each step of an exchange is a MuxStream action or leaves the streams alone.
LEMMA ExchangeUsesStreams == [EXNext]_allVars => [Next]_vars
<1> SUFFICES ASSUME [EXNext]_allVars
             PROVE  [Next]_vars
  OBVIOUS
<1> USE OneId
<1>1. CASE UNCHANGED allVars
  BY <1>1 DEF allVars
<1>2. CASE SrvOpen \/ SrvOpened \/ SrvWrite \/ SrvWritten \/ SrvFail \/ SrvCloseWrite \/ SrvArm
  BY <1>2
     DEF SrvOpen, SrvOpened, SrvWrite, SrvWritten, WriteEnds, SrvFail, SrvCloseWrite, SrvArm,
              Next, CallStep
<1>3. CASE SrvReadResponse \/ SrvStopTimer \/ SrvRelay \/ SrvFinish \/ SrvDrain \/ SrvLeave
  BY <1>3 DEF SrvReadResponse, SrvStopTimer, SrvRelay, SrvFinish, SrvDrain, SrvLeave, Next
<1>4. CASE ViewerLeaves \/ Watch \/ Timer
  BY <1>4 DEF ViewerLeaves, Watch, Timer, AbortCall, Next
<1>5. CASE CliStep \/ CliWrite \/ CtxCancel \/ LocalAnswers \/ LocalFails \/ LocalEnds
  BY <1>5
     DEF CliStep, CliStart, CliReadRequest, CliWritten, WriteEnds, CliCloseWrite, CliWrite,
              CtxCancel, LocalAnswers, LocalFails, LocalEnds, Next, CallStep
<1>6. ASSUME NEW p \in Side, StreamStep(p)
      PROVE  [Next]_vars
  BY <1>6 DEF StreamStep, Next, CallStep
<1> QED BY <1>1, <1>2, <1>3, <1>4, <1>5, <1>6 DEF EXNext, SrvStep

\* So the stream below an exchange behaves as MuxStream's do, and whatever is
\* proved of those holds below it.
LEMMA StreamBelow == EXSpec => Spec
<1>1. EXInit => Init
  BY DEF EXInit
<1> QED BY <1>1, ExchangeUsesStreams, PTL DEF EXSpec, Spec

-----------------------------------------------------------------------------
(* The header timer.                                                       *)

\* Where proxyTo is says what became of the header timer and whether the viewer
\* has an answer: the timer runs only while proxyTo waits for the headers, and an
\* error page is written only where it never ran or was stopped in time.
StageInv ==
  /\ h \in {"open", "opening", "send", "closew", "closing", "arm"} =>
       timer = "off" /\ answer = "none"
  /\ h \in {"read", "headers", "noHeaders"} => answer = "none"
  /\ h \in {"fail", "failing"} => timer \in {"off", "stopped"}
  /\ timer = "armed" => answer = "none"
  /\ TimeoutIsAnswered504

\* Every action keeps StageInv.
LEMMA StageStep == StageInv /\ [EXNext]_allVars => StageInv'
<1> SUFFICES ASSUME StageInv, [EXNext]_allVars
             PROVE  StageInv'
  OBVIOUS
<1> USE DEF StageInv, TimeoutIsAnswered504
<1>1. CASE UNCHANGED <<h, timer, answer>>
  BY <1>1
<1>2. CASE SrvOpen \/ SrvOpened \/ SrvArm
  BY <1>2 DEF SrvOpen, SrvOpened, SrvArm
<1>3. CASE SrvWrite \/ SrvWritten
  BY <1>3 DEF SrvWrite, SrvWritten
<1>4. CASE SrvFail
  BY <1>4 DEF SrvFail
<1>5. CASE SrvCloseWrite
  BY <1>5 DEF SrvCloseWrite
<1>6. CASE SrvReadResponse
  BY <1>6 DEF SrvReadResponse
<1>7. CASE SrvStopTimer
  BY <1>7 DEF SrvStopTimer
<1>8. CASE SrvRelay \/ SrvFinish
  BY <1>8 DEF SrvRelay, SrvFinish
<1>9. CASE SrvDrain \/ SrvLeave
  BY <1>9 DEF SrvDrain, SrvLeave
<1>10. CASE Watch
  BY <1>1, <1>10 DEF Watch
<1>11. CASE Timer
  BY <1>11 DEF Timer
<1>12. CASE \/ UNCHANGED allVars \/ ViewerLeaves \/ CliStep \/ CliWrite \/ CtxCancel
            \/ LocalAnswers \/ LocalFails \/ LocalEnds \/ \E p \in Side : StreamStep(p)
  <2>1. UNCHANGED <<h, timer, answer>>
    BY <1>12 DEF ViewerLeaves, CliStep, CliStart, CliReadRequest, CliWritten, CliCloseWrite,
                 CliWrite, CtxCancel, LocalAnswers, LocalFails, LocalEnds, StreamStep,
                 allVars, exVars, srvVars
  <2> QED BY <1>1, <2>1
<1> QED BY <1>2, <1>3, <1>4, <1>5, <1>6, <1>7, <1>8, <1>9, <1>10, <1>11, <1>12
        DEF EXNext, SrvStep

\* proxyTo: if the header timer fires the viewer is answered with a 504 or not at
\* all, even when the headers arrive, or the stream breaks, while it does.
THEOREM LateHeadersAre504 == EXSpec => []TimeoutIsAnswered504
<1>1. EXInit => StageInv
  BY DEF EXInit, StageInv, TimeoutIsAnswered504
<1>2. StageInv => TimeoutIsAnswered504
  BY DEF StageInv
<1> QED BY <1>1, <1>2, StageStep, PTL DEF EXSpec

-----------------------------------------------------------------------------
(* The response.                                                           *)

\* What Serve has written, and may be writing.
Written == sent[Client][S]
Writing == wpc[Client][S]

\* Serve writes the headers and then no more than the body its response has, and
\* nothing before it has a response.
ServeInv ==
  /\ cl \in {"none", "request", "local"} => kind = "short" /\ Written = 0 /\ Writing = "idle"
  /\ cl = "raw" => kind = "short"
  /\ kind \in {"short", "framed", "close"}
  /\ Writing \in {"idle", "frame"}
  /\ Written <= Frames(kind)
  /\ Writing = "frame" => Written < Frames(kind)

\* Once a body without a length counts as complete, Serve can add nothing to it.
WholeInv ==
  /\ CompleteMeansWhole
  /\ complete /\ kind = "close" => Finished(Client, S)

\* The inductive invariant of CompleteMeansWhole.
ResponseInv == ServeInv /\ WholeInv

\* The types of what the two invariants compare.
LEMMA ResponseTypes ==
  ASSUME TypeOK
  PROVE  /\ Written \in Nat /\ Writing \in {"idle", "frame", "more"}
         /\ got[Server][S] \in Seq(Nat) /\ Len(got[Server][S]) \in Nat
BY OneId, EndpointTypes DEF Written, Writing

\* The stream actions of a step that belong to another call than the client's Write
\* leave what Serve has written alone.
LEMMA OthersDoNotWrite ==
  ASSUME TypeOK,
         \/ UNCHANGED vars
         \/ \E p \in Side : \/ OpenStream(p) \/ Shutdown(p) \/ ShutdownEnd(p) \/ ReadFail(p)
                            \/ LoopStep(p, S) \/ OpenFrame(p, S) \/ CloseFrame(p, S)
                            \/ CloseRetire(p, S) \/ AbortFrame(p, S) \/ AbortFinish(p, S)
                            \/ ShutdownMark(p, S) \/ CloseWrite(p, S) \/ Abort(p, S)
                            \/ Read(p, S) \/ ReadEnd(p, S)
         \/ WriteLock(Server, S) \/ WriteFrame(Server, S)
  PROVE  Written' = Written /\ Writing' = Writing
<1> USE DEF Written, Writing
<1>1. CASE UNCHANGED <<sent, wpc>>
  BY <1>1
<1>2. ASSUME NEW p \in Side,
             \/ OpenStream(p) \/ Shutdown(p) \/ ShutdownEnd(p) \/ ReadFail(p)
             \/ OpenFrame(p, S) \/ CloseFrame(p, S) \/ CloseRetire(p, S)
             \/ AbortFrame(p, S) \/ AbortFinish(p, S) \/ ShutdownMark(p, S)
      PROVE  UNCHANGED <<sent, wpc>>
  BY <1>2
     DEF OpenStream, Shutdown, ShutdownEnd, ReadFail, OpenFrame, CloseFrame, CloseRetire,
              AbortFrame, AbortFinish, ShutdownMark, pcVars
<1>3. ASSUME NEW p \in Side,
             \/ LoopStep(p, S) \/ CloseWrite(p, S) \/ Abort(p, S) \/ Read(p, S) \/ ReadEnd(p, S)
      PROVE  UNCHANGED <<sent, wpc>>
  BY <1>3
     DEF LoopStep, RecvOpen, RecvData, RecvClose, RecvReset, PushData, PushDrop, CloseCheck,
              CloseWrite, Abort, Read, ReadEnd, pcVars
<1>4. CASE WriteLock(Server, S) \/ WriteFrame(Server, S)
  <2>1. Server # Client
    BY DEF Server, Client
  <2>2. CASE WriteLock(Server, S)
    BY <2>1, <2>2, OneId, EndpointTypes DEF WriteLock
  <2>3. CASE WriteFrame(Server, S)
    BY <2>1, <2>3, OneId, EndpointTypes DEF WriteFrame
  <2> QED BY <1>4, <2>2, <2>3
<1>5. CASE UNCHANGED vars
  BY <1>1, <1>5 DEF vars, pcVars
<1> QED BY <1>1, <1>2, <1>3, <1>4, <1>5

\* proxyTo, its helpers and the stream layer write nothing for Serve.
LEMMA OnlyServeWrites ==
  ASSUME TypeOK,
         \/ UNCHANGED allVars \/ SrvStep \/ ViewerLeaves \/ Watch \/ Timer
         \/ \E p \in Side : StreamStep(p)
  PROVE  Written' = Written /\ Writing' = Writing /\ cl' = cl /\ kind' = kind
<1>1. CASE UNCHANGED allVars \/ ViewerLeaves \/ \E p \in Side : StreamStep(p)
  <2>1. UNCHANGED <<cl, kind>>
    BY <1>1 DEF ViewerLeaves, StreamStep, allVars, exVars, cliVars
  <2>2. Written' = Written /\ Writing' = Writing
    BY <1>1, OthersDoNotWrite DEF ViewerLeaves, StreamStep, allVars
  <2> QED BY <2>1, <2>2
<1>2. CASE Watch \/ Timer
  <2>1. UNCHANGED <<cl, kind>>
    BY <1>2 DEF Watch, Timer, cliVars
  <2>2. Written' = Written /\ Writing' = Writing
    BY <1>2, OneId, OthersDoNotWrite DEF Watch, Timer, AbortCall
  <2> QED BY <2>1, <2>2
<1>3. CASE SrvStep
  <2>1. UNCHANGED <<cl, kind>>
    BY <1>3
       DEF SrvStep, SrvOpen, SrvOpened, SrvWrite, SrvWritten, SrvFail, SrvCloseWrite, SrvArm,
                SrvReadResponse, SrvStopTimer, SrvRelay, SrvFinish, SrvDrain, SrvLeave, cliVars
  <2>2. \/ UNCHANGED vars
        \/ OpenStream(Server) \/ WriteLock(Server, S) \/ WriteFrame(Server, S)
        \/ Abort(Server, S) \/ CloseWrite(Server, S) \/ Read(Server, S) \/ ReadEnd(Server, S)
    BY <1>3
       DEF SrvStep, SrvOpen, SrvOpened, SrvWrite, SrvWritten, SrvFail, SrvCloseWrite, SrvArm,
                SrvReadResponse, SrvStopTimer, SrvRelay, SrvFinish, SrvDrain, SrvLeave, WriteEnds
  <2> QED BY <2>1, <2>2, OneId, OthersDoNotWrite
<1> QED BY <1>1, <1>2, <1>3

\* Every action keeps ServeInv.
LEMMA ServeStep == TypeOK /\ ServeInv /\ [EXNext]_allVars => ServeInv'
<1> SUFFICES ASSUME TypeOK, ServeInv, [EXNext]_allVars
             PROVE  ServeInv'
  OBVIOUS
<1>0. \A k \in {"short", "framed", "close"} : Frames(k) \in {1, 2}
  BY DEF Frames
<1>1. CASE \/ UNCHANGED allVars \/ SrvStep \/ ViewerLeaves \/ Watch \/ Timer
           \/ \E p \in Side : StreamStep(p)
  BY <1>1, OnlyServeWrites DEF ServeInv, Frames
<1>2. CASE CliStart \/ CliReadRequest \/ CliCloseWrite \/ CtxCancel \/ LocalEnds
  <2>1. Written' = Written /\ Writing' = Writing
    BY <1>2, OneId, OthersDoNotWrite
       DEF CliStart, CliReadRequest, CliCloseWrite, CtxCancel, LocalEnds
  <2>2. /\ kind' = kind
        /\ cl' = "raw" \/ cl' \in {"none", "request", "local"} =>
             cl \in {"none", "request", "local", "raw"}
        /\ cl' \in {"none", "request", "local"} => cl \in {"none", "request", "local"}
    BY <1>2 DEF CliStart, CliReadRequest, CliCloseWrite, CtxCancel, LocalEnds
  <2> QED BY <2>1, <2>2 DEF ServeInv, Frames
<1>3. CASE LocalAnswers \/ LocalFails
  <2>1. Written' = Written /\ Writing' = Writing
    BY <1>3, OthersDoNotWrite DEF LocalAnswers, LocalFails
  <2>2. /\ cl = "local" /\ cl' \in {"write", "raw"} /\ kind' \in {"short", "framed", "close"}
        /\ cl' = "raw" => kind' = "short"
    BY <1>3, KindsAssumption DEF LocalAnswers, LocalFails
  <2>3. Written' = 0 /\ Writing' = "idle" /\ Frames(kind') \in {1, 2}
    BY <1>0, <2>1, <2>2 DEF ServeInv
  <2> QED BY <2>2, <2>3 DEF ServeInv, Frames
<1>4. CASE CliWrite
  <2>1. CASE ~MayWrite(Client, S) /\ cl' = "closew" /\ UNCHANGED vars
    <3>1. Written' = Written /\ Writing' = Writing /\ kind' = kind
      BY <1>4, <2>1, OthersDoNotWrite DEF CliWrite
    <3> QED BY <2>1, <3>1 DEF ServeInv, Frames
  <2>2. CASE WriteLock(Client, S) /\ sent[Client][S] < Frames(kind) /\ UNCHANGED <<cl, local>>
    <3>1. /\ Written' = Written /\ Writing' = "frame" /\ kind' = kind
          /\ cl' = cl /\ cl \in {"write", "raw"} /\ Written < Frames(kind)
      BY <1>4, <2>2, OneId, EndpointTypes DEF CliWrite, WriteLock, Written, Writing
    <3> QED BY <3>1 DEF ServeInv, Frames
  <2> QED BY <1>4, <2>1, <2>2 DEF CliWrite
<1>5. CASE CliWritten
  <2>1. /\ Writing = "frame" /\ Writing' = "idle" /\ kind' = kind
        /\ Written' = Written \/ Written' = Written + 1
    BY <1>5, OneId, EndpointTypes DEF CliWritten, WriteEnds, WriteFrame, Written, Writing
  <2>2. cl \in {"write", "raw"} /\ (cl' = cl \/ cl' = "closew")
    BY <1>5 DEF CliWritten
  <2>3. Written' <= Frames(kind)
    BY <1>0, <2>1, ResponseTypes DEF ServeInv
  <2> QED BY <2>1, <2>2, <2>3 DEF ServeInv, Frames
<1> QED BY <1>1, <1>2, <1>3, <1>4, <1>5 DEF EXNext, CliStep

\* What proxyTo has read was written.
LEMMA ReadWasWritten ==
  ASSUME TypeOK, DeliveryInv
  PROVE  Len(got[Server][S]) <= Written
<1>1. /\ Taken(Server, S) <= Written /\ Buffered(Server, S) \in Nat
      /\ Taken(Server, S) = IF Pushing(Server, S) THEN Buffered(Server, S) + 1
                                                  ELSE Buffered(Server, S)
  BY OneId, Counts DEF DeliveryInv, BufferInv, Written
<1>2. PICK g \in Nat : g = Len(got[Server][S])
  BY ResponseTypes
<1>3. PICK c \in Nat : c = Len(chunks[Server][S])
  BY OneId, Counts
<1>4. Buffered(Server, S) = g + c
  BY <1>2, <1>3 DEF Buffered
<1>5. Buffered(Server, S) <= Written
  <2> HIDE DEF Buffered, Pushing, Taken
  <2>1. CASE Pushing(Server, S)
    BY <1>1, <2>1, ResponseTypes
  <2>2. CASE ~Pushing(Server, S)
    BY <1>1, <2>2, ResponseTypes
  <2> QED BY <2>1, <2>2
<1>6. PICK m \in Nat : m = Written
  BY ResponseTypes
<1>7. g + c <= m
  BY <1>4, <1>5, <1>6
<1>8. g <= m
  BY <1>7
<1> QED BY <1>2, <1>6, <1>8

\* A stream that ended with io.EOF has been read to the end.
LEMMA EofIsTheEnd ==
  ASSUME TypeOK, DeliveryInv, readErr[Server][S] = "EOF", chunks[Server][S] = <<>>
  PROVE  Len(got[Server][S]) = Written /\ Finished(Client, S)
<1>1. Buffered(Server, S) = Written /\ Finished(Client, S)
  BY OneId DEF DeliveryInv, EofInv, Written
<1>2. PICK g \in Nat : g = Len(got[Server][S])
  BY ResponseTypes
<1>3. Buffered(Server, S) = g + Len(<<>>)
  BY <1>2, Zenon DEF Buffered
<1> QED BY <1>1, <1>2, <1>3

\* Steps that write, read and decide nothing keep WholeInv.
LEMMA WholeKept ==
  ASSUME TypeOK, WholeInv, [Next]_vars, Written' = Written, got'[Server][S] = got[Server][S],
         kind' = kind, complete' = complete
  PROVE  WholeInv'
<1>1. Finished(Client, S) => Finished(Client, S)'
  BY OneId, SendersOnlyAdvance
<1> QED BY <1>1 DEF WholeInv, CompleteMeansWhole, Written, Frames

\* Only a Read adds to what proxyTo has read.
LEMMA OnlyReadsRead ==
  ASSUME TypeOK,
         \/ UNCHANGED vars
         \/ \E p \in Side : \/ OpenStream(p) \/ Shutdown(p) \/ ShutdownEnd(p) \/ ReadFail(p)
                            \/ LoopStep(p, S) \/ OpenFrame(p, S) \/ CloseFrame(p, S)
                            \/ CloseRetire(p, S) \/ AbortFrame(p, S) \/ AbortFinish(p, S)
                            \/ ShutdownMark(p, S) \/ CloseWrite(p, S) \/ Abort(p, S)
                            \/ WriteLock(p, S) \/ WriteFrame(p, S) \/ ReadEnd(p, S)
         \/ Read(Client, S)
  PROVE  got'[Server][S] = got[Server][S]
<1>1. ASSUME NEW p \in Side,
             \/ OpenStream(p) \/ Shutdown(p) \/ ShutdownEnd(p) \/ ReadFail(p)
             \/ OpenFrame(p, S) \/ CloseFrame(p, S) \/ CloseRetire(p, S)
             \/ AbortFrame(p, S) \/ AbortFinish(p, S) \/ ShutdownMark(p, S)
      PROVE  UNCHANGED got
  BY <1>1
     DEF OpenStream, Shutdown, ShutdownEnd, ReadFail, OpenFrame, CloseFrame, CloseRetire,
              AbortFrame, AbortFinish, ShutdownMark, readVars
<1>2. ASSUME NEW p \in Side,
             \/ LoopStep(p, S) \/ CloseWrite(p, S) \/ Abort(p, S) \/ WriteLock(p, S)
             \/ WriteFrame(p, S) \/ ReadEnd(p, S)
      PROVE  UNCHANGED got
  BY <1>2
     DEF LoopStep, RecvOpen, RecvData, RecvClose, RecvReset, PushData, PushDrop, CloseCheck,
              CloseWrite, Abort, WriteLock, WriteFrame, ReadEnd, readVars
<1>3. CASE Read(Client, S)
  <2>1. Server # Client
    BY DEF Server, Client
  <2> QED BY <1>3, <2>1, OneId, EndpointTypes DEF Read
<1>4. CASE UNCHANGED vars
  BY <1>4 DEF vars, readVars
<1> QED BY <1>1, <1>2, <1>3, <1>4

\* A Read that returns something shows that the response was not complete.
LEMMA ReadsAreBefore ==
  ASSUME TypeOK, DeliveryInv, WholeInv, Read(Server, S), complete' = complete
  PROVE  WholeInv'
<1>1. chunks[Server][S] # <<>>
  BY DEF Read
<1>2. Len(got[Server][S]) < Written
  BY <1>1, OneId, NextBuffered DEF DeliveryInv, Written
<1>3. ~complete
  BY <1>2, ResponseTypes DEF WholeInv, CompleteMeansWhole, Written
<1> QED BY <1>3 DEF WholeInv, CompleteMeansWhole

\* Every action keeps WholeInv.
LEMMA WholeStep == TypeOK /\ DeliveryInv /\ ResponseInv /\ [EXNext]_allVars => WholeInv'
<1> SUFFICES ASSUME TypeOK, DeliveryInv, ServeInv, WholeInv, [EXNext]_allVars
             PROVE  WholeInv'
  BY DEF ResponseInv
<1>0. [Next]_vars
  BY ExchangeUsesStreams
<1>1. CASE \/ UNCHANGED allVars \/ ViewerLeaves \/ Watch \/ Timer \/ \E p \in Side : StreamStep(p)
  <2>1. complete' = complete
    BY <1>1 DEF ViewerLeaves, Watch, Timer, StreamStep, allVars, exVars, srvVars
  <2>2. got'[Server][S] = got[Server][S]
    BY <1>1, OneId, OnlyReadsRead
       DEF ViewerLeaves, Watch, Timer, AbortCall, StreamStep, allVars
  <2> QED BY <1>0, <1>1, <2>1, <2>2, OnlyServeWrites, WholeKept
<1>2. CASE \/ SrvOpen \/ SrvOpened \/ SrvWrite \/ SrvWritten \/ SrvFail \/ SrvCloseWrite \/ SrvArm
           \/ SrvStopTimer \/ SrvFinish \/ SrvLeave
  <2>1. complete' = complete
    BY <1>2 DEF SrvOpen, SrvOpened, SrvWrite, SrvWritten, SrvFail, SrvCloseWrite, SrvArm,
                SrvStopTimer, SrvFinish, SrvLeave
  <2>2. \/ UNCHANGED vars
        \/ OpenStream(Server) \/ WriteLock(Server, S) \/ WriteFrame(Server, S)
        \/ Abort(Server, S) \/ CloseWrite(Server, S)
    BY <1>2 DEF SrvOpen, SrvOpened, SrvWrite, SrvWritten, SrvFail, SrvCloseWrite, SrvArm,
                SrvStopTimer, SrvFinish, SrvLeave, WriteEnds
  <2>3. got'[Server][S] = got[Server][S]
    BY <2>2, OneId, OnlyReadsRead
  <2>4. SrvStep
    BY <1>2 DEF SrvStep
  <2> QED BY <1>0, <2>1, <2>3, <2>4, OnlyServeWrites, WholeKept
<1>3. CASE SrvReadResponse \/ SrvDrain
  <2>1. complete' = complete /\ SrvStep
    BY <1>3 DEF SrvReadResponse, SrvDrain, SrvStep
  <2>2. CASE Read(Server, S)
    BY <2>1, <2>2, ReadsAreBefore
  <2>3. CASE ReadEnd(Server, S) \/ UNCHANGED vars
    <3>1. got'[Server][S] = got[Server][S]
      BY <2>3, OneId, OnlyReadsRead
    <3> QED BY <1>0, <2>1, <3>1, OnlyServeWrites, WholeKept
  <2> QED BY <1>3, <2>2, <2>3 DEF SrvReadResponse, SrvDrain
<1>4. CASE SrvRelay
  <2>0. SrvStep /\ Written' = Written /\ kind' = kind
    BY <1>4, OnlyServeWrites DEF SrvStep
  <2>1. CASE BodyOver /\ complete' = TRUE /\ UNCHANGED vars
    <3>1. Len(got[Server][S]) = Written /\ Written = Frames(kind) /\ kind # "close"
      BY <2>1, ReadWasWritten, ResponseTypes DEF BodyOver, ServeInv, Frames
    <3>2. got'[Server][S] = got[Server][S]
      BY <2>1, OnlyReadsRead
    <3> QED BY <2>0, <3>1, <3>2 DEF WholeInv, CompleteMeansWhole, Written, Frames
  <2>2. CASE Read(Server, S) /\ UNCHANGED complete
    BY <2>2, ReadsAreBefore
  <2>3. CASE ReadEnd(Server, S) /\ complete' = (kind = "close" /\ readErr[Server][S] = "EOF")
    <3>1. got'[Server][S] = got[Server][S]
      BY <2>3, OneId, OnlyReadsRead
    <3>2. chunks[Server][S] = <<>>
      BY <2>3 DEF ReadEnd
    <3>3. CASE kind = "close" /\ readErr[Server][S] = "EOF"
      <4>1. Len(got[Server][S]) = Written /\ Finished(Client, S)
        BY <3>2, <3>3, EofIsTheEnd
      <4>2. Finished(Client, S)'
        BY <1>0, <4>1, OneId, SendersOnlyAdvance
      <4> QED BY <2>0, <3>1, <3>3, <4>1, <4>2 DEF WholeInv, CompleteMeansWhole, Written
    <3>4. CASE ~(kind = "close" /\ readErr[Server][S] = "EOF")
      BY <2>3, <3>4 DEF WholeInv, CompleteMeansWhole
    <3> QED BY <3>3, <3>4
  <2> QED BY <1>4, <2>1, <2>2, <2>3 DEF SrvRelay
<1>5. CASE CliStart \/ CliReadRequest \/ CliCloseWrite \/ CtxCancel \/ LocalEnds \/ CliWrite
  <2>1. kind' = kind /\ complete' = complete
    BY <1>5
       DEF CliStart, CliReadRequest, CliCloseWrite, CtxCancel, LocalEnds, CliWrite, srvVars
  <2>2. \/ UNCHANGED vars \/ Read(Client, S) \/ ReadEnd(Client, S) \/ CloseWrite(Client, S)
        \/ WriteLock(Client, S)
    BY <1>5 DEF CliStart, CliReadRequest, CliCloseWrite, CtxCancel, LocalEnds, CliWrite
  <2>3. got'[Server][S] = got[Server][S]
    BY <2>2, OneId, OnlyReadsRead
  <2>4. Written' = Written
    BY <2>2, OneId, OthersDoNotWrite DEF WriteLock, Written
  <2> QED BY <1>0, <2>1, <2>3, <2>4, WholeKept
<1>6. CASE LocalAnswers \/ LocalFails
  <2>1. complete' = complete /\ cl = "local"
    BY <1>6 DEF LocalAnswers, LocalFails, srvVars
  <2>2. ~complete
    BY <2>1 DEF ServeInv, WholeInv, CompleteMeansWhole, Frames, Written
  <2> QED BY <2>1, <2>2 DEF WholeInv, CompleteMeansWhole
<1>7. CASE CliWritten
  <2>1. complete' = complete /\ kind' = kind /\ Writing = "frame"
    BY <1>7, OneId DEF CliWritten, WriteEnds, WriteFrame, Writing, srvVars
  <2>2. ~complete
    <3>1. complete => kind = "close"
      BY <2>1, ResponseTypes DEF ServeInv, WholeInv, CompleteMeansWhole, Written, Frames
    <3>2. ~(complete /\ kind = "close")
      BY <2>1 DEF WholeInv, Finished, Writing
    <3> QED BY <3>1, <3>2
  <2> QED BY <2>1, <2>2 DEF WholeInv, CompleteMeansWhole
<1> QED BY <1>1, <1>2, <1>3, <1>4, <1>5, <1>6, <1>7 DEF EXNext, SrvStep, CliStep

\* proxyTo: a response it counts as complete is whole, so an abort, a dead session or a
\* local service that breaks off never passes for the end of the body.
THEOREM CompleteResponsesAreWhole == EXSpec => []CompleteMeansWhole
<1> DEFINE IInv == TypeOK /\ DeliveryInv /\ ResponseInv
<1>1. EXInit => IInv
  <2> SUFFICES ASSUME EXInit
               PROVE  IInv
    OBVIOUS
  <2>1. Init
    BY DEF EXInit
  <2>2. TypeOK /\ DeliveryInv
    BY <2>1, TypeInit, DeliveryInit
  <2>3. Written = 0 /\ Writing = "idle"
    BY <2>1, OneId DEF Init, All, Written, Writing
  <2>4. ServeInv /\ WholeInv
    BY <2>3 DEF EXInit, ServeInv, WholeInv, CompleteMeansWhole, Frames
  <2> QED BY <2>2, <2>4 DEF ResponseInv
<1>2. IInv /\ [EXNext]_allVars => IInv'
  <2> SUFFICES ASSUME IInv, [EXNext]_allVars
               PROVE  IInv'
    OBVIOUS
  <2>1. (TypeOK /\ DeliveryInv)'
    BY ExchangeUsesStreams, TypeStep, DeliveryStep
  <2>2. ServeInv' /\ WholeInv'
    BY ServeStep, WholeStep DEF ResponseInv
  <2> QED BY <2>1, <2>2 DEF ResponseInv
<1>3. IInv => CompleteMeansWhole
  BY DEF ResponseInv, WholeInv
<1> QED BY <1>1, <1>2, <1>3, PTL DEF EXSpec
=============================================================================
