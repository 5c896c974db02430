--------------------------- MODULE MuxStreamProofs ---------------------------
(***************************************************************************)
(* Theorems about MuxStream, for any set of streams, any bounds and any    *)
(* faults.                                                                 *)
(***************************************************************************)
EXTENDS MuxStream, TLAPS

-----------------------------------------------------------------------------
(* Type correctness.                                                       *)

\* Peer swaps the two ends.
LEMMA PeerType == \A p \in Side : Peer(p) \in Side /\ Peer(p) # p /\ Peer(Peer(p)) = p
BY DEF Side, Peer

\* What writeFrame does to the connection keeps its type.
LEMMA EmitType ==
  ASSUME TypeOK, NEW p \in Side, NEW s \in StreamId, NEW k \in Nat,
         NEW t \in {"OPEN", "DATA", "CLOSE", "RESET"},
         Emit(p, t, s, k) \/ EmitFails(p)
  PROVE  wire' \in [Side -> Seq(Frame)] /\ broken' \in [Side -> BOOLEAN]
<1>1. [type |-> t, id |-> s, data |-> k] \in Frame
  BY DEF Frame
<1>2. CASE Emit(p, t, s, k)
  BY <1>1, <1>2 DEF Emit, TypeOK
<1>3. CASE EmitFails(p)
  BY <1>3 DEF EmitFails, connVars, TypeOK
<1> QED BY <1>2, <1>3

\* So does taking a frame off it, and the frame is one.
LEMMA TakeType ==
  ASSUME TypeOK, NEW p \in Side, NEW s \in StreamId,
         NEW t \in {"OPEN", "DATA", "CLOSE", "RESET"}, Take(p, t, s)
  PROVE  /\ wire' \in [Side -> Seq(Frame)] /\ broken' \in [Side -> BOOLEAN]
         /\ Head(wire[Peer(p)]) \in Frame
<1> DEFINE q == Peer(p)
<1>1. q \in Side
  BY PeerType
<1>2. wire[q] \in Seq(Frame) /\ wire[q] # <<>>
  BY <1>1 DEF TypeOK, Take
<1>3. Head(wire[q]) \in Frame /\ Tail(wire[q]) \in Seq(Frame)
  BY <1>2
<1> QED BY <1>1, <1>3 DEF Take, TypeOK

\* One step of the specification, as a list of actions.
LEMMA NextCases ==
  ASSUME Next
  PROVE  \E p \in Side :
           \/ OpenStream(p) \/ Shutdown(p) \/ ShutdownEnd(p) \/ ReadFail(p) \/ BreakConn(p)
           \/ \E s \in StreamId :
                \/ RecvOpen(p, s) \/ RecvData(p, s) \/ RecvClose(p, s) \/ RecvReset(p, s)
                \/ PushData(p, s) \/ PushDrop(p, s) \/ CloseCheck(p, s) \/ OpenFrame(p, s)
                \/ WriteFrame(p, s) \/ WriteAgain(p, s) \/ CloseFrame(p, s) \/ CloseRetire(p, s)
                \/ AbortFrame(p, s) \/ AbortFinish(p, s) \/ WriteLock(p, s) \/ CloseWrite(p, s)
                \/ Abort(p, s) \/ Read(p, s) \/ ReadEnd(p, s) \/ ShutdownMark(p, s)
BY DEF Next, LoopStep, CallStep

\* Raising a flag of one end of a stream keeps the type.
LEMMA RaiseType ==
  ASSUME NEW f \in EndpointsOf(BOOLEAN), NEW p \in Side, NEW s \in StreamId
  PROVE  [f EXCEPT ![p][s] = TRUE] \in EndpointsOf(BOOLEAN)
BY DEF EndpointsOf

\* remoteReset keeps the types of the flags it raises.
LEMMA ResetFlagsType ==
  ASSUME TypeOK, NEW p \in Side, NEW s \in StreamId, RecvReset(p, s)
  PROVE  reset' \in EndpointsOf(BOOLEAN) /\ aborted' \in EndpointsOf(BOOLEAN)
<1>1. reset \in EndpointsOf(BOOLEAN) /\ aborted \in EndpointsOf(BOOLEAN)
  BY DEF TypeOK
<1>2. /\ reset' = reset \/ reset' = [reset EXCEPT ![p][s] = TRUE]
      /\ aborted' = aborted \/ aborted' = [aborted EXCEPT ![p][s] = TRUE]
  BY DEF RecvReset, SignalAbort
<1> QED BY <1>1, <1>2, RaiseType, ZenonT(30)

\* pushData and Read keep Stream.chunks within its capacity.
LEMMA ChunksBounded ==
  ASSUME TypeOK, NEW p \in Side, NEW s \in StreamId, PushData(p, s) \/ Read(p, s)
  PROVE  \A q \in Side, r \in StreamId : Len(chunks'[q][r]) <= ChunkCap
<1>1. chunks \in [Side -> [StreamId -> Seq(Nat)]]
  BY DEF TypeOK, EndpointsOf
<1>2. \A q \in Side, r \in StreamId : Len(chunks[q][r]) <= ChunkCap
  BY DEF TypeOK
<1>3. rl[p].data \in Nat
  BY DEF TypeOK, RLState
<1>4. CASE PushData(p, s)
  <2>1. chunks' = [chunks EXCEPT ![p][s] = Append(chunks[p][s], rl[p].data)]
    BY <1>4 DEF PushData
  <2>2. Len(Append(chunks[p][s], rl[p].data)) <= ChunkCap
    BY <1>1, <1>3, <1>4, ChunkCapAssumption DEF PushData
  <2> QED BY <1>1, <1>2, <2>1, <2>2
<1>5. CASE Read(p, s)
  <2>1. chunks' = [chunks EXCEPT ![p][s] = Tail(chunks[p][s])]
    BY <1>5 DEF Read
  <2>2. Len(Tail(chunks[p][s])) <= ChunkCap
    BY <1>1, <1>2, <1>5, ChunkCapAssumption DEF Read
  <2> QED BY <1>1, <1>2, <2>1, <2>2
<1> QED BY <1>4, <1>5

\* Every action keeps the types, the bound of Stream.chunks among them.
LEMMA TypeStep ==
  ASSUME TypeOK, [Next]_vars
  PROVE  TypeOK'
<1> USE DEF EndpointsOf
<1>nextID. nextID \in [Side -> Nat]
  BY DEF TypeOK
<1>registered. registered \in [Side -> SUBSET StreamId]
  BY DEF TypeOK
<1>closed. closed \in [Side -> BOOLEAN]
  BY DEF TypeOK
<1>marking. marking \in [Side -> SUBSET StreamId]
  BY DEF TypeOK
<1>done. done \in [Side -> BOOLEAN]
  BY DEF TypeOK
<1>broken. broken \in [Side -> BOOLEAN]
  BY DEF TypeOK
<1>rl. rl \in [Side -> RLState]
  BY DEF TypeOK
<1>ep. ep \in EndpointsOf({"none", "opening", "live", "failed"})
  BY DEF TypeOK
<1>chunks. chunks \in EndpointsOf(Seq(Nat))
  BY DEF TypeOK
<1>readErr. readErr \in EndpointsOf(ReadErr)
  BY DEF TypeOK
<1>sentClose. sentClose \in EndpointsOf(BOOLEAN)
  BY DEF TypeOK
<1>reset. reset \in EndpointsOf(BOOLEAN)
  BY DEF TypeOK
<1>aborted. aborted \in EndpointsOf(BOOLEAN)
  BY DEF TypeOK
<1>wpc. wpc \in EndpointsOf({"idle", "frame", "more"})
  BY DEF TypeOK
<1>cpc. cpc \in EndpointsOf({"idle", "frame", "frameRetire", "retire"})
  BY DEF TypeOK
<1>apc. apc \in EndpointsOf({"idle", "frame", "mark"})
  BY DEF TypeOK
<1>sent. sent \in EndpointsOf(Nat)
  BY DEF TypeOK
<1>got. got \in EndpointsOf(Seq(Nat))
  BY DEF TypeOK
<1>rres. rres \in EndpointsOf(ReadErr)
  BY DEF TypeOK
<1>u. CASE UNCHANGED vars
  BY <1>u DEF TypeOK, vars, sessVars, connVars, flagVars, pcVars, readVars
<1>n. CASE Next
  <2>1. PICK p \in Side :
          \/ OpenStream(p) \/ Shutdown(p) \/ ShutdownEnd(p) \/ ReadFail(p) \/ BreakConn(p)
          \/ \E s \in StreamId :
               \/ RecvOpen(p, s) \/ RecvData(p, s) \/ RecvClose(p, s) \/ RecvReset(p, s)
               \/ PushData(p, s) \/ PushDrop(p, s) \/ CloseCheck(p, s) \/ OpenFrame(p, s)
               \/ WriteFrame(p, s) \/ WriteAgain(p, s) \/ CloseFrame(p, s) \/ CloseRetire(p, s)
               \/ AbortFrame(p, s) \/ AbortFinish(p, s) \/ WriteLock(p, s) \/ CloseWrite(p, s)
               \/ Abort(p, s) \/ Read(p, s) \/ ReadEnd(p, s) \/ ShutdownMark(p, s)
    BY <1>n, NextCases
  <2>2. CASE OpenStream(p)
    <3>1. nextID' \in [Side -> Nat]
      BY <2>2, <1>nextID DEF OpenStream
    <3>2. registered' \in [Side -> SUBSET StreamId]
      BY <2>2, <1>registered DEF OpenStream
    <3>3. ep' \in EndpointsOf({"none", "opening", "live", "failed"})
      BY <2>2, <1>ep DEF OpenStream
    <3> QED BY <2>2, <3>1, <3>2, <3>3
       DEF OpenStream, TypeOK, sessVars, connVars, flagVars, pcVars, readVars
  <2>3. CASE Shutdown(p)
    <3>1. closed' \in [Side -> BOOLEAN]
      BY <2>3, <1>closed DEF Shutdown
    <3>2. marking' \in [Side -> SUBSET StreamId]
      BY <2>3, <1>marking, <1>registered DEF Shutdown
    <3> QED BY <2>3, <3>1, <3>2
       DEF Shutdown, TypeOK, sessVars, connVars, flagVars, pcVars, readVars
  <2>4. CASE ShutdownEnd(p)
    <3>1. done' \in [Side -> BOOLEAN]
      BY <2>4, <1>done DEF ShutdownEnd
    <3> QED BY <2>4, <3>1
       DEF ShutdownEnd, TypeOK, sessVars, connVars, flagVars, pcVars, readVars
  <2>5. CASE ReadFail(p)
    <3>1. rl' \in [Side -> RLState]
      BY <2>5, <1>rl DEF ReadFail, RLState, Exit
    <3> QED BY <2>5, <3>1
       DEF ReadFail, TypeOK, sessVars, connVars, flagVars, pcVars, readVars
  <2>6. CASE BreakConn(p)
    <3>1. broken' \in [Side -> BOOLEAN]
      BY <2>6, <1>broken DEF BreakConn
    <3> QED BY <2>6, <3>1
       DEF BreakConn, TypeOK, sessVars, connVars, flagVars, pcVars, readVars
  <2>7. ASSUME NEW s \in StreamId,
               \/ RecvOpen(p, s) \/ RecvData(p, s) \/ RecvClose(p, s) \/ RecvReset(p, s)
               \/ PushData(p, s) \/ PushDrop(p, s) \/ CloseCheck(p, s) \/ OpenFrame(p, s)
               \/ WriteFrame(p, s) \/ WriteAgain(p, s) \/ CloseFrame(p, s) \/ CloseRetire(p, s)
               \/ AbortFrame(p, s) \/ AbortFinish(p, s) \/ WriteLock(p, s) \/ CloseWrite(p, s)
               \/ Abort(p, s) \/ Read(p, s) \/ ReadEnd(p, s) \/ ShutdownMark(p, s)
         PROVE  TypeOK'
    <3>1. CASE RecvOpen(p, s)
      <4>1. wire' \in [Side -> Seq(Frame)] /\ broken' \in [Side -> BOOLEAN]
        BY <3>1, TakeType DEF RecvOpen
      <4>2. registered' \in [Side -> SUBSET StreamId]
        BY <3>1, <1>registered DEF RecvOpen
      <4>3. ep' \in EndpointsOf({"none", "opening", "live", "failed"})
        BY <3>1, <1>ep DEF RecvOpen
      <4> QED BY <3>1, <4>1, <4>2, <4>3
         DEF RecvOpen, TypeOK, sessVars, connVars, flagVars, pcVars, readVars
    <3>2. CASE RecvData(p, s)
      <4>1. wire' \in [Side -> Seq(Frame)] /\ broken' \in [Side -> BOOLEAN]
        BY <3>2, TakeType DEF RecvData
      <4>2. rl' \in [Side -> RLState]
        BY <3>2, <1>rl, TakeType DEF RecvData, RLState, Frame
      <4> QED BY <3>2, <4>1, <4>2
         DEF RecvData, TypeOK, sessVars, connVars, flagVars, pcVars, readVars
    <3>3. CASE RecvClose(p, s)
      <4>1. wire' \in [Side -> Seq(Frame)] /\ broken' \in [Side -> BOOLEAN]
        BY <3>3, TakeType DEF RecvClose
      <4>2. readErr' \in EndpointsOf(ReadErr)
        BY <3>3, <1>readErr DEF RecvClose, MarkReadDone, ReadErr
      <4>3. rl' \in [Side -> RLState]
        BY <3>3, <1>rl DEF RecvClose, RLState
      <4> QED BY <3>3, <4>1, <4>2, <4>3
         DEF RecvClose, TypeOK, sessVars, connVars, flagVars, pcVars, readVars
    <3>4. CASE RecvReset(p, s)
      <4>1. wire' \in [Side -> Seq(Frame)] /\ broken' \in [Side -> BOOLEAN]
        BY <3>4, TakeType DEF RecvReset
      <4>2. registered' \in [Side -> SUBSET StreamId]
        BY <3>4, <1>registered DEF RecvReset, Remove
      <4>3. readErr' \in EndpointsOf(ReadErr)
        BY <3>4, <1>readErr DEF RecvReset, MarkReadDone, ReadErr
      <4>4. reset' \in EndpointsOf(BOOLEAN) /\ aborted' \in EndpointsOf(BOOLEAN)
        BY <3>4, ResetFlagsType
      <4> QED BY <3>4, <4>1, <4>2, <4>3, <4>4
         DEF RecvReset, TypeOK, sessVars, connVars, flagVars, pcVars, readVars
    <3>5. CASE PushData(p, s)
      <4>1. chunks' \in EndpointsOf(Seq(Nat))
        BY <3>5, <1>chunks, <1>rl DEF PushData, RLState
      <4>2. rl' \in [Side -> RLState]
        BY <3>5, <1>rl DEF PushData, RLState, Idle
      <4> QED BY <3>5, <4>1, <4>2, ChunksBounded
         DEF PushData, TypeOK, sessVars, connVars, flagVars, pcVars, readVars
    <3>6. CASE PushDrop(p, s)
      <4>1. rl' \in [Side -> RLState]
        BY <3>6, <1>rl DEF PushDrop, RLState, Idle
      <4> QED BY <3>6, <4>1
         DEF PushDrop, TypeOK, sessVars, connVars, flagVars, pcVars, readVars
    <3>7. CASE CloseCheck(p, s)
      <4>1. registered' \in [Side -> SUBSET StreamId]
        BY <3>7, <1>registered DEF CloseCheck, Remove
      <4>2. rl' \in [Side -> RLState]
        BY <3>7, <1>rl DEF CloseCheck, RLState, Idle
      <4> QED BY <3>7, <4>1, <4>2
         DEF CloseCheck, TypeOK, sessVars, connVars, flagVars, pcVars, readVars
    <3>8. CASE OpenFrame(p, s)
      <4>1. wire' \in [Side -> Seq(Frame)] /\ broken' \in [Side -> BOOLEAN]
        BY <3>8, EmitType DEF OpenFrame
      <4>2. registered' \in [Side -> SUBSET StreamId]
        BY <3>8, <1>registered DEF OpenFrame, Remove
      <4>3. ep' \in EndpointsOf({"none", "opening", "live", "failed"})
        BY <3>8, <1>ep DEF OpenFrame
      <4> QED BY <3>8, <4>1, <4>2, <4>3
         DEF OpenFrame, TypeOK, sessVars, connVars, flagVars, pcVars, readVars
    <3>9. CASE WriteFrame(p, s)
      <4>1. wire' \in [Side -> Seq(Frame)] /\ broken' \in [Side -> BOOLEAN]
        <5>1. PICK k \in Nat : k = sent[p][s] + 1
          BY <1>sent DEF EndpointsOf
        <5>2. Emit(p, "DATA", s, k) \/ EmitFails(p)
          BY <3>9, <5>1 DEF WriteFrame
        <5> QED BY <5>2, EmitType
      <4>2. wpc' \in EndpointsOf({"idle", "frame", "more"})
        BY <3>9, <1>wpc DEF WriteFrame
      <4>3. sent' \in EndpointsOf(Nat)
        BY <3>9, <1>sent DEF WriteFrame
      <4> QED BY <3>9, <4>1, <4>2, <4>3
         DEF WriteFrame, TypeOK, sessVars, connVars, flagVars, pcVars, readVars
    <3>10. CASE WriteAgain(p, s)
      <4>1. wpc' \in EndpointsOf({"idle", "frame", "more"})
        BY <3>10, <1>wpc DEF WriteAgain
      <4> QED BY <3>10, <4>1
         DEF WriteAgain, TypeOK, sessVars, connVars, flagVars, pcVars, readVars
    <3>11. CASE CloseFrame(p, s)
      <4>1. wire' \in [Side -> Seq(Frame)] /\ broken' \in [Side -> BOOLEAN]
        BY <3>11, EmitType DEF CloseFrame
      <4>2. cpc' \in EndpointsOf({"idle", "frame", "frameRetire", "retire"})
        BY <3>11, <1>cpc DEF CloseFrame
      <4> QED BY <3>11, <4>1, <4>2
         DEF CloseFrame, TypeOK, sessVars, connVars, flagVars, pcVars, readVars
    <3>12. CASE CloseRetire(p, s)
      <4>1. registered' \in [Side -> SUBSET StreamId]
        BY <3>12, <1>registered DEF CloseRetire, Remove
      <4>2. cpc' \in EndpointsOf({"idle", "frame", "frameRetire", "retire"})
        BY <3>12, <1>cpc DEF CloseRetire
      <4> QED BY <3>12, <4>1, <4>2
         DEF CloseRetire, TypeOK, sessVars, connVars, flagVars, pcVars, readVars
    <3>13. CASE AbortFrame(p, s)
      <4>1. wire' \in [Side -> Seq(Frame)] /\ broken' \in [Side -> BOOLEAN]
        BY <3>13, EmitType DEF AbortFrame
      <4>2. apc' \in EndpointsOf({"idle", "frame", "mark"})
        BY <3>13, <1>apc DEF AbortFrame
      <4> QED BY <3>13, <4>1, <4>2
         DEF AbortFrame, TypeOK, sessVars, connVars, flagVars, pcVars, readVars
    <3>14. CASE AbortFinish(p, s)
      <4>1. registered' \in [Side -> SUBSET StreamId]
        BY <3>14, <1>registered DEF AbortFinish, Remove
      <4>2. readErr' \in EndpointsOf(ReadErr)
        BY <3>14, <1>readErr DEF AbortFinish, MarkReadDone, ReadErr
      <4>3. aborted' \in EndpointsOf(BOOLEAN)
        BY <3>14, <1>aborted DEF AbortFinish, SignalAbort
      <4>4. apc' \in EndpointsOf({"idle", "frame", "mark"})
        BY <3>14, <1>apc DEF AbortFinish
      <4> QED BY <3>14, <4>1, <4>2, <4>3, <4>4
         DEF AbortFinish, TypeOK, sessVars, connVars, flagVars, pcVars, readVars
    <3>15. CASE WriteLock(p, s)
      <4>1. wpc' \in EndpointsOf({"idle", "frame", "more"})
        BY <3>15, <1>wpc DEF WriteLock
      <4> QED BY <3>15, <4>1
         DEF WriteLock, TypeOK, sessVars, connVars, flagVars, pcVars, readVars
    <3>16. CASE CloseWrite(p, s)
      <4>1. sentClose' \in EndpointsOf(BOOLEAN)
        BY <3>16, <1>sentClose DEF CloseWrite
      <4>2. cpc' \in EndpointsOf({"idle", "frame", "frameRetire", "retire"})
        BY <3>16, <1>cpc DEF CloseWrite
      <4> QED BY <3>16, <4>1, <4>2
         DEF CloseWrite, TypeOK, sessVars, connVars, flagVars, pcVars, readVars
    <3>17. CASE Abort(p, s)
      <4>1. reset' \in EndpointsOf(BOOLEAN)
        BY <3>17, <1>reset DEF Abort
      <4>2. sentClose' \in EndpointsOf(BOOLEAN)
        BY <3>17, <1>sentClose DEF Abort
      <4>3. apc' \in EndpointsOf({"idle", "frame", "mark"})
        BY <3>17, <1>apc DEF Abort
      <4> QED BY <3>17, <4>1, <4>2, <4>3
         DEF Abort, TypeOK, sessVars, connVars, flagVars, pcVars, readVars
    <3>18. CASE Read(p, s)
      <4>1. chunks' \in EndpointsOf(Seq(Nat))
        BY <3>18, <1>chunks DEF Read
      <4>2. got' \in EndpointsOf(Seq(Nat))
        BY <3>18, <1>got, <1>chunks DEF Read
      <4>3. \A q \in Side, r \in StreamId : Len(chunks'[q][r]) <= ChunkCap
        BY <3>18, ChunksBounded
      <4> QED BY <3>18, <4>1, <4>2, <4>3
         DEF Read, TypeOK, sessVars, connVars, flagVars, pcVars, readVars
    <3>19. CASE ReadEnd(p, s)
      <4>1. rres' \in EndpointsOf(ReadErr)
        BY <3>19, <1>rres, <1>readErr DEF ReadEnd
      <4> QED BY <3>19, <4>1
         DEF ReadEnd, TypeOK, sessVars, connVars, flagVars, pcVars, readVars
    <3>20. CASE ShutdownMark(p, s)
      <4>1. marking' \in [Side -> SUBSET StreamId]
        BY <3>20, <1>marking DEF ShutdownMark
      <4>2. readErr' \in EndpointsOf(ReadErr)
        BY <3>20, <1>readErr DEF ShutdownMark, MarkReadDone, ReadErr
      <4>3. aborted' \in EndpointsOf(BOOLEAN)
        BY <3>20, <1>aborted DEF ShutdownMark, SignalAbort
      <4> QED BY <3>20, <4>1, <4>2, <4>3
         DEF ShutdownMark, TypeOK, sessVars, connVars, flagVars, pcVars, readVars
    <3> QED BY <2>7, <3>1, <3>2, <3>3, <3>4, <3>5, <3>6, <3>7, <3>8, <3>9, <3>10, <3>11, <3>12,
               <3>13, <3>14, <3>15, <3>16, <3>17, <3>18, <3>19, <3>20
  <2> QED BY <2>1, <2>2, <2>3, <2>4, <2>5, <2>6, <2>7
<1> QED BY <1>u, <1>n

\* The initial state has the types.
LEMMA TypeInit == Init => TypeOK
BY ChunkCapAssumption DEF Init, TypeOK, EndpointsOf, All, FirstID, Idle, RLState, ReadErr

\* Type correctness for every instance: in particular no Stream.chunks ever holds
\* more than its capacity, whatever pushData, Read and the closers do.
THEOREM TypeCorrect == Spec => []TypeOK
BY TypeInit, TypeStep, PTL DEF Spec

-----------------------------------------------------------------------------
(* Shutting down reaches every stream.                                     *)

\* What shutdown relies on.  A stream that left Session.streams was marked done
\* before (CloseWrite and remoteClose unregister it only then), so the streams
\* collected under Session.mu are all that remain to be marked.
ShutdownInv ==
  /\ \A p \in Side : done[p] => closed[p] /\ marking[p] = {}
  /\ \A p \in Side, s \in StreamId :
       /\ closed[p] /\ s \in registered[p] => ReadDone(p, s) \/ s \in marking[p]
       /\ ep[p][s] \in {"opening", "live"} /\ s \notin registered[p] => ReadDone(p, s)
       /\ cpc[p][s] \in {"frameRetire", "retire"} => ReadDone(p, s)
       /\ rl[p].pc = "close" /\ rl[p].id = s => ReadDone(p, s)

\* Every action keeps ShutdownInv: whoever unregisters a stream found it marked.
LEMMA ShutdownStep ==
  ASSUME TypeOK, ShutdownInv, [Next]_vars
  PROVE  ShutdownInv'
<1>done. done \in [Side -> BOOLEAN]
  BY DEF TypeOK, EndpointsOf
<1>closed. closed \in [Side -> BOOLEAN]
  BY DEF TypeOK, EndpointsOf
<1>marking. marking \in [Side -> SUBSET StreamId]
  BY DEF TypeOK, EndpointsOf
<1>registered. registered \in [Side -> SUBSET StreamId]
  BY DEF TypeOK, EndpointsOf
<1>readErr. readErr \in [Side -> [StreamId -> ReadErr]]
  BY DEF TypeOK, EndpointsOf
<1>ep. ep \in [Side -> [StreamId -> {"none", "opening", "live", "failed"}]]
  BY DEF TypeOK, EndpointsOf
<1>cpc. cpc \in [Side -> [StreamId -> {"idle", "frame", "frameRetire", "retire"}]]
  BY DEF TypeOK, EndpointsOf
<1>rl. rl \in [Side -> RLState]
  BY DEF TypeOK, EndpointsOf
<1>u. CASE UNCHANGED vars
  BY <1>u DEF ShutdownInv, ReadDone, vars, sessVars, connVars, flagVars, pcVars, readVars
<1>n. CASE Next
  <2>1. PICK p \in Side :
          \/ OpenStream(p) \/ Shutdown(p) \/ ShutdownEnd(p) \/ ReadFail(p) \/ BreakConn(p)
          \/ \E s \in StreamId :
               \/ RecvOpen(p, s) \/ RecvData(p, s) \/ RecvClose(p, s) \/ RecvReset(p, s)
               \/ PushData(p, s) \/ PushDrop(p, s) \/ CloseCheck(p, s) \/ OpenFrame(p, s)
               \/ WriteFrame(p, s) \/ WriteAgain(p, s) \/ CloseFrame(p, s) \/ CloseRetire(p, s)
               \/ AbortFrame(p, s) \/ AbortFinish(p, s) \/ WriteLock(p, s) \/ CloseWrite(p, s)
               \/ Abort(p, s) \/ Read(p, s) \/ ReadEnd(p, s) \/ ShutdownMark(p, s)
    BY <1>n, NextCases
  <2>2. CASE OpenStream(p)
    BY <2>2, <1>registered, <1>ep DEF OpenStream, ShutdownInv, ReadDone, pcVars
  <2>3. CASE Shutdown(p)
    BY <2>3, <1>closed, <1>marking DEF Shutdown, ShutdownInv, ReadDone, pcVars
  <2>4. CASE ShutdownEnd(p)
    BY <2>4, <1>done DEF ShutdownEnd, ShutdownInv, ReadDone, pcVars
  <2>5. CASE ReadFail(p)
    BY <2>5, <1>rl DEF ReadFail, Exit, ShutdownInv, ReadDone, sessVars, pcVars
  <2>6. CASE BreakConn(p)
    BY <2>6 DEF BreakConn, ShutdownInv, ReadDone, sessVars, pcVars
  <2>7. ASSUME NEW s \in StreamId,
               \/ RecvOpen(p, s) \/ RecvData(p, s) \/ RecvClose(p, s) \/ RecvReset(p, s)
               \/ PushData(p, s) \/ PushDrop(p, s) \/ CloseCheck(p, s) \/ OpenFrame(p, s)
               \/ WriteFrame(p, s) \/ WriteAgain(p, s) \/ CloseFrame(p, s) \/ CloseRetire(p, s)
               \/ AbortFrame(p, s) \/ AbortFinish(p, s) \/ WriteLock(p, s) \/ CloseWrite(p, s)
               \/ Abort(p, s) \/ Read(p, s) \/ ReadEnd(p, s) \/ ShutdownMark(p, s)
         PROVE  ShutdownInv'
    <3>1. CASE RecvOpen(p, s)
      <4>1. CASE closed[p]
        BY <3>1, <4>1 DEF RecvOpen, ShutdownInv, ReadDone, pcVars
      <4>2. CASE ~closed[p]
        <5>1. /\ registered' = [registered EXCEPT ![p] = @ \cup {s}]
              /\ ep' = [ep EXCEPT ![p][s] = "live"]
              /\ UNCHANGED <<closed, marking, done, rl, readErr, cpc>>
          BY <3>1, <4>2 DEF RecvOpen, pcVars
        <5> QED BY <4>2, <5>1, <1>registered, <1>ep DEF ShutdownInv, ReadDone
      <4> QED BY <4>1, <4>2
    <3>2. CASE RecvData(p, s)
      BY <3>2, <1>rl DEF RecvData, ShutdownInv, ReadDone, sessVars, pcVars
    <3>3. CASE RecvClose(p, s)
      <4>1. CASE s \notin registered[p]
        BY <3>3, <4>1 DEF RecvClose, ShutdownInv, ReadDone, sessVars, pcVars
      <4>2. CASE s \in registered[p]
        <5>1. /\ readErr' = [readErr EXCEPT ![p][s] = IF @ = "none" THEN "EOF" ELSE @]
              /\ rl' = [rl EXCEPT ![p] = [pc |-> "close", id |-> s, data |-> 0]]
              /\ UNCHANGED <<registered, closed, marking, done, ep, cpc>>
          BY <3>3, <4>2 DEF RecvClose, MarkReadDone, sessVars, pcVars
        <5>2. \A q \in Side, r \in StreamId : ReadDone(q, r) => ReadDone(q, r)'
          BY <5>1, <1>readErr DEF ReadDone
        <5>3. \A q \in Side, r \in StreamId :
                rl'[q].pc = "close" /\ rl'[q].id = r => ReadDone(q, r)'
          BY <5>1, <5>2, <1>readErr, <1>rl DEF ReadDone, ShutdownInv
        <5> QED BY <5>1, <5>2, <5>3 DEF ShutdownInv
      <4> QED BY <4>1, <4>2
    <3>4. CASE RecvReset(p, s)
      BY <3>4, <1>registered, <1>readErr
         DEF RecvReset, MarkReadDone, Remove, ShutdownInv, ReadDone, pcVars
    <3>5. CASE PushData(p, s)
      BY <3>5, <1>rl DEF PushData, Idle, ShutdownInv, ReadDone, sessVars, pcVars
    <3>6. CASE PushDrop(p, s)
      BY <3>6, <1>rl DEF PushDrop, Idle, ShutdownInv, ReadDone, sessVars, pcVars
    <3>7. CASE CloseCheck(p, s)
      BY <3>7, <1>registered, <1>rl
         DEF CloseCheck, Remove, Idle, ShutdownInv, ReadDone, pcVars
    <3>8. CASE OpenFrame(p, s)
      BY <3>8, <1>registered, <1>ep DEF OpenFrame, Remove, ShutdownInv, ReadDone, pcVars
    <3>9. CASE WriteFrame(p, s)
      BY <3>9 DEF WriteFrame, ShutdownInv, ReadDone, sessVars
    <3>10. CASE WriteAgain(p, s)
      BY <3>10 DEF WriteAgain, ShutdownInv, ReadDone, sessVars
    <3>11. CASE CloseFrame(p, s)
      BY <3>11, <1>cpc DEF CloseFrame, ShutdownInv, ReadDone, sessVars
    <3>12. CASE CloseRetire(p, s)
      BY <3>12, <1>registered, <1>cpc DEF CloseRetire, Remove, ShutdownInv, ReadDone
    <3>13. CASE AbortFrame(p, s)
      BY <3>13 DEF AbortFrame, ShutdownInv, ReadDone, sessVars
    <3>14. CASE AbortFinish(p, s)
      BY <3>14, <1>registered, <1>readErr
         DEF AbortFinish, MarkReadDone, Remove, ShutdownInv, ReadDone
    <3>15. CASE WriteLock(p, s)
      BY <3>15 DEF WriteLock, ShutdownInv, ReadDone, sessVars
    <3>16. CASE CloseWrite(p, s)
      BY <3>16, <1>cpc DEF CloseWrite, ShutdownInv, ReadDone, sessVars
    <3>17. CASE Abort(p, s)
      BY <3>17 DEF Abort, ShutdownInv, ReadDone, sessVars
    <3>18. CASE Read(p, s)
      BY <3>18 DEF Read, ShutdownInv, ReadDone, sessVars, pcVars
    <3>19. CASE ReadEnd(p, s)
      BY <3>19 DEF ReadEnd, ShutdownInv, ReadDone, sessVars, pcVars
    <3>20. CASE ShutdownMark(p, s)
      BY <3>20, <1>marking, <1>readErr
         DEF ShutdownMark, MarkReadDone, ShutdownInv, ReadDone, pcVars
    <3> QED BY <2>7, <3>1, <3>2, <3>3, <3>4, <3>5, <3>6, <3>7, <3>8, <3>9, <3>10, <3>11, <3>12,
               <3>13, <3>14, <3>15, <3>16, <3>17, <3>18, <3>19, <3>20
  <2> QED BY <2>1, <2>2, <2>3, <2>4, <2>5, <2>6, <2>7
<1> QED BY <1>u, <1>n

\* No stream exists at the start.
LEMMA ShutdownInit == Init => ShutdownInv
BY DEF Init, ShutdownInv, ReadDone, All, Idle

\* Once shutdown has closed Session.done, every stream ever handed out has its
\* terminal read state, so the loop in Stream.Read that is woken by done returns
\* and never spins; a stream opened or received concurrently is no exception.
THEOREM ShutdownMarksEveryStream == Spec => []DoneMarksEveryStream
<1>1. TypeOK /\ ShutdownInv /\ [Next]_vars => (TypeOK /\ ShutdownInv)'
  BY TypeStep, ShutdownStep
<1>2. Init => TypeOK /\ ShutdownInv
  BY TypeInit, ShutdownInit
<1>3. TypeOK /\ ShutdownInv => DoneMarksEveryStream
  BY DEF TypeOK, ShutdownInv, DoneMarksEveryStream
<1> QED BY <1>1, <1>2, <1>3, PTL DEF Spec

-----------------------------------------------------------------------------
(* A stream is opened once.                                                *)

\* The parity rule: the server allocates odd identifiers, the client even ones.
Owns(p, s) == s % 2 = FirstID(p) % 2

\* Parity: the ends allocate from disjoint sets.
LEMMA OwnsOne ==
  ASSUME NEW p \in Side, NEW s \in Nat, Owns(p, s)
  PROVE  ~Owns(Peer(p), s) /\ Owns(p, s + 2)
BY DEF Owns, Side, Peer, FirstID

\* Reading a frame: what is left was there before, one place further on.
LEMMA TailIndex ==
  ASSUME NEW q \in Seq(Frame), q # <<>>
  PROVE  /\ \A i \in 1 .. Len(Tail(q)) :
              Tail(q)[i] = q[i + 1] /\ i \in Nat /\ i + 1 # 1 /\ i + 1 \in 1 .. Len(q)
         /\ 1 \in 1 .. Len(q) /\ Head(q) = q[1]
OBVIOUS

\* Writing a frame: it comes last.
LEMMA AppendIndex ==
  ASSUME NEW q \in Seq(Frame), NEW f \in Frame
  PROVE  \A i \in 1 .. Len(Append(q, f)) :
           \/ i \in 1 .. Len(q) /\ Append(q, f)[i] = q[i]
           \/ i = Len(q) + 1 /\ Append(q, f)[i] = f
OBVIOUS

\* Frame f from q announces a stream, given the endpoints e and the counters n.
Announces(q, f, e, n) ==
  /\ Owns(q, f.id) /\ f.id < n[q]
  /\ e[Peer(q)][f.id] = "none" /\ e[q][f.id] # "opening"

\* An OPEN frame on its way announces a stream its receiver has not seen.
WireOpenInv ==
  \A q \in Side : \A i \in 1 .. Len(wire[q]) :
    wire[q][i].type = "OPEN" => Announces(q, wire[q][i], ep, nextID)

\* It is the only one for its stream.
UniqueOpenInv ==
  \A q \in Side : \A i, j \in 1 .. Len(wire[q]) :
    wire[q][i].type = "OPEN" /\ wire[q][j].type = "OPEN" /\ wire[q][i].id = wire[q][j].id
      => i = j

\* Identifiers not yet allocated are unused at both ends, and a stream that is
\* being opened is unknown to the peer.
OpenSetInv ==
  /\ \A p \in Side : Owns(p, nextID[p])
  /\ \A p \in Side, s \in StreamId :
       /\ ep[p][s] = "opening" =>
            Owns(p, s) /\ s < nextID[p] /\ ep[Peer(p)][s] = "none"
       /\ Owns(p, s) /\ s >= nextID[p] => ep[p][s] = "none" /\ ep[Peer(p)][s] = "none"

OpenInv == OpenSetInv /\ WireOpenInv /\ UniqueOpenInv

\* The parts of TypeOK the lemmas below use.
LEMMA WireFrames ==
  ASSUME TypeOK
  PROVE  /\ wire \in [Side -> Seq(Frame)]
         /\ ep \in [Side -> [StreamId -> {"none", "opening", "live", "failed"}]]
         /\ nextID \in [Side -> Nat] /\ StreamId \subseteq Nat
         /\ \A q \in Side : \A i \in 1 .. Len(wire[q]) :
              wire[q][i] \in Frame /\ wire[q][i].id \in StreamId
<1>1. /\ wire \in [Side -> Seq(Frame)] /\ nextID \in [Side -> Nat] /\ StreamId \subseteq Nat
      /\ ep \in [Side -> [StreamId -> {"none", "opening", "live", "failed"}]]
  BY StreamIdAssumption DEF TypeOK, EndpointsOf
<1>2. \A f \in Frame : f.id \in StreamId
  BY DEF Frame
<1>3. \A q \in Side : \A i \in 1 .. Len(wire[q]) : wire[q][i] \in Frame
  BY <1>1
<1> QED BY <1>1, <1>2, <1>3

\* A frame of another kind announces nothing.
LEMMA EmitKeepsOpen ==
  ASSUME TypeOK, OpenInv, NEW p \in Side, NEW s \in StreamId, NEW k \in Nat,
         NEW t \in {"DATA", "CLOSE", "RESET"}, Emit(p, t, s, k),
         UNCHANGED <<nextID, ep>>
  PROVE  OpenInv'
<1> DEFINE f == [type |-> t, id |-> s, data |-> k]
<1>1. wire \in [Side -> Seq(Frame)] /\ f \in Frame /\ f.type # "OPEN"
  BY DEF TypeOK, Frame
<1>2. wire' = [wire EXCEPT ![p] = Append(wire[p], f)]
  BY DEF Emit
<1> HIDE DEF f
<1>3. \A q \in Side : \A i \in 1 .. Len(wire'[q]) :
            wire'[q][i].type = "OPEN" => i \in 1 .. Len(wire[q]) /\ wire'[q][i] = wire[q][i]
  BY <1>1, <1>2, AppendIndex
<1>4. OpenSetInv'
  BY DEF OpenInv, OpenSetInv
<1>5. WireOpenInv'
  BY <1>3 DEF OpenInv, WireOpenInv
<1>6. UniqueOpenInv'
  BY <1>3 DEF OpenInv, UniqueOpenInv
<1> QED BY <1>4, <1>5, <1>6 DEF OpenInv

\* Taking a frame off the connection leaves the others unique.
LEMMA TakeKeepsUnique ==
  ASSUME TypeOK, UniqueOpenInv, NEW p \in Side, NEW s \in StreamId, NEW t,
         Take(p, t, s)
  PROVE  /\ UniqueOpenInv'
         /\ \A q \in Side : \A i \in 1 .. Len(wire'[q]) : \E j \in 1 .. Len(wire[q]) :
              wire'[q][i] = wire[q][j] /\ (q = Peer(p) => j # 1)
<1>1. wire \in [Side -> Seq(Frame)]
  BY DEF TypeOK
<1>2. wire[Peer(p)] # <<>> /\ wire' = [wire EXCEPT ![Peer(p)] = Tail(wire[Peer(p)])]
  BY DEF Take
<1>3. ASSUME NEW q \in Side, q # Peer(p)
      PROVE  wire'[q] = wire[q]
  BY <1>1, <1>2, <1>3
<1>4. ASSUME NEW q \in Side, q = Peer(p)
      PROVE  \A i \in 1 .. Len(wire'[q]) :
              wire'[q][i] = wire[q][i + 1] /\ i \in Nat /\ i + 1 # 1 /\ i + 1 \in 1 .. Len(wire[q])
  BY <1>1, <1>2, <1>4, TailIndex
<1>5. ASSUME NEW q \in Side, NEW i \in 1 .. Len(wire'[q]), NEW j \in 1 .. Len(wire'[q]),
             wire'[q][i].type = "OPEN", wire'[q][j].type = "OPEN", wire'[q][i].id = wire'[q][j].id
      PROVE  i = j
  <2>1. CASE q # Peer(p)
    BY <1>3, <1>5, <2>1 DEF UniqueOpenInv
  <2>2. CASE q = Peer(p)
    <3>1. /\ i + 1 \in 1 .. Len(wire[q]) /\ j + 1 \in 1 .. Len(wire[q])
          /\ wire'[q][i] = wire[q][i + 1] /\ wire'[q][j] = wire[q][j + 1]
      BY <1>4, <2>2
    <3>2. i + 1 = j + 1
      BY <1>5, <3>1 DEF UniqueOpenInv
    <3> QED BY <3>2
  <2> QED BY <2>1, <2>2
<1>6. UniqueOpenInv'
  BY <1>5 DEF UniqueOpenInv
<1>7. ASSUME NEW q \in Side, NEW i \in 1 .. Len(wire'[q])
      PROVE  \E j \in 1 .. Len(wire[q]) : wire'[q][i] = wire[q][j] /\ (q = Peer(p) => j # 1)
  BY <1>3, <1>4
<1> QED BY <1>6, <1>7

\* So it keeps OpenInv.
LEMMA TakeKeepsOpen ==
  ASSUME TypeOK, OpenInv, NEW p \in Side, NEW s \in StreamId, NEW t, Take(p, t, s),
         UNCHANGED <<nextID, ep>>
  PROVE  OpenInv'
<1>1. OpenSetInv'
  BY DEF OpenInv, OpenSetInv
<1>2. \A q \in Side : \A i \in 1 .. Len(wire'[q]) : \E j \in 1 .. Len(wire[q]) : wire'[q][i] = wire[q][j]
  BY TakeKeepsUnique DEF OpenInv
<1>3. WireOpenInv'
  BY <1>2 DEF OpenInv, WireOpenInv
<1> QED BY <1>1, <1>3, TakeKeepsUnique DEF OpenInv

\* OpenStream allocates an identifier that is fresh at both ends.
LEMMA OpenStreamKeepsOpen ==
  ASSUME TypeOK, OpenInv, NEW p \in Side, OpenStream(p)
  PROVE  ep[p][nextID[p]] = "none" /\ OpenInv'
<1> DEFINE s == nextID[p]
<1>1. PICK e \in {"opening", "failed"} : ep' = [ep EXCEPT ![p][s] = e]
  BY DEF OpenStream
<1>2. s \in StreamId /\ nextID' = [nextID EXCEPT ![p] = s + 2] /\ wire' = wire
  BY DEF OpenStream, connVars
<1>3. Owns(p, s) /\ ~Owns(Peer(p), s) /\ Owns(p, s + 2)
  BY <1>2, WireFrames, OwnsOne DEF OpenInv, OpenSetInv
<1>4. ep[p][s] = "none" /\ ep[Peer(p)][s] = "none"
  BY <1>2, <1>3, WireFrames DEF OpenInv, OpenSetInv
<1>5. OpenSetInv'
  BY <1>1, <1>2, <1>3, <1>4, WireFrames, PeerType DEF OpenInv, OpenSetInv
<1>6. ASSUME NEW q \in Side, NEW i \in 1 .. Len(wire[q]), wire[q][i].type = "OPEN"
      PROVE  Announces(q, wire[q][i], ep', nextID')
  <2>1. Announces(q, wire[q][i], ep, nextID) /\ wire[q][i] \in Frame /\ wire[q][i].id \in Nat
    BY <1>6, WireFrames DEF OpenInv, WireOpenInv
  <2>2. q = p \/ q = Peer(p)
    BY DEF Side, Peer
  <2>3. wire[q][i].id # s
    BY <1>2, <1>3, <2>1, <2>2, WireFrames DEF Announces
  <2>4. /\ nextID'[q] >= nextID[q] /\ nextID[q] \in Nat /\ nextID'[q] \in Nat
        /\ \A r \in Side, u \in StreamId : u # s => ep'[r][u] = ep[r][u]
    BY <1>1, <1>2, WireFrames
  <2>5. /\ ep'[q][wire[q][i].id] = ep[q][wire[q][i].id]
        /\ ep'[Peer(q)][wire[q][i].id] = ep[Peer(q)][wire[q][i].id]
        /\ wire[q][i].id \in Nat
    BY <2>3, <2>4, WireFrames, PeerType
  <2> QED BY <2>1, <2>3, <2>4, <2>5 DEF Announces
<1>7. WireOpenInv'
  BY <1>2, <1>6 DEF WireOpenInv
<1>8. UniqueOpenInv'
  BY <1>2 DEF OpenInv, UniqueOpenInv
<1> QED BY <1>4, <1>5, <1>7, <1>8 DEF OpenInv

\* The OPEN frame is the first about its stream.
LEMMA OpenFrameKeepsOpen ==
  ASSUME TypeOK, OpenInv, NEW p \in Side, NEW s \in StreamId, OpenFrame(p, s)
  PROVE  OpenInv'
<1> DEFINE f == [type |-> "OPEN", id |-> s, data |-> 0]
<1>1. PICK e \in {"live", "failed"} : ep' = [ep EXCEPT ![p][s] = e]
  BY DEF OpenFrame
<1>2. nextID' = nextID /\ ep[p][s] = "opening"
  BY DEF OpenFrame
<1>3. Owns(p, s) /\ ~Owns(Peer(p), s) /\ s < nextID[p] /\ ep[Peer(p)][s] = "none"
  BY <1>2, WireFrames, OwnsOne DEF OpenInv, OpenSetInv
<1>4. OpenSetInv'
  BY <1>1, <1>2, <1>3, WireFrames, PeerType DEF OpenInv, OpenSetInv
<1>5. wire' = wire \/ wire' = [wire EXCEPT ![p] = Append(wire[p], f)]
  BY DEF OpenFrame, Emit, EmitFails, connVars
<1>6. f \in Frame /\ f.type = "OPEN" /\ f.id = s
  BY DEF Frame
<1> HIDE DEF f
<1>7. \A q \in Side : \A i \in 1 .. Len(wire'[q]) :
        \/ i \in 1 .. Len(wire[q]) /\ wire'[q][i] = wire[q][i]
        \/ q = p /\ i = Len(wire[q]) + 1 /\ wire'[q][i] = f
  <2>1. CASE wire' = wire
    BY <2>1
  <2>2. CASE wire' = [wire EXCEPT ![p] = Append(wire[p], f)]
    BY <1>6, <2>2, AppendIndex, WireFrames
  <2> QED BY <1>5, <2>1, <2>2
<1>8. ASSUME NEW q \in Side, NEW i \in 1 .. Len(wire[q]), wire[q][i].type = "OPEN"
      PROVE  Announces(q, wire[q][i], ep', nextID') /\ wire[q][i].id # s
  <2>1. Announces(q, wire[q][i], ep, nextID) /\ wire[q][i] \in Frame
    BY <1>8, WireFrames DEF OpenInv, WireOpenInv
  <2>2. q = p \/ q = Peer(p)
    BY DEF Side, Peer
  <2>3. wire[q][i].id # s
    BY <1>2, <1>3, <2>1, <2>2 DEF Announces
  <2>4. /\ nextID'[q] >= nextID[q] /\ nextID[q] \in Nat /\ nextID'[q] \in Nat
        /\ \A r \in Side, u \in StreamId : u # s => ep'[r][u] = ep[r][u]
    BY <1>1, <1>2, WireFrames
  <2>5. /\ ep'[q][wire[q][i].id] = ep[q][wire[q][i].id]
        /\ ep'[Peer(q)][wire[q][i].id] = ep[Peer(q)][wire[q][i].id]
        /\ wire[q][i].id \in Nat
    BY <2>3, <2>4, WireFrames, PeerType
  <2> QED BY <2>1, <2>3, <2>4, <2>5 DEF Announces
<1>9. Announces(p, f, ep', nextID')
  BY <1>1, <1>2, <1>3, <1>6, WireFrames, PeerType DEF Announces
<1>10. WireOpenInv'
  BY <1>7, <1>8, <1>9 DEF WireOpenInv
<1>11. UniqueOpenInv'
  <2>1. ASSUME NEW q \in Side, NEW i \in 1 .. Len(wire'[q]), NEW j \in 1 .. Len(wire'[q]),
               wire'[q][i].type = "OPEN", wire'[q][j].type = "OPEN",
               wire'[q][i].id = wire'[q][j].id
        PROVE  i = j
    <3>1. CASE i \in 1 .. Len(wire[q]) /\ wire'[q][i] = wire[q][i]
      <4>1. j \in 1 .. Len(wire[q]) /\ wire'[q][j] = wire[q][j]
        BY <1>6, <1>7, <1>8, <2>1, <3>1
      <4> QED BY <2>1, <3>1, <4>1 DEF OpenInv, UniqueOpenInv
    <3>2. CASE q = p /\ i = Len(wire[q]) + 1 /\ wire'[q][i] = f
      <4>1. ~(j \in 1 .. Len(wire[q]) /\ wire'[q][j] = wire[q][j])
        BY <1>6, <1>8, <2>1, <3>2
      <4> QED BY <1>7, <3>2, <4>1
    <3> QED BY <1>7, <3>1, <3>2
  <2> QED BY <2>1 DEF UniqueOpenInv
<1> QED BY <1>4, <1>10, <1>11 DEF OpenInv

\* readLoop only ever registers a stream it has not seen.
LEMMA RecvOpenKeepsOpen ==
  ASSUME TypeOK, OpenInv, NEW p \in Side, NEW s \in StreamId, RecvOpen(p, s)
  PROVE  ep[p][s] = "none" /\ OpenInv'
<1> DEFINE q == Peer(p)
<1>1. q \in Side /\ q # p /\ Peer(q) = p
  BY PeerType
<1>2. /\ Take(p, "OPEN", s) /\ nextID' = nextID
      /\ ep' = ep \/ ep' = [ep EXCEPT ![p][s] = "live"]
  BY DEF RecvOpen
<1>3. wire[q] \in Seq(Frame) /\ wire[q] # <<>>
  BY <1>1, <1>2, WireFrames DEF Take
<1>4. 1 \in 1 .. Len(wire[q]) /\ wire[q][1].type = "OPEN" /\ wire[q][1].id = s
  BY <1>2, <1>3, TailIndex DEF Take
<1>5. Owns(q, s) /\ s < nextID[q] /\ ep[p][s] = "none" /\ ep[q][s] # "opening"
  BY <1>1, <1>4 DEF OpenInv, WireOpenInv, Announces
<1>6. ~Owns(p, s)
  BY <1>1, <1>5, OwnsOne, WireFrames
<1>7. OpenSetInv'
  <2>1. CASE ep' = ep
    BY <1>2, <2>1 DEF OpenInv, OpenSetInv
  <2>2. CASE ep' = [ep EXCEPT ![p][s] = "live"]
    BY <1>1, <1>2, <1>5, <1>6, <2>2, WireFrames, PeerType DEF OpenInv, OpenSetInv
  <2> QED BY <1>2, <2>1, <2>2
<1>8. ASSUME NEW r \in Side, NEW i \in 1 .. Len(wire'[r]), wire'[r][i].type = "OPEN"
      PROVE  Announces(r, wire'[r][i], ep', nextID')
  <2>1. PICK j \in 1 .. Len(wire[r]) : wire'[r][i] = wire[r][j] /\ (r = q => j # 1)
    BY <1>2, TakeKeepsUnique DEF OpenInv
  <2>2. Announces(r, wire[r][j], ep, nextID) /\ wire[r][j] \in Frame
    BY <1>8, <2>1, WireFrames DEF OpenInv, WireOpenInv
  <2>3. r = p \/ r = q
    BY DEF Side, Peer
  <2>4. wire[r][j].id # s
    <3>1. CASE r = p
      BY <1>6, <2>2, <3>1 DEF Announces
    <3>2. CASE r = q
      BY <1>1, <1>4, <1>8, <2>1, <3>2 DEF OpenInv, UniqueOpenInv
    <3> QED BY <2>3, <3>1, <3>2
  <2>5. /\ nextID' = nextID
        /\ \A v \in Side, u \in StreamId : u # s => ep'[v][u] = ep[v][u]
    <3>1. CASE ep' = ep
      BY <1>2, <3>1
    <3>2. CASE ep' = [ep EXCEPT ![p][s] = "live"]
      BY <1>2, <3>2, WireFrames
    <3> QED BY <1>2, <3>1, <3>2
  <2>6. Announces(r, wire[r][j], ep', nextID')
    <3>1. /\ ep'[r][wire[r][j].id] = ep[r][wire[r][j].id]
          /\ ep'[Peer(r)][wire[r][j].id] = ep[Peer(r)][wire[r][j].id]
      BY <2>4, <2>5, WireFrames, PeerType
    <3> QED BY <2>2, <2>5, <3>1 DEF Announces
  <2> QED BY <2>1, <2>6
<1>9. WireOpenInv'
  BY <1>8 DEF WireOpenInv
<1> QED BY <1>2, <1>5, <1>7, <1>9, TakeKeepsUnique DEF OpenInv

\* Every action keeps OpenInv; only three change what it speaks of besides the
\* frames of other kinds.
LEMMA OpenStep ==
  ASSUME TypeOK, OpenInv, [Next]_vars
  PROVE  OpenInv'
<1>q. ASSUME UNCHANGED <<nextID, wire, ep>>
      PROVE  OpenInv'
  BY <1>q DEF OpenInv, OpenSetInv, WireOpenInv, UniqueOpenInv
<1>u. CASE UNCHANGED vars
  BY <1>u, <1>q DEF vars, sessVars, connVars
<1>n. CASE Next
  <2>1. PICK p \in Side :
          \/ OpenStream(p) \/ Shutdown(p) \/ ShutdownEnd(p) \/ ReadFail(p) \/ BreakConn(p)
          \/ \E s \in StreamId :
               \/ RecvOpen(p, s) \/ RecvData(p, s) \/ RecvClose(p, s) \/ RecvReset(p, s)
               \/ PushData(p, s) \/ PushDrop(p, s) \/ CloseCheck(p, s) \/ OpenFrame(p, s)
               \/ WriteFrame(p, s) \/ WriteAgain(p, s) \/ CloseFrame(p, s) \/ CloseRetire(p, s)
               \/ AbortFrame(p, s) \/ AbortFinish(p, s) \/ WriteLock(p, s) \/ CloseWrite(p, s)
               \/ Abort(p, s) \/ Read(p, s) \/ ReadEnd(p, s) \/ ShutdownMark(p, s)
    BY <1>n, NextCases
  <2>2. CASE OpenStream(p)
    BY <2>2, OpenStreamKeepsOpen
  <2>3. CASE Shutdown(p)
    BY <2>3, <1>q DEF Shutdown, sessVars, connVars
  <2>4. CASE ShutdownEnd(p)
    BY <2>4, <1>q DEF ShutdownEnd, sessVars, connVars
  <2>5. CASE ReadFail(p)
    BY <2>5, <1>q DEF ReadFail, sessVars, connVars
  <2>6. CASE BreakConn(p)
    BY <2>6, <1>q DEF BreakConn, sessVars, connVars
  <2>7. ASSUME NEW s \in StreamId,
               \/ RecvOpen(p, s) \/ RecvData(p, s) \/ RecvClose(p, s) \/ RecvReset(p, s)
               \/ PushData(p, s) \/ PushDrop(p, s) \/ CloseCheck(p, s) \/ OpenFrame(p, s)
               \/ WriteFrame(p, s) \/ WriteAgain(p, s) \/ CloseFrame(p, s) \/ CloseRetire(p, s)
               \/ AbortFrame(p, s) \/ AbortFinish(p, s) \/ WriteLock(p, s) \/ CloseWrite(p, s)
               \/ Abort(p, s) \/ Read(p, s) \/ ReadEnd(p, s) \/ ShutdownMark(p, s)
         PROVE  OpenInv'
    <3>1. CASE RecvOpen(p, s)
      BY <3>1, RecvOpenKeepsOpen
    <3>2. CASE RecvData(p, s)
      BY <3>2, TakeKeepsOpen DEF RecvData, sessVars
    <3>3. CASE RecvClose(p, s)
      BY <3>3, TakeKeepsOpen DEF RecvClose, sessVars
    <3>4. CASE RecvReset(p, s)
      BY <3>4, TakeKeepsOpen DEF RecvReset, sessVars
    <3>5. CASE PushData(p, s)
      BY <3>5, <1>q DEF PushData, sessVars, connVars
    <3>6. CASE PushDrop(p, s)
      BY <3>6, <1>q DEF PushDrop, sessVars, connVars
    <3>7. CASE CloseCheck(p, s)
      BY <3>7, <1>q DEF CloseCheck, sessVars, connVars
    <3>8. CASE OpenFrame(p, s)
      BY <3>8, OpenFrameKeepsOpen
    <3>9. CASE WriteFrame(p, s)
      <4>1. UNCHANGED <<nextID, ep>> /\ (Emit(p, "DATA", s, sent[p][s] + 1) \/ UNCHANGED wire)
        BY <3>9 DEF WriteFrame, EmitFails, sessVars, connVars
      <4>2. sent[p][s] + 1 \in Nat
        BY DEF TypeOK, EndpointsOf
      <4> QED BY <4>1, <4>2, <1>q, EmitKeepsOpen
    <3>10. CASE WriteAgain(p, s)
      BY <3>10, <1>q DEF WriteAgain, sessVars, connVars
    <3>11. CASE CloseFrame(p, s)
      <4>1. UNCHANGED <<nextID, ep>> /\ (Emit(p, "CLOSE", s, 0) \/ UNCHANGED wire)
        BY <3>11 DEF CloseFrame, EmitFails, sessVars, connVars
      <4>2. 0 \in Nat
        BY DEF TypeOK, EndpointsOf
      <4> QED BY <4>1, <4>2, <1>q, EmitKeepsOpen
    <3>12. CASE CloseRetire(p, s)
      BY <3>12, <1>q DEF CloseRetire, sessVars, connVars
    <3>13. CASE AbortFrame(p, s)
      <4>1. UNCHANGED <<nextID, ep>> /\ (Emit(p, "RESET", s, 0) \/ UNCHANGED wire)
        BY <3>13 DEF AbortFrame, EmitFails, sessVars, connVars
      <4>2. 0 \in Nat
        BY DEF TypeOK, EndpointsOf
      <4> QED BY <4>1, <4>2, <1>q, EmitKeepsOpen
    <3>14. CASE AbortFinish(p, s)
      BY <3>14, <1>q DEF AbortFinish, sessVars, connVars
    <3>15. CASE WriteLock(p, s)
      BY <3>15, <1>q DEF WriteLock, sessVars, connVars
    <3>16. CASE CloseWrite(p, s)
      BY <3>16, <1>q DEF CloseWrite, sessVars, connVars
    <3>17. CASE Abort(p, s)
      BY <3>17, <1>q DEF Abort, sessVars, connVars
    <3>18. CASE Read(p, s)
      BY <3>18, <1>q DEF Read, sessVars, connVars
    <3>19. CASE ReadEnd(p, s)
      BY <3>19, <1>q DEF ReadEnd, sessVars, connVars
    <3>20. CASE ShutdownMark(p, s)
      BY <3>20, <1>q DEF ShutdownMark, sessVars, connVars
    <3> QED BY <2>7, <3>1, <3>2, <3>3, <3>4, <3>5, <3>6, <3>7, <3>8, <3>9, <3>10, <3>11, <3>12,
               <3>13, <3>14, <3>15, <3>16, <3>17, <3>18, <3>19, <3>20
  <2> QED BY <2>1, <2>2, <2>3, <2>4, <2>5, <2>6, <2>7
<1> QED BY <1>u, <1>n

-----------------------------------------------------------------------------
(* A stream closed by both ends is unregistered.                           *)

\* A stream that does not exist yet at an end has no state there.
PristineInv ==
  \A p \in Side, s \in StreamId :
    ep[p][s] = "none" =>
      /\ s \notin registered[p] /\ s \notin marking[p]
      /\ ~sentClose[p][s] /\ readErr[p][s] = "none"
      /\ cpc[p][s] = "idle" /\ apc[p][s] = "idle"
      /\ ~(rl[p].pc = "close" /\ rl[p].id = s)

\* CloseWrite and remoteClose each write one flag and then read the other's:
\* whoever comes second unregisters the stream.
RetireInv ==
  \A p \in Side, s \in StreamId :
    sentClose[p][s] /\ readErr[p][s] = "EOF" /\ s \in registered[p] =>
      \/ cpc[p][s] \in {"frameRetire", "retire"}
      \/ apc[p][s] # "idle"
      \/ rl[p].pc = "close" /\ rl[p].id = s

\* Every action keeps PristineInv.
LEMMA PristineStep ==
  ASSUME TypeOK, PristineInv, [Next]_vars
  PROVE  PristineInv'
<1>ep. ep \in [Side -> [StreamId -> {"none", "opening", "live", "failed"}]]
  BY DEF TypeOK, EndpointsOf
<1>registered. registered \in [Side -> SUBSET StreamId]
  BY DEF TypeOK, EndpointsOf
<1>marking. marking \in [Side -> SUBSET StreamId]
  BY DEF TypeOK, EndpointsOf
<1>sentClose. sentClose \in [Side -> [StreamId -> BOOLEAN]]
  BY DEF TypeOK, EndpointsOf
<1>readErr. readErr \in [Side -> [StreamId -> ReadErr]]
  BY DEF TypeOK, EndpointsOf
<1>cpc. cpc \in [Side -> [StreamId -> {"idle", "frame", "frameRetire", "retire"}]]
  BY DEF TypeOK, EndpointsOf
<1>apc. apc \in [Side -> [StreamId -> {"idle", "frame", "mark"}]]
  BY DEF TypeOK, EndpointsOf
<1>rl. rl \in [Side -> RLState]
  BY DEF TypeOK, EndpointsOf
<1>u. CASE UNCHANGED vars
  BY <1>u DEF PristineInv, vars, sessVars, connVars, flagVars, pcVars, readVars
<1>n. CASE Next
  <2>1. PICK p \in Side :
          \/ OpenStream(p) \/ Shutdown(p) \/ ShutdownEnd(p) \/ ReadFail(p) \/ BreakConn(p)
          \/ \E s \in StreamId :
               \/ RecvOpen(p, s) \/ RecvData(p, s) \/ RecvClose(p, s) \/ RecvReset(p, s)
               \/ PushData(p, s) \/ PushDrop(p, s) \/ CloseCheck(p, s) \/ OpenFrame(p, s)
               \/ WriteFrame(p, s) \/ WriteAgain(p, s) \/ CloseFrame(p, s) \/ CloseRetire(p, s)
               \/ AbortFrame(p, s) \/ AbortFinish(p, s) \/ WriteLock(p, s) \/ CloseWrite(p, s)
               \/ Abort(p, s) \/ Read(p, s) \/ ReadEnd(p, s) \/ ShutdownMark(p, s)
    BY <1>n, NextCases
  <2>2. CASE OpenStream(p)
    <3>1. PICK e \in {"opening", "failed"} : ep' = [ep EXCEPT ![p][nextID[p]] = e]
      BY <2>2 DEF OpenStream
    <3>2. /\ registered' = registered \/ registered' = [registered EXCEPT ![p] = @ \cup {nextID[p]}]
          /\ nextID[p] \in StreamId
          /\ UNCHANGED <<marking, sentClose, readErr, cpc, apc, rl>>
      BY <2>2 DEF OpenStream, flagVars, pcVars
    <3>3. \A q \in Side, s \in StreamId : ep'[q][s] = "none" =>
            ep[q][s] = "none" /\ ~(q = p /\ s = nextID[p])
      BY <3>1, <3>2, <1>ep
    <3>4. \A q \in Side, s \in StreamId :
            ~(q = p /\ s = nextID[p]) /\ s \in registered'[q] => s \in registered[q]
      BY <3>2, <1>registered
    <3> QED BY <3>2, <3>3, <3>4 DEF PristineInv
  <2>3. CASE Shutdown(p)
    BY <2>3, <1>marking DEF Shutdown, PristineInv, flagVars, pcVars
  <2>4. CASE ShutdownEnd(p)
    BY <2>4 DEF ShutdownEnd, PristineInv, flagVars, pcVars
  <2>5. CASE ReadFail(p)
    BY <2>5, <1>rl DEF ReadFail, Exit, PristineInv, sessVars, flagVars, pcVars
  <2>6. CASE BreakConn(p)
    BY <2>6 DEF BreakConn, PristineInv, sessVars, flagVars, pcVars
  <2>7. ASSUME NEW s \in StreamId,
               \/ RecvOpen(p, s) \/ RecvData(p, s) \/ RecvClose(p, s) \/ RecvReset(p, s)
               \/ PushData(p, s) \/ PushDrop(p, s) \/ CloseCheck(p, s) \/ OpenFrame(p, s)
               \/ WriteFrame(p, s) \/ WriteAgain(p, s) \/ CloseFrame(p, s) \/ CloseRetire(p, s)
               \/ AbortFrame(p, s) \/ AbortFinish(p, s) \/ WriteLock(p, s) \/ CloseWrite(p, s)
               \/ Abort(p, s) \/ Read(p, s) \/ ReadEnd(p, s) \/ ShutdownMark(p, s)
         PROVE  PristineInv'
    <3>1. CASE RecvOpen(p, s)
      BY <3>1, <1>ep, <1>registered DEF RecvOpen, PristineInv, flagVars, pcVars
    <3>2. CASE RecvData(p, s)
      BY <3>2, <1>rl DEF RecvData, PristineInv, sessVars, flagVars, pcVars
    <3>3. CASE RecvClose(p, s)
      BY <3>3, <1>readErr, <1>rl
         DEF RecvClose, MarkReadDone, PristineInv, sessVars, flagVars, pcVars
    <3>4. CASE RecvReset(p, s)
      <4>1. CASE s \notin registered[p]
        BY <3>4, <4>1 DEF RecvReset, PristineInv, pcVars
      <4>2. CASE s \in registered[p]
        BY <3>4, <4>2, <1>registered, <1>readErr
           DEF RecvReset, MarkReadDone, Remove, PristineInv, pcVars
      <4> QED BY <4>1, <4>2
    <3>5. CASE PushData(p, s)
      BY <3>5, <1>rl DEF PushData, Idle, PristineInv, sessVars, flagVars, pcVars
    <3>6. CASE PushDrop(p, s)
      BY <3>6, <1>rl DEF PushDrop, Idle, PristineInv, sessVars, flagVars, pcVars
    <3>7. CASE CloseCheck(p, s)
      BY <3>7, <1>registered, <1>rl
         DEF CloseCheck, Remove, Idle, PristineInv, flagVars, pcVars
    <3>8. CASE OpenFrame(p, s)
      <4>1. PICK e \in {"live", "failed"} : ep' = [ep EXCEPT ![p][s] = e]
        BY <3>8 DEF OpenFrame
      <4>2. /\ registered' = registered \/ registered' = [registered EXCEPT ![p] = @ \ {s}]
            /\ UNCHANGED <<marking, sentClose, readErr, cpc, apc, rl>>
        BY <3>8 DEF OpenFrame, Remove, flagVars, pcVars
      <4>3. \A q \in Side, r \in StreamId : ep'[q][r] = "none" => ep[q][r] = "none"
        BY <4>1, <1>ep
      <4>4. \A q \in Side, r \in StreamId : r \in registered'[q] => r \in registered[q]
        BY <4>2, <1>registered
      <4> QED BY <4>2, <4>3, <4>4 DEF PristineInv
    <3>9. CASE WriteFrame(p, s)
      BY <3>9 DEF WriteFrame, PristineInv, sessVars, flagVars
    <3>10. CASE WriteAgain(p, s)
      BY <3>10 DEF WriteAgain, PristineInv, sessVars, flagVars
    <3>11. CASE CloseFrame(p, s)
      BY <3>11, <1>cpc DEF CloseFrame, PristineInv, sessVars, flagVars
    <3>12. CASE CloseRetire(p, s)
      BY <3>12, <1>registered, <1>cpc DEF CloseRetire, Remove, PristineInv, flagVars
    <3>13. CASE AbortFrame(p, s)
      BY <3>13, <1>apc DEF AbortFrame, PristineInv, sessVars, flagVars
    <3>14. CASE AbortFinish(p, s)
      BY <3>14, <1>registered, <1>readErr, <1>apc
         DEF AbortFinish, MarkReadDone, Remove, PristineInv
    <3>15. CASE WriteLock(p, s)
      BY <3>15 DEF WriteLock, PristineInv, sessVars, flagVars
    <3>16. CASE CloseWrite(p, s)
      BY <3>16, <1>sentClose, <1>cpc DEF CloseWrite, PristineInv, sessVars
    <3>17. CASE Abort(p, s)
      BY <3>17, <1>sentClose, <1>apc DEF Abort, PristineInv, sessVars
    <3>18. CASE Read(p, s)
      BY <3>18 DEF Read, PristineInv, sessVars, flagVars, pcVars
    <3>19. CASE ReadEnd(p, s)
      BY <3>19 DEF ReadEnd, PristineInv, sessVars, flagVars, pcVars
    <3>20. CASE ShutdownMark(p, s)
      BY <3>20, <1>marking, <1>readErr DEF ShutdownMark, MarkReadDone, PristineInv, pcVars
    <3> QED BY <2>7, <3>1, <3>2, <3>3, <3>4, <3>5, <3>6, <3>7, <3>8, <3>9, <3>10, <3>11, <3>12,
               <3>13, <3>14, <3>15, <3>16, <3>17, <3>18, <3>19, <3>20
  <2> QED BY <2>1, <2>2, <2>3, <2>4, <2>5, <2>6, <2>7
<1> QED BY <1>u, <1>n

\* Every action keeps RetireInv.
LEMMA RetireStep ==
  ASSUME TypeOK, OpenInv, PristineInv, RetireInv, [Next]_vars
  PROVE  RetireInv'
<1>registered. registered \in [Side -> SUBSET StreamId]
  BY DEF TypeOK, EndpointsOf
<1>sentClose. sentClose \in [Side -> [StreamId -> BOOLEAN]]
  BY DEF TypeOK, EndpointsOf
<1>readErr. readErr \in [Side -> [StreamId -> ReadErr]]
  BY DEF TypeOK, EndpointsOf
<1>cpc. cpc \in [Side -> [StreamId -> {"idle", "frame", "frameRetire", "retire"}]]
  BY DEF TypeOK, EndpointsOf
<1>apc. apc \in [Side -> [StreamId -> {"idle", "frame", "mark"}]]
  BY DEF TypeOK, EndpointsOf
<1>rl. rl \in [Side -> RLState]
  BY DEF TypeOK, EndpointsOf
<1>u. CASE UNCHANGED vars
  BY <1>u DEF RetireInv, vars, sessVars, connVars, flagVars, pcVars, readVars
<1>n. CASE Next
  <2>1. PICK p \in Side :
          \/ OpenStream(p) \/ Shutdown(p) \/ ShutdownEnd(p) \/ ReadFail(p) \/ BreakConn(p)
          \/ \E s \in StreamId :
               \/ RecvOpen(p, s) \/ RecvData(p, s) \/ RecvClose(p, s) \/ RecvReset(p, s)
               \/ PushData(p, s) \/ PushDrop(p, s) \/ CloseCheck(p, s) \/ OpenFrame(p, s)
               \/ WriteFrame(p, s) \/ WriteAgain(p, s) \/ CloseFrame(p, s) \/ CloseRetire(p, s)
               \/ AbortFrame(p, s) \/ AbortFinish(p, s) \/ WriteLock(p, s) \/ CloseWrite(p, s)
               \/ Abort(p, s) \/ Read(p, s) \/ ReadEnd(p, s) \/ ShutdownMark(p, s)
    BY <1>n, NextCases
  <2>2. CASE OpenStream(p)
    <3>1. /\ registered' = registered \/ registered' = [registered EXCEPT ![p] = @ \cup {nextID[p]}]
          /\ nextID[p] \in StreamId
          /\ UNCHANGED <<sentClose, readErr, cpc, apc, rl>>
      BY <2>2 DEF OpenStream, flagVars, pcVars
    <3>2. ~sentClose[p][nextID[p]]
      BY <2>2, <3>1, OpenStreamKeepsOpen DEF PristineInv
    <3>3. \A q \in Side, s \in StreamId :
            sentClose[q][s] /\ s \in registered'[q] => s \in registered[q]
      BY <3>1, <3>2, <1>registered
    <3> QED BY <3>1, <3>3 DEF RetireInv
  <2>3. CASE Shutdown(p)
    BY <2>3 DEF Shutdown, RetireInv, flagVars, pcVars
  <2>4. CASE ShutdownEnd(p)
    BY <2>4 DEF ShutdownEnd, RetireInv, flagVars, pcVars
  <2>5. CASE ReadFail(p)
    BY <2>5, <1>rl DEF ReadFail, Exit, RetireInv, sessVars, flagVars, pcVars
  <2>6. CASE BreakConn(p)
    BY <2>6 DEF BreakConn, RetireInv, sessVars, flagVars, pcVars
  <2>7. ASSUME NEW s \in StreamId,
               \/ RecvOpen(p, s) \/ RecvData(p, s) \/ RecvClose(p, s) \/ RecvReset(p, s)
               \/ PushData(p, s) \/ PushDrop(p, s) \/ CloseCheck(p, s) \/ OpenFrame(p, s)
               \/ WriteFrame(p, s) \/ WriteAgain(p, s) \/ CloseFrame(p, s) \/ CloseRetire(p, s)
               \/ AbortFrame(p, s) \/ AbortFinish(p, s) \/ WriteLock(p, s) \/ CloseWrite(p, s)
               \/ Abort(p, s) \/ Read(p, s) \/ ReadEnd(p, s) \/ ShutdownMark(p, s)
         PROVE  RetireInv'
    <3>1. CASE RecvOpen(p, s)
      <4>1. /\ registered' = registered \/ registered' = [registered EXCEPT ![p] = @ \cup {s}]
            /\ UNCHANGED <<sentClose, readErr, cpc, apc, rl>>
        BY <3>1 DEF RecvOpen, flagVars, pcVars
      <4>2. ~sentClose[p][s]
        BY <3>1, RecvOpenKeepsOpen DEF PristineInv
      <4>3. \A q \in Side, r \in StreamId :
              sentClose[q][r] /\ r \in registered'[q] => r \in registered[q]
        BY <4>1, <4>2, <1>registered
      <4> QED BY <4>1, <4>3 DEF RetireInv
    <3>2. CASE RecvData(p, s)
      <4>1. UNCHANGED <<registered, sentClose, readErr, cpc, apc>>
        BY <3>2 DEF RecvData, sessVars, flagVars, pcVars
      <4>2. rl[p].pc = "idle" /\ \A q \in Side : q # p => rl'[q] = rl[q]
        BY <3>2, <1>rl DEF RecvData, Take
      <4> QED BY <4>1, <4>2 DEF RetireInv
    <3>3. CASE RecvClose(p, s)
      <4>1. CASE s \notin registered[p]
        BY <3>3, <4>1 DEF RecvClose, RetireInv, sessVars, flagVars, pcVars
      <4>2. CASE s \in registered[p]
        <5>1. /\ UNCHANGED <<registered, sentClose, cpc, apc>>
              /\ readErr' = [readErr EXCEPT ![p][s] = IF @ = "none" THEN "EOF" ELSE @]
              /\ rl' = [rl EXCEPT ![p] = [pc |-> "close", id |-> s, data |-> 0]]
          BY <3>3, <4>2 DEF RecvClose, MarkReadDone, sessVars, flagVars, pcVars
        <5>2. rl[p].pc = "idle" /\ rl'[p].pc = "close" /\ rl'[p].id = s
          BY <3>3, <5>1, <1>rl DEF RecvClose, Take
        <5>3. \A q \in Side, r \in StreamId :
                ~(q = p /\ r = s) => readErr'[q][r] = readErr[q][r]
          BY <5>1, <1>readErr
        <5>4. \A q \in Side : q # p => rl'[q] = rl[q]
          BY <5>1, <1>rl
        <5> QED BY <5>1, <5>2, <5>3, <5>4 DEF RetireInv
      <4> QED BY <4>1, <4>2
    <3>4. CASE RecvReset(p, s)
      BY <3>4, <1>registered, <1>readErr, SMTT(30)
         DEF RecvReset, MarkReadDone, Remove, RetireInv, pcVars
    <3>5. CASE PushData(p, s)
      BY <3>5, <1>rl DEF PushData, Idle, RetireInv, sessVars, flagVars, pcVars
    <3>6. CASE PushDrop(p, s)
      BY <3>6, <1>rl DEF PushDrop, Idle, RetireInv, sessVars, flagVars, pcVars
    <3>7. CASE CloseCheck(p, s)
      BY <3>7, <1>registered, <1>rl
         DEF CloseCheck, Remove, Idle, RetireInv, flagVars, pcVars
    <3>8. CASE OpenFrame(p, s)
      BY <3>8, <1>registered DEF OpenFrame, Remove, RetireInv, flagVars, pcVars
    <3>9. CASE WriteFrame(p, s)
      BY <3>9 DEF WriteFrame, RetireInv, sessVars, flagVars
    <3>10. CASE WriteAgain(p, s)
      BY <3>10 DEF WriteAgain, RetireInv, sessVars, flagVars
    <3>11. CASE CloseFrame(p, s)
      BY <3>11, <1>cpc DEF CloseFrame, RetireInv, sessVars, flagVars
    <3>12. CASE CloseRetire(p, s)
      BY <3>12, <1>registered, <1>cpc DEF CloseRetire, Remove, RetireInv, flagVars
    <3>13. CASE AbortFrame(p, s)
      BY <3>13, <1>apc DEF AbortFrame, RetireInv, sessVars, flagVars
    <3>14. CASE AbortFinish(p, s)
      BY <3>14, <1>registered, <1>readErr, <1>apc
         DEF AbortFinish, MarkReadDone, Remove, RetireInv
    <3>15. CASE WriteLock(p, s)
      BY <3>15 DEF WriteLock, RetireInv, sessVars, flagVars
    <3>16. CASE CloseWrite(p, s)
      BY <3>16, <1>sentClose, <1>cpc DEF CloseWrite, ReadDone, RetireInv, sessVars
    <3>17. CASE Abort(p, s)
      BY <3>17, <1>sentClose, <1>apc DEF Abort, RetireInv, sessVars
    <3>18. CASE Read(p, s)
      BY <3>18 DEF Read, RetireInv, sessVars, flagVars, pcVars
    <3>19. CASE ReadEnd(p, s)
      BY <3>19 DEF ReadEnd, RetireInv, sessVars, flagVars, pcVars
    <3>20. CASE ShutdownMark(p, s)
      BY <3>20, <1>readErr DEF ShutdownMark, MarkReadDone, RetireInv, pcVars
    <3> QED BY <2>7, <3>1, <3>2, <3>3, <3>4, <3>5, <3>6, <3>7, <3>8, <3>9, <3>10, <3>11, <3>12,
               <3>13, <3>14, <3>15, <3>16, <3>17, <3>18, <3>19, <3>20
  <2> QED BY <2>1, <2>2, <2>3, <2>4, <2>5, <2>6, <2>7
<1> QED BY <1>u, <1>n

\* No stream exists at the start and nothing is on the connection.
LEMMA RetireInit == Init => OpenInv /\ PristineInv /\ RetireInv
<1> SUFFICES ASSUME Init PROVE OpenInv /\ PristineInv /\ RetireInv
  OBVIOUS
<1>1. OpenSetInv
  <2>1. \A p \in Side : Owns(p, nextID[p])
    BY DEF Init, Owns, FirstID, Side
  <2>2. \A p \in Side, s \in StreamId : ep[p][s] = "none"
    BY DEF Init, All
  <2> QED BY <2>1, <2>2, PeerType DEF OpenSetInv
<1>2. WireOpenInv /\ UniqueOpenInv
  BY DEF Init, WireOpenInv, UniqueOpenInv
<1>3. PristineInv /\ RetireInv
  BY DEF Init, PristineInv, RetireInv, All, Idle
<1> QED BY <1>1, <1>2, <1>3 DEF OpenInv

\* Session.streams does not leak: a stream both of whose directions ended cleanly
\* is unregistered as soon as no call that will do it is under way, whichever of
\* CloseWrite and remoteClose came second and wherever they interleaved.
THEOREM ClosedStreamsLeaveTheMap == Spec => []ClosedBothWaysRetired
<1> DEFINE IInv == TypeOK /\ OpenInv /\ PristineInv /\ RetireInv
<1>1. IInv /\ [Next]_vars => IInv'
  BY TypeStep, OpenStep, PristineStep, RetireStep
<1>2. Init => IInv
  BY TypeInit, RetireInit
<1>3. IInv => ClosedBothWaysRetired
  BY DEF RetireInv, ClosedBothWaysRetired
<1> QED BY <1>1, <1>2, <1>3, PTL DEF Spec
=============================================================================
