---------------------------- MODULE MuxOrderProofs ----------------------------
(***************************************************************************)
(* Theorems about what MuxStream delivers: the order of the frames on the  *)
(* connection, why a stream counts as aborted, and that the two sessions   *)
(* together implement ByteStream, for any set of streams, any bounds and   *)
(* any faults.                                                             *)
(***************************************************************************)
EXTENDS MuxStreamProofs

-----------------------------------------------------------------------------
(* The connection.                                                         *)

\* A frame that is written comes last; the other direction is untouched.
LEMMA Emitted ==
  ASSUME TypeOK, NEW p \in Side, NEW s \in StreamId, NEW k \in Nat,
         NEW t \in {"OPEN", "DATA", "CLOSE", "RESET"}, Emit(p, t, s, k)
  PROVE  /\ \A q \in Side : q # p => wire'[q] = wire[q]
         /\ Len(wire[p]) \in Nat /\ Len(wire'[p]) = Len(wire[p]) + 1
         /\ \A i \in 1 .. Len(wire[p]) : wire'[p][i] = wire[p][i]
         /\ wire'[p][Len(wire[p]) + 1].type = t /\ wire'[p][Len(wire[p]) + 1].id = s
         /\ wire'[p][Len(wire[p]) + 1].data = k
         /\ ~closed[p]
<1>1. wire \in [Side -> Seq(Frame)] /\ [type |-> t, id |-> s, data |-> k] \in Frame
  BY DEF TypeOK, Frame
<1>2. wire' = [wire EXCEPT ![p] = Append(wire[p], [type |-> t, id |-> s, data |-> k])] /\ ~closed[p]
  BY DEF Emit
<1> QED BY <1>1, <1>2

\* The frame readFrame returns was the first; the others move up by one.
LEMMA Took ==
  ASSUME TypeOK, NEW p \in Side, NEW s \in StreamId, NEW t, Take(p, t, s)
  PROVE  LET q == Peer(p) IN
         /\ q \in Side /\ q # p /\ Peer(q) = p
         /\ wire'[p] = wire[p] /\ rl[p].pc = "idle"
         /\ Len(wire[q]) \in Nat \ {0} /\ Len(wire'[q]) = Len(wire[q]) - 1
         /\ Head(wire[q]) = wire[q][1] /\ wire[q][1].type = t /\ wire[q][1].id = s
         /\ \A i \in 1 .. Len(wire'[q]) :
              wire'[q][i] = wire[q][i + 1] /\ i + 1 \in 1 .. Len(wire[q])
<1> DEFINE q == Peer(p)
<1>1. wire \in [Side -> Seq(Frame)] /\ q \in Side /\ q # p /\ Peer(q) = p
  BY PeerType DEF TypeOK
<1>2. /\ wire' = [wire EXCEPT ![q] = Tail(wire[q])] /\ wire[q] # <<>> /\ rl[p].pc = "idle"
      /\ Head(wire[q]).type = t /\ Head(wire[q]).id = s
  BY DEF Take
<1> HIDE DEF q
<1>3. /\ Len(wire[q]) \in Nat \ {0} /\ Head(wire[q]) = wire[q][1]
      /\ Len(Tail(wire[q])) = Len(wire[q]) - 1
      /\ \A i \in 1 .. Len(Tail(wire[q])) :
           Tail(wire[q])[i] = wire[q][i + 1] /\ i + 1 \in 1 .. Len(wire[q])
  BY <1>1, <1>2
<1>4. wire'[q] = Tail(wire[q]) /\ wire'[p] = wire[p]
  BY <1>1, <1>2
<1> QED BY <1>1, <1>2, <1>3, <1>4 DEF q

\* What is on the connection after a write that may have failed.
LEMMA EmittedFrames ==
  ASSUME TypeOK, NEW p \in Side, NEW s \in StreamId, NEW k \in Nat,
         NEW t \in {"OPEN", "DATA", "CLOSE", "RESET"}, Emit(p, t, s, k) \/ EmitFails(p)
  PROVE  \A q \in Side : \A i \in 1 .. Len(wire'[q]) :
           \/ i \in 1 .. Len(wire[q]) /\ wire'[q][i] = wire[q][i]
           \/ q = p /\ wire'[q][i].type = t /\ wire'[q][i].id = s /\ wire'[q][i].data = k
<1>1. CASE EmitFails(p)
  BY <1>1 DEF EmitFails, connVars
<1>2. CASE Emit(p, t, s, k)
  <2>1. /\ \A q \in Side : q # p => wire'[q] = wire[q]
        /\ Len(wire[p]) \in Nat /\ Len(wire'[p]) = Len(wire[p]) + 1
        /\ \A i \in 1 .. Len(wire[p]) : wire'[p][i] = wire[p][i]
        /\ wire'[p][Len(wire[p]) + 1].type = t /\ wire'[p][Len(wire[p]) + 1].id = s
        /\ wire'[p][Len(wire[p]) + 1].data = k
    BY <1>2, Emitted
  <2>2. ASSUME NEW i \in 1 .. Len(wire'[p])
        PROVE  i \in 1 .. Len(wire[p]) \/ i = Len(wire[p]) + 1
    BY <2>1
  <2> QED BY <2>1, <2>2
<1> QED BY <1>1, <1>2

\* What is on the connection after a read was there before.
LEMMA TookFrames ==
  ASSUME TypeOK, NEW p \in Side, NEW s \in StreamId, NEW t, Take(p, t, s)
  PROVE  \A q \in Side : \A i \in 1 .. Len(wire'[q]) : \E j \in 1 .. Len(wire[q]) :
           wire'[q][i] = wire[q][j]
<1>1. \A q \in Side : q = p \/ q = Peer(p)
  BY DEF Side, Peer
<1>2. wire'[p] = wire[p]
  BY Took
<1>3. \A i \in 1 .. Len(wire'[Peer(p)]) :
        wire'[Peer(p)][i] = wire[Peer(p)][i + 1] /\ i + 1 \in 1 .. Len(wire[Peer(p)])
  BY Took
<1> QED BY <1>1, <1>2, <1>3

\* The flags of the streams are functions of the end and the stream.
LEMMA EndpointTypes ==
  ASSUME TypeOK
  PROVE  /\ wire \in [Side -> Seq(Frame)] /\ rl \in [Side -> RLState]
         /\ closed \in [Side -> BOOLEAN] /\ marking \in [Side -> SUBSET StreamId]
         /\ registered \in [Side -> SUBSET StreamId]
         /\ ep \in [Side -> [StreamId -> {"none", "opening", "live", "failed"}]]
         /\ chunks \in [Side -> [StreamId -> Seq(Nat)]]
         /\ got \in [Side -> [StreamId -> Seq(Nat)]]
         /\ readErr \in [Side -> [StreamId -> ReadErr]]
         /\ rres \in [Side -> [StreamId -> ReadErr]]
         /\ sentClose \in [Side -> [StreamId -> BOOLEAN]]
         /\ reset \in [Side -> [StreamId -> BOOLEAN]]
         /\ aborted \in [Side -> [StreamId -> BOOLEAN]]
         /\ wpc \in [Side -> [StreamId -> {"idle", "frame", "more"}]]
         /\ cpc \in [Side -> [StreamId -> {"idle", "frame", "frameRetire", "retire"}]]
         /\ apc \in [Side -> [StreamId -> {"idle", "frame", "mark"}]]
         /\ sent \in [Side -> [StreamId -> Nat]]
         /\ \A q \in Side : \A i \in 1 .. Len(wire[q]) :
              wire[q][i] \in Frame /\ wire[q][i].id \in StreamId /\ wire[q][i].data \in Nat
<1>1. \A f \in Frame : f.id \in StreamId /\ f.data \in Nat
  BY DEF Frame
<1>2. wire \in [Side -> Seq(Frame)]
  BY DEF TypeOK
<1>3. \A q \in Side : \A i \in 1 .. Len(wire[q]) : wire[q][i] \in Frame
  BY <1>2
<1> QED BY <1>1, <1>2, <1>3 DEF TypeOK, EndpointsOf

-----------------------------------------------------------------------------
(* Only Abort and shutdown close Aborted.                                  *)

\* A RESET on the connection, an Abort under way and a stream shutdown collected
\* are the three things that will close Aborted: each has its abnormal cause.
AbortInv ==
  /\ AbortedIsAbnormal
  /\ \A p \in Side, s \in StreamId :
       /\ apc[p][s] # "idle" => reset[p][s] /\ sentClose[p][s]
       /\ s \in marking[p] => closed[p]
  /\ \A q \in Side : \A i \in 1 .. Len(wire[q]) :
       wire[q][i].type = "RESET" => reset[q][wire[q][i].id] /\ sentClose[q][wire[q][i].id]

\* Every action keeps AbortInv.
LEMMA AbortStep ==
  ASSUME TypeOK, AbortInv, [Next]_vars
  PROVE  AbortInv'
<1>u. CASE UNCHANGED vars
  BY <1>u
     DEF AbortInv, AbortedIsAbnormal, vars, sessVars, connVars, flagVars, pcVars, readVars
<1>n. CASE Next
  <2>1. PICK p \in Side :
          \/ OpenStream(p) \/ Shutdown(p) \/ ShutdownEnd(p) \/ ReadFail(p) \/ BreakConn(p)
          \/ \E s \in StreamId :
               \/ RecvOpen(p, s) \/ RecvData(p, s) \/ RecvClose(p, s) \/ RecvReset(p, s)
               \/ PushData(p, s) \/ PushDrop(p, s) \/ CloseCheck(p, s) \/ OpenFrame(p, s)
               \/ WriteFrame(p, s) \/ WriteAgain(p, s) \/ CloseFrame(p, s) \/ CloseRetire(p, s)
               \/ AbortFrame(p, s) \/ AbortFinish(p, s) \/ WriteLock(p, s) \/ CloseWrite(p, s)
               \/ Abort(p, s) \/ Read(p, s) \/ ReadEnd(p, s) \/ ShutdownMark(p, s)
    BY <1>n, NextCases
  <2>2. CASE OpenStream(p)
    BY <2>2
       DEF OpenStream, AbortInv, AbortedIsAbnormal, sessVars, connVars, flagVars, pcVars, readVars
  <2>3. CASE Shutdown(p)
    BY <2>3, EndpointTypes
       DEF Shutdown, AbortInv, AbortedIsAbnormal, sessVars, connVars, flagVars, pcVars, readVars
  <2>4. CASE ShutdownEnd(p)
    BY <2>4
       DEF ShutdownEnd, AbortInv, AbortedIsAbnormal, sessVars, connVars, flagVars, pcVars, readVars
  <2>5. CASE ReadFail(p)
    BY <2>5
       DEF ReadFail, AbortInv, AbortedIsAbnormal, sessVars, connVars, flagVars, pcVars, readVars
  <2>6. CASE BreakConn(p)
    BY <2>6
       DEF BreakConn, AbortInv, AbortedIsAbnormal, sessVars, connVars, flagVars, pcVars, readVars
  <2>7. ASSUME NEW s \in StreamId,
               \/ RecvOpen(p, s) \/ RecvData(p, s) \/ RecvClose(p, s) \/ RecvReset(p, s)
               \/ PushData(p, s) \/ PushDrop(p, s) \/ CloseCheck(p, s) \/ OpenFrame(p, s)
               \/ WriteFrame(p, s) \/ WriteAgain(p, s) \/ CloseFrame(p, s) \/ CloseRetire(p, s)
               \/ AbortFrame(p, s) \/ AbortFinish(p, s) \/ WriteLock(p, s) \/ CloseWrite(p, s)
               \/ Abort(p, s) \/ Read(p, s) \/ ReadEnd(p, s) \/ ShutdownMark(p, s)
         PROVE  AbortInv'
    <3>1. CASE RecvOpen(p, s)
      <4>1. \A q \in Side : \A i \in 1 .. Len(wire'[q]) : \E j \in 1 .. Len(wire[q]) :
              wire'[q][i] = wire[q][j]
        BY <3>1, TookFrames DEF RecvOpen
      <4>2. UNCHANGED <<aborted, reset, sentClose, closed, apc, marking>>
        BY <3>1 DEF RecvOpen, sessVars, flagVars, pcVars
      <4> QED BY <4>1, <4>2, SMTT(30) DEF AbortInv, AbortedIsAbnormal
    <3>2. CASE RecvData(p, s)
      <4>1. \A q \in Side : \A i \in 1 .. Len(wire'[q]) : \E j \in 1 .. Len(wire[q]) :
              wire'[q][i] = wire[q][j]
        BY <3>2, TookFrames DEF RecvData
      <4>2. UNCHANGED <<aborted, reset, sentClose, closed, apc, marking>>
        BY <3>2 DEF RecvData, sessVars, flagVars, pcVars
      <4> QED BY <4>1, <4>2, SMTT(30) DEF AbortInv, AbortedIsAbnormal
    <3>3. CASE RecvClose(p, s)
      <4>1. \A q \in Side : \A i \in 1 .. Len(wire'[q]) : \E j \in 1 .. Len(wire[q]) :
              wire'[q][i] = wire[q][j]
        BY <3>3, TookFrames DEF RecvClose
      <4>2. UNCHANGED <<aborted, reset, sentClose, closed, apc, marking>>
        BY <3>3 DEF RecvClose, sessVars, flagVars, pcVars
      <4> QED BY <4>1, <4>2, SMTT(30) DEF AbortInv, AbortedIsAbnormal
    <3>4. CASE RecvReset(p, s)
      <4>1. \A q \in Side : \A i \in 1 .. Len(wire'[q]) : \E j \in 1 .. Len(wire[q]) :
              wire'[q][i] = wire[q][j]
        BY <3>4, TookFrames DEF RecvReset
      <4>2. UNCHANGED <<sentClose, closed, apc, marking>>
        BY <3>4 DEF RecvReset, pcVars
      <4>3. \A q \in Side, r \in StreamId :
              /\ reset[q][r] => reset'[q][r]
              /\ aborted'[q][r] => aborted[q][r] \/ (q = p /\ r = s)
        BY <3>4, EndpointTypes DEF RecvReset, SignalAbort
      <4>4. Peer(p) \in Side /\ reset[Peer(p)][s] /\ sentClose[Peer(p)][s]
        BY <3>4, Took DEF RecvReset, AbortInv
      <4>5. \A q \in Side : \A i \in 1 .. Len(wire[q]) : wire[q][i].id \in StreamId
        BY EndpointTypes
      <4>6. AbortedIsAbnormal'
        BY <4>2, <4>3, <4>4 DEF AbortInv, AbortedIsAbnormal
      <4>7. ASSUME NEW q \in Side, NEW i \in 1 .. Len(wire'[q]), wire'[q][i].type = "RESET"
            PROVE  reset'[q][wire'[q][i].id] /\ sentClose'[q][wire'[q][i].id]
        <5>1. PICK j \in 1 .. Len(wire[q]) : wire'[q][i] = wire[q][j]
          BY <4>1
        <5> QED BY <4>2, <4>3, <4>5, <4>7, <5>1 DEF AbortInv
      <4> QED BY <4>2, <4>3, <4>6, <4>7 DEF AbortInv
    <3>5. CASE PushData(p, s)
      BY <3>5
         DEF PushData, AbortInv, AbortedIsAbnormal, sessVars, connVars, flagVars, pcVars, readVars
    <3>6. CASE PushDrop(p, s)
      BY <3>6
         DEF PushDrop, AbortInv, AbortedIsAbnormal, sessVars, connVars, flagVars, pcVars, readVars
    <3>7. CASE CloseCheck(p, s)
      BY <3>7
         DEF CloseCheck, AbortInv, AbortedIsAbnormal, sessVars, connVars, flagVars, pcVars, readVars
    <3>8. CASE OpenFrame(p, s)
      <4>0. Emit(p, "OPEN", s, 0) \/ EmitFails(p)
        BY <3>8 DEF OpenFrame
      <4>1. \A q \in Side : \A i \in 1 .. Len(wire'[q]) :
              \/ i \in 1 .. Len(wire[q]) /\ wire'[q][i] = wire[q][i]
              \/ q = p /\ wire'[q][i].type = "OPEN" /\ wire'[q][i].id = s
        BY <4>0, EmittedFrames
      <4>2. UNCHANGED <<aborted, reset, sentClose, closed, marking>>
        BY <3>8 DEF OpenFrame, sessVars, flagVars
      <4>3. apc' = apc
        BY <3>8 DEF OpenFrame, pcVars
      <4> QED BY <4>1, <4>2, <4>3 DEF AbortInv, AbortedIsAbnormal
    <3>9. CASE WriteFrame(p, s)
      <4>0. Emit(p, "DATA", s, sent[p][s] + 1) \/ EmitFails(p)
        BY <3>9 DEF WriteFrame
      <4>1. \A q \in Side : \A i \in 1 .. Len(wire'[q]) :
              \/ i \in 1 .. Len(wire[q]) /\ wire'[q][i] = wire[q][i]
              \/ q = p /\ wire'[q][i].type = "DATA" /\ wire'[q][i].id = s
        <5>1. sent[p][s] + 1 \in Nat
          BY EndpointTypes
        <5> QED BY <4>0, <5>1, EmittedFrames
      <4>2. UNCHANGED <<aborted, reset, sentClose, closed, marking>>
        BY <3>9 DEF WriteFrame, sessVars, flagVars
      <4>3. apc' = apc
        BY <3>9 DEF WriteFrame, pcVars
      <4> QED BY <4>1, <4>2, <4>3 DEF AbortInv, AbortedIsAbnormal
    <3>10. CASE WriteAgain(p, s)
      BY <3>10
         DEF WriteAgain, AbortInv, AbortedIsAbnormal, sessVars, connVars, flagVars, pcVars, readVars
    <3>11. CASE CloseFrame(p, s)
      <4>0. Emit(p, "CLOSE", s, 0) \/ EmitFails(p)
        BY <3>11 DEF CloseFrame
      <4>1. \A q \in Side : \A i \in 1 .. Len(wire'[q]) :
              \/ i \in 1 .. Len(wire[q]) /\ wire'[q][i] = wire[q][i]
              \/ q = p /\ wire'[q][i].type = "CLOSE" /\ wire'[q][i].id = s
        BY <4>0, EmittedFrames
      <4>2. UNCHANGED <<aborted, reset, sentClose, closed, marking>>
        BY <3>11 DEF CloseFrame, sessVars, flagVars
      <4>3. apc' = apc
        BY <3>11 DEF CloseFrame, pcVars
      <4> QED BY <4>1, <4>2, <4>3 DEF AbortInv, AbortedIsAbnormal
    <3>12. CASE CloseRetire(p, s)
      BY <3>12
         DEF CloseRetire, AbortInv, AbortedIsAbnormal, sessVars, connVars, flagVars,
             pcVars, readVars
    <3>13. CASE AbortFrame(p, s)
      <4>0. Emit(p, "RESET", s, 0) \/ EmitFails(p)
        BY <3>13 DEF AbortFrame
      <4>1. \A q \in Side : \A i \in 1 .. Len(wire'[q]) :
              \/ i \in 1 .. Len(wire[q]) /\ wire'[q][i] = wire[q][i]
              \/ q = p /\ wire'[q][i].type = "RESET" /\ wire'[q][i].id = s
        BY <4>0, EmittedFrames
      <4>2. UNCHANGED <<aborted, reset, sentClose, closed, marking>>
        BY <3>13 DEF AbortFrame, sessVars, flagVars
      <4>3. /\ apc[p][s] # "idle"
            /\ \A q \in Side, r \in StreamId : apc'[q][r] # "idle" => apc[q][r] # "idle"
        BY <3>13, EndpointTypes DEF AbortFrame
      <4>4. reset[p][s] /\ sentClose[p][s]
        BY <4>3 DEF AbortInv
      <4>5. AbortedIsAbnormal'
        BY <4>2 DEF AbortInv, AbortedIsAbnormal
      <4>6. ASSUME NEW q \in Side, NEW i \in 1 .. Len(wire'[q]), wire'[q][i].type = "RESET"
            PROVE  reset'[q][wire'[q][i].id] /\ sentClose'[q][wire'[q][i].id]
        <5>1. CASE i \in 1 .. Len(wire[q]) /\ wire'[q][i] = wire[q][i]
          BY <4>2, <4>6, <5>1 DEF AbortInv
        <5>2. CASE q = p /\ wire'[q][i].id = s
          BY <4>2, <4>4, <5>2
        <5> QED BY <4>1, <5>1, <5>2
      <4> QED BY <4>2, <4>3, <4>5, <4>6 DEF AbortInv
    <3>14. CASE AbortFinish(p, s)
      BY <3>14, EndpointTypes
         DEF AbortFinish, SignalAbort, AbortInv, AbortedIsAbnormal, connVars
    <3>15. CASE WriteLock(p, s)
      BY <3>15
         DEF WriteLock, AbortInv, AbortedIsAbnormal, sessVars, connVars, flagVars, pcVars, readVars
    <3>16. CASE CloseWrite(p, s)
      <4>1. /\ UNCHANGED <<aborted, closed, marking, wire, reset, apc>>
            /\ sentClose' = sentClose \/ sentClose' = [sentClose EXCEPT ![p][s] = TRUE]
        BY <3>16 DEF CloseWrite, connVars, sessVars
      <4>2. \A q \in Side, r \in StreamId : sentClose[q][r] => sentClose'[q][r]
        <5>1. sentClose \in [Side -> [StreamId -> BOOLEAN]]
          BY EndpointTypes
        <5> QED BY <4>1, <5>1
      <4>3. \A q \in Side : \A i \in 1 .. Len(wire[q]) : wire[q][i].id \in StreamId
        BY EndpointTypes
      <4> QED BY <4>1, <4>2, <4>3 DEF AbortInv, AbortedIsAbnormal
    <3>17. CASE Abort(p, s)
      <4>1. UNCHANGED <<aborted, closed, marking, wire>>
        BY <3>17 DEF Abort, connVars, sessVars
      <4>2. \A q \in Side, r \in StreamId :
              /\ reset[q][r] => reset'[q][r]
              /\ sentClose[q][r] => sentClose'[q][r]
              /\ apc'[q][r] # "idle" => apc[q][r] # "idle" \/ (reset'[q][r] /\ sentClose'[q][r])
        BY <3>17, EndpointTypes DEF Abort
      <4>3. \A q \in Side : \A i \in 1 .. Len(wire[q]) : wire[q][i].id \in StreamId
        BY EndpointTypes
      <4> QED BY <4>1, <4>2, <4>3 DEF AbortInv, AbortedIsAbnormal
    <3>18. CASE Read(p, s)
      BY <3>18
         DEF Read, AbortInv, AbortedIsAbnormal, sessVars, connVars, flagVars, pcVars, readVars
    <3>19. CASE ReadEnd(p, s)
      BY <3>19
         DEF ReadEnd, AbortInv, AbortedIsAbnormal, sessVars, connVars, flagVars, pcVars, readVars
    <3>20. CASE ShutdownMark(p, s)
      <4>1. /\ UNCHANGED <<closed, wire, sentClose, reset, apc>> /\ s \in marking[p]
            /\ aborted' = [aborted EXCEPT ![p][s] = TRUE]
            /\ marking' = [marking EXCEPT ![p] = @ \ {s}]
        BY <3>20 DEF ShutdownMark, SignalAbort, connVars, pcVars
      <4>2. \A q \in Side, r \in StreamId : aborted'[q][r] => aborted[q][r] \/ (q = p /\ r = s)
        BY <4>1, EndpointTypes
      <4>3. marking \in [Side -> SUBSET StreamId]
        BY EndpointTypes
      <4>4. \A q \in Side : marking'[q] \subseteq marking[q]
        BY <4>1, <4>3
      <4> QED BY <4>1, <4>2, <4>4 DEF AbortInv, AbortedIsAbnormal
    <3> QED BY <2>7, <3>1, <3>2, <3>3, <3>4, <3>5, <3>6, <3>7, <3>8, <3>9, <3>10,
               <3>11, <3>12, <3>13, <3>14, <3>15, <3>16, <3>17, <3>18, <3>19, <3>20
  <2> QED BY <2>1, <2>2, <2>3, <2>4, <2>5, <2>6, <2>7
<1> QED BY <1>u, <1>n

-----------------------------------------------------------------------------
(* What the sender has put on the connection.                              *)

\* End q has sent all it will ever send on stream s.
Finished(q, s) == sentClose[q][s] /\ wpc[q][s] = "idle"

\* Write and CloseWrite run on streams that were handed out, and CloseWrite has
\* refused further writes before it waits for Stream.wmu.
SendInv ==
  \A q \in Side, s \in StreamId :
    /\ wpc[q][s] # "idle" => ep[q][s] = "live"
    /\ cpc[q][s] \in {"frame", "frameRetire"} => sentClose[q][s]

\* CLOSE comes when no write can follow; DATA is numbered in the order written.
WireSentInv ==
  \A q \in Side : \A i \in 1 .. Len(wire[q]) :
    /\ wire[q][i].type = "CLOSE" => Finished(q, wire[q][i].id)
    /\ wire[q][i].type = "DATA" => wire[q][i].data <= sent[q][wire[q][i].id]

\* DATA frames of a stream come in the order of their numbers, none after CLOSE.
WireOrderInv ==
  \A q \in Side : \A i, j \in 1 .. Len(wire[q]) :
    i < j /\ wire[q][i].id = wire[q][j].id /\ wire[q][j].type = "DATA" =>
      /\ wire[q][i].type # "CLOSE"
      /\ wire[q][i].type = "DATA" => wire[q][i].data < wire[q][j].data

\* The i-th frame on the way from q opens stream s.
Opens(q, i, s) == wire[q][i].type = "OPEN" /\ wire[q][i].id = s

\* A stream is handed out at the end that sent its OPEN, and the OPEN of one that
\* its receiver may still learn of is under way, with every DATA behind it.
WireLiveInv ==
  /\ \A q \in Side, s \in StreamId : \A i \in 1 .. Len(wire[q]) :
       Opens(q, i, s) => ep[q][s] = "live"
  /\ \A q \in Side, s \in StreamId :
       ep[Peer(q)][s] = "none" /\ ~closed[Peer(q)] =>
         /\ ep[q][s] = "live" => \E i \in 1 .. Len(wire[q]) : Opens(q, i, s)
         /\ \A j \in 1 .. Len(wire[q]) :
              wire[q][j].type = "DATA" /\ wire[q][j].id = s =>
                \E i \in 1 .. Len(wire[q]) : i < j /\ Opens(q, i, s)

\* Every action keeps SendInv.
LEMMA SendStep ==
  ASSUME TypeOK, OpenInv, SendInv, [Next]_vars
  PROVE  SendInv'
<1>u. CASE UNCHANGED vars
  BY <1>u DEF SendInv, vars, sessVars, connVars, flagVars, pcVars, readVars
<1>n. CASE Next
  <2>1. PICK p \in Side :
          \/ OpenStream(p) \/ Shutdown(p) \/ ShutdownEnd(p) \/ ReadFail(p) \/ BreakConn(p)
          \/ \E s \in StreamId :
               \/ RecvOpen(p, s) \/ RecvData(p, s) \/ RecvClose(p, s) \/ RecvReset(p, s)
               \/ PushData(p, s) \/ PushDrop(p, s) \/ CloseCheck(p, s) \/ OpenFrame(p, s)
               \/ WriteFrame(p, s) \/ WriteAgain(p, s) \/ CloseFrame(p, s) \/ CloseRetire(p, s)
               \/ AbortFrame(p, s) \/ AbortFinish(p, s) \/ WriteLock(p, s) \/ CloseWrite(p, s)
               \/ Abort(p, s) \/ Read(p, s) \/ ReadEnd(p, s) \/ ShutdownMark(p, s)
    BY <1>n, NextCases
  <2>2. CASE OpenStream(p)
    <3>1. /\ nextID[p] \in StreamId /\ ep[p][nextID[p]] = "none" /\ UNCHANGED <<wpc, cpc, sentClose>>
          /\ \E e \in {"opening", "failed"} : ep' = [ep EXCEPT ![p][nextID[p]] = e]
      BY <2>2, OpenStreamKeepsOpen DEF OpenStream, flagVars, pcVars
    <3>2. ep \in [Side -> [StreamId -> {"none", "opening", "live", "failed"}]]
      BY EndpointTypes
    <3>3. \A q \in Side, r \in StreamId : ep[q][r] = "live" => ep'[q][r] = "live"
      BY <3>1, <3>2
    <3> QED BY <3>1, <3>3 DEF SendInv
  <2>3. CASE Shutdown(p)
    BY <2>3 DEF Shutdown, SendInv, sessVars, connVars, flagVars, pcVars, readVars
  <2>4. CASE ShutdownEnd(p)
    BY <2>4 DEF ShutdownEnd, SendInv, sessVars, connVars, flagVars, pcVars, readVars
  <2>5. CASE ReadFail(p)
    BY <2>5 DEF ReadFail, SendInv, sessVars, connVars, flagVars, pcVars, readVars
  <2>6. CASE BreakConn(p)
    BY <2>6 DEF BreakConn, SendInv, sessVars, connVars, flagVars, pcVars, readVars
  <2>7. ASSUME NEW s \in StreamId,
               \/ RecvOpen(p, s) \/ RecvData(p, s) \/ RecvClose(p, s) \/ RecvReset(p, s)
               \/ PushData(p, s) \/ PushDrop(p, s) \/ CloseCheck(p, s) \/ OpenFrame(p, s)
               \/ WriteFrame(p, s) \/ WriteAgain(p, s) \/ CloseFrame(p, s) \/ CloseRetire(p, s)
               \/ AbortFrame(p, s) \/ AbortFinish(p, s) \/ WriteLock(p, s) \/ CloseWrite(p, s)
               \/ Abort(p, s) \/ Read(p, s) \/ ReadEnd(p, s) \/ ShutdownMark(p, s)
         PROVE  SendInv'
    <3>1. CASE RecvOpen(p, s)
      <4>1. /\ UNCHANGED <<wpc, cpc, sentClose>>
            /\ ep' = ep \/ ep' = [ep EXCEPT ![p][s] = "live"]
        BY <3>1 DEF RecvOpen, flagVars, pcVars
      <4>2. ep \in [Side -> [StreamId -> {"none", "opening", "live", "failed"}]]
        BY EndpointTypes
      <4>3. \A q \in Side, r \in StreamId : ep[q][r] = "live" => ep'[q][r] = "live"
        BY <4>1, <4>2
      <4> QED BY <4>1, <4>3 DEF SendInv
    <3>2. CASE RecvData(p, s)
      BY <3>2 DEF RecvData, SendInv, sessVars, connVars, flagVars, pcVars, readVars
    <3>3. CASE RecvClose(p, s)
      BY <3>3 DEF RecvClose, SendInv, sessVars, connVars, flagVars, pcVars, readVars
    <3>4. CASE RecvReset(p, s)
      BY <3>4 DEF RecvReset, SendInv, sessVars, connVars, flagVars, pcVars, readVars
    <3>5. CASE PushData(p, s)
      BY <3>5 DEF PushData, SendInv, sessVars, connVars, flagVars, pcVars, readVars
    <3>6. CASE PushDrop(p, s)
      BY <3>6 DEF PushDrop, SendInv, sessVars, connVars, flagVars, pcVars, readVars
    <3>7. CASE CloseCheck(p, s)
      BY <3>7 DEF CloseCheck, SendInv, sessVars, connVars, flagVars, pcVars, readVars
    <3>8. CASE OpenFrame(p, s)
      <4>1. /\ UNCHANGED <<wpc, cpc, sentClose>> /\ ep[p][s] = "opening"
            /\ \E e \in {"live", "failed"} : ep' = [ep EXCEPT ![p][s] = e]
        BY <3>8 DEF OpenFrame, flagVars, pcVars
      <4> QED BY <4>1, EndpointTypes DEF SendInv
    <3>9. CASE WriteFrame(p, s)
      <4>1. /\ UNCHANGED <<cpc, sentClose, ep>> /\ wpc[p][s] = "frame"
            /\ \E e \in {"idle", "more"} : wpc' = [wpc EXCEPT ![p][s] = e]
        BY <3>9 DEF WriteFrame, flagVars
      <4> QED BY <4>1, EndpointTypes DEF SendInv
    <3>10. CASE WriteAgain(p, s)
      BY <3>10, EndpointTypes
         DEF WriteAgain, SendInv, sessVars, connVars, flagVars, pcVars, readVars
    <3>11. CASE CloseFrame(p, s)
      BY <3>11, EndpointTypes
         DEF CloseFrame, SendInv, sessVars, connVars, flagVars, pcVars, readVars
    <3>12. CASE CloseRetire(p, s)
      BY <3>12, EndpointTypes
         DEF CloseRetire, SendInv, sessVars, connVars, flagVars, pcVars, readVars
    <3>13. CASE AbortFrame(p, s)
      BY <3>13 DEF AbortFrame, SendInv, sessVars, connVars, flagVars, pcVars, readVars
    <3>14. CASE AbortFinish(p, s)
      BY <3>14 DEF AbortFinish, SendInv, sessVars, connVars, flagVars, pcVars, readVars
    <3>15. CASE WriteLock(p, s)
      BY <3>15, EndpointTypes
         DEF WriteLock, SendInv, sessVars, connVars, flagVars, pcVars, readVars
    <3>16. CASE CloseWrite(p, s)
      BY <3>16, EndpointTypes
         DEF CloseWrite, SendInv, sessVars, connVars, flagVars, pcVars, readVars
    <3>17. CASE Abort(p, s)
      BY <3>17, EndpointTypes
         DEF Abort, SendInv, sessVars, connVars, flagVars, pcVars, readVars
    <3>18. CASE Read(p, s)
      BY <3>18 DEF Read, SendInv, sessVars, connVars, flagVars, pcVars, readVars
    <3>19. CASE ReadEnd(p, s)
      BY <3>19 DEF ReadEnd, SendInv, sessVars, connVars, flagVars, pcVars, readVars
    <3>20. CASE ShutdownMark(p, s)
      BY <3>20 DEF ShutdownMark, SendInv, sessVars, connVars, flagVars, pcVars, readVars
    <3> QED BY <2>7, <3>1, <3>2, <3>3, <3>4, <3>5, <3>6, <3>7, <3>8, <3>9, <3>10,
               <3>11, <3>12, <3>13, <3>14, <3>15, <3>16, <3>17, <3>18, <3>19, <3>20
  <2> QED BY <2>1, <2>2, <2>3, <2>4, <2>5, <2>6, <2>7
<1> QED BY <1>u, <1>n

\* What a sender has finished, counted or closed stays so.
LEMMA SendersOnlyAdvance ==
  ASSUME TypeOK, [Next]_vars
  PROVE  \A q \in Side, r \in StreamId :
           /\ Finished(q, r) => Finished(q, r)'
           /\ sent[q][r] <= sent'[q][r]
           /\ closed[q] => closed'[q]
<1> DEFINE Advances == \A q \in Side, r \in StreamId :
          /\ Finished(q, r) => Finished(q, r)'
          /\ sent[q][r] <= sent'[q][r]
          /\ closed[q] => closed'[q]
<1>u. CASE UNCHANGED vars
  BY <1>u, EndpointTypes DEF Finished, vars, sessVars, connVars, flagVars, pcVars, readVars
<1>n. CASE Next
  <2>1. PICK p \in Side :
          \/ OpenStream(p) \/ Shutdown(p) \/ ShutdownEnd(p) \/ ReadFail(p) \/ BreakConn(p)
          \/ \E s \in StreamId :
               \/ RecvOpen(p, s) \/ RecvData(p, s) \/ RecvClose(p, s) \/ RecvReset(p, s)
               \/ PushData(p, s) \/ PushDrop(p, s) \/ CloseCheck(p, s) \/ OpenFrame(p, s)
               \/ WriteFrame(p, s) \/ WriteAgain(p, s) \/ CloseFrame(p, s) \/ CloseRetire(p, s)
               \/ AbortFrame(p, s) \/ AbortFinish(p, s) \/ WriteLock(p, s) \/ CloseWrite(p, s)
               \/ Abort(p, s) \/ Read(p, s) \/ ReadEnd(p, s) \/ ShutdownMark(p, s)
    BY <1>n, NextCases
  <2>2. CASE OpenStream(p)
    BY <2>2, EndpointTypes
       DEF OpenStream, Finished, sessVars, connVars, flagVars, pcVars, readVars
  <2>3. CASE Shutdown(p)
    BY <2>3, EndpointTypes
       DEF Shutdown, MayWrite, Finished, sessVars, connVars, flagVars, pcVars, readVars
  <2>4. CASE ShutdownEnd(p)
    BY <2>4, EndpointTypes
       DEF ShutdownEnd, Finished, sessVars, connVars, flagVars, pcVars, readVars
  <2>5. CASE ReadFail(p)
    BY <2>5, EndpointTypes
       DEF ReadFail, Finished, sessVars, connVars, flagVars, pcVars, readVars
  <2>6. CASE BreakConn(p)
    BY <2>6, EndpointTypes
       DEF BreakConn, Finished, sessVars, connVars, flagVars, pcVars, readVars
  <2>7. ASSUME NEW s \in StreamId,
               \/ RecvOpen(p, s) \/ RecvData(p, s) \/ RecvClose(p, s) \/ RecvReset(p, s)
               \/ PushData(p, s) \/ PushDrop(p, s) \/ CloseCheck(p, s) \/ OpenFrame(p, s)
               \/ WriteFrame(p, s) \/ WriteAgain(p, s) \/ CloseFrame(p, s) \/ CloseRetire(p, s)
               \/ AbortFrame(p, s) \/ AbortFinish(p, s) \/ WriteLock(p, s) \/ CloseWrite(p, s)
               \/ Abort(p, s) \/ Read(p, s) \/ ReadEnd(p, s) \/ ShutdownMark(p, s)
         PROVE  Advances
    <3>1. CASE RecvOpen(p, s)
      BY <3>1, EndpointTypes
         DEF RecvOpen, Finished, sessVars, connVars, flagVars, pcVars, readVars
    <3>2. CASE RecvData(p, s)
      BY <3>2, EndpointTypes
         DEF RecvData, Finished, sessVars, connVars, flagVars, pcVars, readVars
    <3>3. CASE RecvClose(p, s)
      BY <3>3, EndpointTypes
         DEF RecvClose, Finished, sessVars, connVars, flagVars, pcVars, readVars
    <3>4. CASE RecvReset(p, s)
      BY <3>4, EndpointTypes
         DEF RecvReset, Finished, sessVars, connVars, flagVars, pcVars, readVars
    <3>5. CASE PushData(p, s)
      BY <3>5, EndpointTypes
         DEF PushData, Finished, sessVars, connVars, flagVars, pcVars, readVars
    <3>6. CASE PushDrop(p, s)
      BY <3>6, EndpointTypes
         DEF PushDrop, Finished, sessVars, connVars, flagVars, pcVars, readVars
    <3>7. CASE CloseCheck(p, s)
      BY <3>7, EndpointTypes
         DEF CloseCheck, Finished, sessVars, connVars, flagVars, pcVars, readVars
    <3>8. CASE OpenFrame(p, s)
      BY <3>8, EndpointTypes
         DEF OpenFrame, Finished, sessVars, connVars, flagVars, pcVars, readVars
    <3>9. CASE WriteFrame(p, s)
      <4>1. /\ UNCHANGED <<closed, sentClose>> /\ wpc[p][s] = "frame"
            /\ \E e \in {"idle", "more"} : wpc' = [wpc EXCEPT ![p][s] = e]
            /\ sent' = sent \/ sent' = [sent EXCEPT ![p][s] = @ + 1]
        BY <3>9 DEF WriteFrame, flagVars, sessVars
      <4> QED BY <4>1, EndpointTypes DEF Finished
    <3>10. CASE WriteAgain(p, s)
      BY <3>10, EndpointTypes
         DEF WriteAgain, MayWrite, Finished, sessVars, connVars, flagVars, pcVars, readVars
    <3>11. CASE CloseFrame(p, s)
      BY <3>11, EndpointTypes
         DEF CloseFrame, Finished, sessVars, connVars, flagVars, pcVars, readVars
    <3>12. CASE CloseRetire(p, s)
      BY <3>12, EndpointTypes
         DEF CloseRetire, Finished, sessVars, connVars, flagVars, pcVars, readVars
    <3>13. CASE AbortFrame(p, s)
      BY <3>13, EndpointTypes
         DEF AbortFrame, Finished, sessVars, connVars, flagVars, pcVars, readVars
    <3>14. CASE AbortFinish(p, s)
      BY <3>14, EndpointTypes
         DEF AbortFinish, Finished, sessVars, connVars, flagVars, pcVars, readVars
    <3>15. CASE WriteLock(p, s)
      BY <3>15, EndpointTypes
         DEF WriteLock, MayWrite, Finished, sessVars, connVars, flagVars, pcVars, readVars
    <3>16. CASE CloseWrite(p, s)
      BY <3>16, EndpointTypes
         DEF CloseWrite, MayWrite, Finished, sessVars, connVars, flagVars, pcVars, readVars
    <3>17. CASE Abort(p, s)
      BY <3>17, EndpointTypes
         DEF Abort, MayWrite, Finished, sessVars, connVars, flagVars, pcVars, readVars
    <3>18. CASE Read(p, s)
      BY <3>18, EndpointTypes
         DEF Read, Finished, sessVars, connVars, flagVars, pcVars, readVars
    <3>19. CASE ReadEnd(p, s)
      BY <3>19, EndpointTypes
         DEF ReadEnd, Finished, sessVars, connVars, flagVars, pcVars, readVars
    <3>20. CASE ShutdownMark(p, s)
      BY <3>20, EndpointTypes
         DEF ShutdownMark, Finished, sessVars, connVars, flagVars, pcVars, readVars
    <3> QED BY <2>7, <3>1, <3>2, <3>3, <3>4, <3>5, <3>6, <3>7, <3>8, <3>9, <3>10,
               <3>11, <3>12, <3>13, <3>14, <3>15, <3>16, <3>17, <3>18, <3>19, <3>20
  <2> QED BY <2>1, <2>2, <2>3, <2>4, <2>5, <2>6, <2>7
<1> QED BY <1>u, <1>n

\* How one step changes the connection, and what the writer knows when it does.
WriteStep(p, s) ==
  /\ Emit(p, "DATA", s, sent[p][s] + 1)
  /\ wpc[p][s] = "frame"
  /\ sent' = [sent EXCEPT ![p][s] = @ + 1]
ControlStep(p, s) ==
  /\ \/ Emit(p, "OPEN", s, 0) /\ ep'[p][s] = "live"
     \/ Emit(p, "CLOSE", s, 0) /\ Finished(p, s)
     \/ Emit(p, "RESET", s, 0)
  /\ UNCHANGED sent
TakeStep(p, s) ==
  /\ \E t \in {"OPEN", "DATA", "CLOSE", "RESET"} : Take(p, t, s)
  /\ Take(p, "OPEN", s) => RecvOpen(p, s)
  /\ Take(p, "DATA", s) => RecvData(p, s)
  /\ UNCHANGED sent

\* Every step leaves the connection and the senders' counts alone or is one of them.
LEMMA WireCases ==
  ASSUME TypeOK, SendInv, [Next]_vars
  PROVE  \/ UNCHANGED <<wire, sent>>
         \/ \E p \in Side, s \in StreamId :
              WriteStep(p, s) \/ ControlStep(p, s) \/ TakeStep(p, s)
<1> DEFINE Goal == \/ UNCHANGED <<wire, sent>>
                   \/ \E p \in Side, s \in StreamId :
                        WriteStep(p, s) \/ ControlStep(p, s) \/ TakeStep(p, s)
<1>u. CASE UNCHANGED vars
  BY <1>u DEF vars, connVars
<1>n. CASE Next
  <2>1. PICK p \in Side :
          \/ OpenStream(p) \/ Shutdown(p) \/ ShutdownEnd(p) \/ ReadFail(p) \/ BreakConn(p)
          \/ \E s \in StreamId :
               \/ RecvOpen(p, s) \/ RecvData(p, s) \/ RecvClose(p, s) \/ RecvReset(p, s)
               \/ PushData(p, s) \/ PushDrop(p, s) \/ CloseCheck(p, s) \/ OpenFrame(p, s)
               \/ WriteFrame(p, s) \/ WriteAgain(p, s) \/ CloseFrame(p, s) \/ CloseRetire(p, s)
               \/ AbortFrame(p, s) \/ AbortFinish(p, s) \/ WriteLock(p, s) \/ CloseWrite(p, s)
               \/ Abort(p, s) \/ Read(p, s) \/ ReadEnd(p, s) \/ ShutdownMark(p, s)
    BY <1>n, NextCases
  <2>2. CASE OpenStream(p) \/ Shutdown(p) \/ ShutdownEnd(p) \/ ReadFail(p) \/ BreakConn(p)
    BY <2>2 DEF OpenStream, Shutdown, ShutdownEnd, ReadFail, BreakConn, connVars
  <2>3. ASSUME NEW s \in StreamId,
               \/ PushData(p, s) \/ PushDrop(p, s) \/ CloseCheck(p, s) \/ WriteAgain(p, s)
               \/ CloseRetire(p, s) \/ AbortFinish(p, s) \/ WriteLock(p, s) \/ CloseWrite(p, s)
               \/ Abort(p, s) \/ Read(p, s) \/ ReadEnd(p, s) \/ ShutdownMark(p, s)
        PROVE  Goal
    BY <2>3
       DEF PushData, PushDrop, CloseCheck, WriteAgain, CloseRetire, AbortFinish, WriteLock,
                CloseWrite, Abort, Read, ReadEnd, ShutdownMark, connVars
  <2>4. ASSUME NEW s \in StreamId,
               RecvOpen(p, s) \/ RecvData(p, s) \/ RecvClose(p, s) \/ RecvReset(p, s)
        PROVE  Goal
    <3>1. UNCHANGED sent /\ \E t \in {"OPEN", "DATA", "CLOSE", "RESET"} : Take(p, t, s)
      BY <2>4 DEF RecvOpen, RecvData, RecvClose, RecvReset
    <3>2. (Take(p, "OPEN", s) => RecvOpen(p, s)) /\ (Take(p, "DATA", s) => RecvData(p, s))
      BY <2>4 DEF RecvOpen, RecvData, RecvClose, RecvReset, Take
    <3>3. TakeStep(p, s)
      BY <3>1, <3>2 DEF TakeStep
    <3> QED BY <3>3
  <2>5. ASSUME NEW s \in StreamId, OpenFrame(p, s) \/ AbortFrame(p, s)
        PROVE  Goal
    <3>0. ep \in [Side -> [StreamId -> {"none", "opening", "live", "failed"}]]
      BY EndpointTypes
    <3>1. /\ UNCHANGED sent
          /\ \/ Emit(p, "OPEN", s, 0) /\ ep'[p][s] = "live"
             \/ Emit(p, "RESET", s, 0)
             \/ EmitFails(p)
      BY <2>5, <3>0 DEF OpenFrame, AbortFrame
    <3>2. CASE EmitFails(p)
      BY <3>1, <3>2 DEF EmitFails, connVars
    <3>3. CASE (Emit(p, "OPEN", s, 0) /\ ep'[p][s] = "live") \/ Emit(p, "RESET", s, 0)
      <4>1. ControlStep(p, s)
        BY <3>1, <3>3 DEF ControlStep
      <4> QED BY <4>1
    <3> QED BY <3>1, <3>2, <3>3
  <2>6. ASSUME NEW s \in StreamId, CloseFrame(p, s)
        PROVE  Goal
    <3>1. UNCHANGED sent /\ Finished(p, s) /\ (Emit(p, "CLOSE", s, 0) \/ EmitFails(p))
      BY <2>6 DEF CloseFrame, Finished, SendInv
    <3>2. CASE EmitFails(p)
      BY <3>1, <3>2 DEF EmitFails, connVars
    <3>3. CASE Emit(p, "CLOSE", s, 0)
      <4>1. ControlStep(p, s)
        BY <3>1, <3>3 DEF ControlStep
      <4> QED BY <4>1
    <3> QED BY <3>1, <3>2, <3>3
  <2>7. ASSUME NEW s \in StreamId, WriteFrame(p, s)
        PROVE  Goal
    <3>1. CASE EmitFails(p) /\ UNCHANGED sent
      BY <3>1 DEF EmitFails, connVars
    <3>2. CASE WriteStep(p, s)
      BY <3>2
    <3> QED BY <2>7, <3>1, <3>2 DEF WriteFrame, WriteStep
  <2> QED BY <2>1, <2>2, <2>3, <2>4, <2>5, <2>6, <2>7
<1> QED BY <1>u, <1>n

\* Every action keeps WireSentInv: whoever emits CLOSE holds Stream.wmu.
LEMMA WireSentStep ==
  ASSUME TypeOK, SendInv, WireSentInv, [Next]_vars
  PROVE  WireSentInv'
<1> SUFFICES ASSUME NEW q \in Side, NEW i \in 1 .. Len(wire'[q])
             PROVE  /\ wire'[q][i].type = "CLOSE" =>
                         sentClose'[q][wire'[q][i].id] /\ wpc'[q][wire'[q][i].id] = "idle"
                    /\ wire'[q][i].type = "DATA" => wire'[q][i].data <= sent'[q][wire'[q][i].id]
  BY DEF WireSentInv, Finished
<1>1. \A r \in StreamId : /\ Finished(q, r) => sentClose'[q][r] /\ wpc'[q][r] = "idle"
                         /\ sent[q][r] <= sent'[q][r]
  BY SendersOnlyAdvance DEF Finished
<1>2. /\ sent \in [Side -> [StreamId -> Nat]] /\ sent' \in [Side -> [StreamId -> Nat]]
      /\ \A j \in 1 .. Len(wire[q]) : wire[q][j].id \in StreamId /\ wire[q][j].data \in Nat
  BY EndpointTypes, TypeStep DEF TypeOK, EndpointsOf
<1>3. ASSUME NEW j \in 1 .. Len(wire[q]), wire'[q][i] = wire[q][j]
      PROVE  /\ wire'[q][i].type = "CLOSE" =>
                         sentClose'[q][wire'[q][i].id] /\ wpc'[q][wire'[q][i].id] = "idle"
             /\ wire'[q][i].type = "DATA" => wire'[q][i].data <= sent'[q][wire'[q][i].id]
  <2>1. /\ wire[q][j].type = "CLOSE" => Finished(q, wire[q][j].id)
        /\ wire[q][j].type = "DATA" => wire[q][j].data <= sent[q][wire[q][j].id]
    BY DEF WireSentInv
  <2>2. wire[q][j].id \in StreamId /\ wire[q][j].data \in Nat
    BY <1>2
  <2>3. sent[q][wire[q][j].id] \in Nat /\ sent'[q][wire[q][j].id] \in Nat
    BY <1>2, <2>2
  <2>4. PICK r \in StreamId : r = wire[q][j].id
    BY <2>2
  <2>5. /\ wire[q][j].type = "CLOSE" => sentClose'[q][r] /\ wpc'[q][r] = "idle"
        /\ wire[q][j].type = "DATA" => wire[q][j].data <= sent'[q][r]
    BY <1>1, <2>1, <2>2, <2>3, <2>4
  <2> QED BY <1>3, <2>4, <2>5
<1>4. CASE UNCHANGED <<wire, sent>>
  BY <1>3, <1>4
<1>5. ASSUME NEW p \in Side, NEW s \in StreamId, TakeStep(p, s)
      PROVE  \E j \in 1 .. Len(wire[q]) : wire'[q][i] = wire[q][j]
  <2>1. PICK t : Take(p, t, s)
    BY <1>5 DEF TakeStep
  <2> QED BY <2>1, TookFrames
<1>6. ASSUME NEW p \in Side, NEW s \in StreamId, ControlStep(p, s)
      PROVE  \/ \E j \in 1 .. Len(wire[q]) : wire'[q][i] = wire[q][j]
             \/ wire'[q][i].type \in {"OPEN", "RESET"}
             \/ wire'[q][i].type = "CLOSE" /\ wire'[q][i].id = s /\ q = p /\ Finished(p, s)
  BY <1>6, EmittedFrames DEF ControlStep
<1>7. ASSUME NEW p \in Side, NEW s \in StreamId, WriteStep(p, s)
      PROVE  \/ \E j \in 1 .. Len(wire[q]) : wire'[q][i] = wire[q][j]
             \/ /\ q = p /\ wire'[q][i].type = "DATA" /\ wire'[q][i].id = s
                /\ wire'[q][i].data = sent'[q][s]
  <2>1. sent[p][s] + 1 \in Nat /\ sent'[p][s] = sent[p][s] + 1
    BY <1>2, <1>7 DEF WriteStep
  <2> QED BY <1>7, <2>1, EmittedFrames DEF WriteStep
<1>8. ASSUME NEW p \in Side, NEW s \in StreamId,
             WriteStep(p, s) \/ ControlStep(p, s) \/ TakeStep(p, s)
      PROVE  /\ wire'[q][i].type = "CLOSE" =>
                         sentClose'[q][wire'[q][i].id] /\ wpc'[q][wire'[q][i].id] = "idle"
             /\ wire'[q][i].type = "DATA" => wire'[q][i].data <= sent'[q][wire'[q][i].id]
  <2>1. CASE \E j \in 1 .. Len(wire[q]) : wire'[q][i] = wire[q][j]
    BY <1>3, <2>1
  <2>2. CASE wire'[q][i].type \in {"OPEN", "RESET"}
    BY <2>2
  <2>3. CASE wire'[q][i].type = "CLOSE" /\ wire'[q][i].id = s /\ q = p /\ Finished(p, s)
    BY <1>1, <2>3
  <2>4. CASE /\ q = p /\ wire'[q][i].type = "DATA" /\ wire'[q][i].id = s
             /\ wire'[q][i].data = sent'[q][s]
    BY <1>2, <2>4
  <2> QED BY <1>5, <1>6, <1>7, <1>8, <2>1, <2>2, <2>3, <2>4
<1> QED BY <1>4, <1>8, WireCases

\* Every action keeps WireOrderInv: a Write under way has not been overtaken by
\* CLOSE, and its frame has the next number.
LEMMA WireOrderStep ==
  ASSUME TypeOK, SendInv, WireSentInv, WireOrderInv, [Next]_vars
  PROVE  WireOrderInv'
<1> SUFFICES ASSUME NEW q \in Side, NEW i \in 1 .. Len(wire'[q]), NEW j \in 1 .. Len(wire'[q]),
                    i < j, wire'[q][i].id = wire'[q][j].id, wire'[q][j].type = "DATA"
             PROVE  /\ wire'[q][i].type # "CLOSE"
                    /\ wire'[q][i].type = "DATA" => wire'[q][i].data < wire'[q][j].data
  BY DEF WireOrderInv
<1> DEFINE Goal == /\ wire'[q][i].type # "CLOSE"
                   /\ wire'[q][i].type = "DATA" => wire'[q][i].data < wire'[q][j].data
<1>0. Len(wire[q]) \in Nat /\ Len(wire'[q]) \in Nat
  BY EndpointTypes, TypeStep DEF TypeOK
<1>1. ASSUME NEW i1 \in 1 .. Len(wire[q]), NEW j1 \in 1 .. Len(wire[q]), i1 < j1,
             wire'[q][i] = wire[q][i1], wire'[q][j] = wire[q][j1]
      PROVE  Goal
  BY <1>1 DEF WireOrderInv
<1>2. CASE UNCHANGED <<wire, sent>>
  BY <1>1, <1>2
<1>3. ASSUME NEW p \in Side, NEW s \in StreamId, TakeStep(p, s)
      PROVE  Goal
  <2>0. PICK t : Take(p, t, s)
    BY <1>3 DEF TakeStep
  <2>1. CASE q = p
    <3>1. wire'[q] = wire[q]
      BY <2>0, <2>1, Took
    <3> QED BY <1>1, <3>1
  <2>2. CASE q = Peer(p)
    <3>1. \A k \in 1 .. Len(wire'[q]) : wire'[q][k] = wire[q][k + 1] /\ k + 1 \in 1 .. Len(wire[q])
      BY <2>0, <2>2, Took
    <3>2. i + 1 \in 1 .. Len(wire[q]) /\ j + 1 \in 1 .. Len(wire[q]) /\ i + 1 < j + 1
      BY <1>0, <3>1
    <3> QED BY <1>1, <3>1, <3>2
  <2> QED BY <2>1, <2>2 DEF Side, Peer
<1>4. ASSUME NEW p \in Side, NEW s \in StreamId, ControlStep(p, s)
      PROVE  Goal
  <2>1. \A k \in 1 .. Len(wire'[q]) :
          \/ k \in 1 .. Len(wire[q]) /\ wire'[q][k] = wire[q][k]
          \/ wire'[q][k].type # "DATA"
    BY <1>4, EmittedFrames DEF ControlStep
  <2>2. j \in 1 .. Len(wire[q]) /\ wire'[q][j] = wire[q][j]
    BY <2>1
  <2>3. i \in 1 .. Len(wire[q])
    BY <1>0, <2>2
  <2>4. wire'[q][i] = wire[q][i]
    <3>1. ASSUME NEW t \in {"OPEN", "CLOSE", "RESET"}, Emit(p, t, s, 0)
          PROVE  wire'[q][i] = wire[q][i]
      BY <2>3, <3>1, Emitted
    <3> QED BY <1>4, <3>1 DEF ControlStep
  <2> QED BY <1>1, <2>2, <2>3, <2>4
<1>5. ASSUME NEW p \in Side, NEW s \in StreamId, WriteStep(p, s)
      PROVE  Goal
  <2>1. sent[p][s] \in Nat /\ sent[p][s] + 1 \in Nat
    BY EndpointTypes
  <2>2. /\ \A r \in Side : r # p => wire'[r] = wire[r]
        /\ Len(wire'[p]) = Len(wire[p]) + 1
        /\ \A k \in 1 .. Len(wire[p]) : wire'[p][k] = wire[p][k]
        /\ wire'[p][Len(wire[p]) + 1].type = "DATA" /\ wire'[p][Len(wire[p]) + 1].id = s
        /\ wire'[p][Len(wire[p]) + 1].data = sent[p][s] + 1
    BY <1>5, <2>1, Emitted DEF WriteStep
  <2>3. CASE q # p
    BY <1>1, <2>2, <2>3
  <2>4. CASE q = p /\ j \in 1 .. Len(wire[p])
    BY <1>0, <1>1, <2>2, <2>4
  <2>5. CASE q = p /\ j = Len(wire[p]) + 1
    <3>1. i \in 1 .. Len(wire[p]) /\ wire'[p][i] = wire[p][i] /\ wire[p][i].id = s
      BY <1>0, <2>2, <2>5
    <3>2. wire[p][i].data \in Nat
      BY <3>1, EndpointTypes
    <3>3. wire[p][i].type # "CLOSE" /\ (wire[p][i].type = "DATA" => wire[p][i].data <= sent[p][s])
      BY <1>5, <3>1 DEF WireSentInv, WriteStep, Finished
    <3> QED BY <2>1, <2>2, <2>5, <3>1, <3>2, <3>3
  <2> QED BY <1>0, <2>2, <2>3, <2>4, <2>5
<1> QED BY <1>2, <1>3, <1>4, <1>5, WireCases

\* What one step may do to a Stream object: it is created once, on a session that
\* is open, handed out once, and its terminal read state is final.
EndpointAdvances(q, r) ==
  /\ ep[q][r] # "none" => ep'[q][r] # "none"
  /\ ep[q][r] = "live" => ep'[q][r] = "live"
  /\ r \in registered'[q] => r \in registered[q] \/ (ep[q][r] = "none" /\ ~closed[q])
  /\ ep'[q][r] = "live" => \/ ep[q][r] = "live"
                           \/ ep[q][r] = "opening" /\ Emit(q, "OPEN", r, 0)
                           \/ ep[q][r] = "none" /\ RecvOpen(q, r) /\ ~closed[q]
  /\ readErr[q][r] # "none" => readErr'[q][r] = readErr[q][r]

\* What Remove leaves of the map.
LEMMA RemoveOnlyRemoves ==
  ASSUME TypeOK, NEW p \in Side, NEW s \in StreamId,
         registered' = registered \/ registered' = [registered EXCEPT ![p] = @ \ {s}]
  PROVE  \A q \in Side : registered'[q] \subseteq registered[q]
<1>1. registered \in [Side -> SUBSET StreamId]
  BY EndpointTypes
<1>2. CASE registered' = [registered EXCEPT ![p] = @ \ {s}]
  BY <1>1, <1>2
<1> QED BY <1>2

\* A Stream object only goes forward.
LEMMA EndpointsOnlyAdvance ==
  ASSUME TypeOK, OpenInv, [Next]_vars
  PROVE  \A q \in Side, r \in StreamId : EndpointAdvances(q, r)
<1>u. CASE UNCHANGED vars
  BY <1>u DEF EndpointAdvances, vars, sessVars, connVars, flagVars, pcVars, readVars
<1>n. CASE Next
  <2>1. PICK p \in Side :
          \/ OpenStream(p) \/ Shutdown(p) \/ ShutdownEnd(p) \/ ReadFail(p) \/ BreakConn(p)
          \/ \E s \in StreamId :
               \/ RecvOpen(p, s) \/ RecvData(p, s) \/ RecvClose(p, s) \/ RecvReset(p, s)
               \/ PushData(p, s) \/ PushDrop(p, s) \/ CloseCheck(p, s) \/ OpenFrame(p, s)
               \/ WriteFrame(p, s) \/ WriteAgain(p, s) \/ CloseFrame(p, s) \/ CloseRetire(p, s)
               \/ AbortFrame(p, s) \/ AbortFinish(p, s) \/ WriteLock(p, s) \/ CloseWrite(p, s)
               \/ Abort(p, s) \/ Read(p, s) \/ ReadEnd(p, s) \/ ShutdownMark(p, s)
    BY <1>n, NextCases
  <2>2. CASE OpenStream(p)
    <3>1. nextID[p] \in StreamId /\ ep[p][nextID[p]] = "none" /\ UNCHANGED readErr
      BY <2>2, OpenStreamKeepsOpen DEF OpenStream
    <3>2. PICK e \in {"opening", "failed"} :
            ep' = [ep EXCEPT ![p][nextID[p]] = e] /\ (e = "opening" => ~closed[p])
      BY <2>2 DEF OpenStream
    <3>3. ep \in [Side -> [StreamId -> {"none", "opening", "live", "failed"}]]
      BY EndpointTypes
    <3>4. \A q \in Side, r \in StreamId :
            ep'[q][r] = IF q = p /\ r = nextID[p] THEN e ELSE ep[q][r]
      BY <3>1, <3>2, <3>3
    <3>5. \A q \in Side, r \in StreamId :
            r \in registered'[q] => r \in registered[q] \/ (q = p /\ r = nextID[p] /\ ~closed[p])
      <4>1. registered \in [Side -> SUBSET StreamId]
        BY EndpointTypes
      <4> QED BY <2>2, <4>1 DEF OpenStream
    <3> QED BY <3>1, <3>2, <3>4, <3>5 DEF EndpointAdvances
  <2>3. CASE Shutdown(p)
    BY <2>3, EndpointTypes
       DEF Shutdown, MarkReadDone, Remove, EndpointAdvances, sessVars, connVars,
           flagVars, pcVars, readVars
  <2>4. CASE ShutdownEnd(p)
    BY <2>4
       DEF ShutdownEnd, EndpointAdvances, sessVars, connVars, flagVars, pcVars, readVars
  <2>5. CASE ReadFail(p)
    BY <2>5 DEF ReadFail, EndpointAdvances, sessVars, connVars, flagVars, pcVars, readVars
  <2>6. CASE BreakConn(p)
    BY <2>6 DEF BreakConn, EndpointAdvances, sessVars, connVars, flagVars, pcVars, readVars
  <2>7. ASSUME NEW s \in StreamId,
               \/ RecvOpen(p, s) \/ RecvData(p, s) \/ RecvClose(p, s) \/ RecvReset(p, s)
               \/ PushData(p, s) \/ PushDrop(p, s) \/ CloseCheck(p, s) \/ OpenFrame(p, s)
               \/ WriteFrame(p, s) \/ WriteAgain(p, s) \/ CloseFrame(p, s) \/ CloseRetire(p, s)
               \/ AbortFrame(p, s) \/ AbortFinish(p, s) \/ WriteLock(p, s) \/ CloseWrite(p, s)
               \/ Abort(p, s) \/ Read(p, s) \/ ReadEnd(p, s) \/ ShutdownMark(p, s)
         PROVE  \A q \in Side, r \in StreamId : EndpointAdvances(q, r)
    <3>1. CASE RecvOpen(p, s)
      <4>1. /\ ep[p][s] = "none" /\ UNCHANGED readErr
            /\ ep' = ep \/ (ep' = [ep EXCEPT ![p][s] = "live"] /\ ~closed[p])
        BY <3>1, RecvOpenKeepsOpen DEF RecvOpen
      <4>2. ep \in [Side -> [StreamId -> {"none", "opening", "live", "failed"}]]
        BY EndpointTypes
      <4>0. \A q \in Side, r \in StreamId :
              r \in registered'[q] => r \in registered[q] \/ (q = p /\ r = s /\ ~closed[p])
        BY <3>1, EndpointTypes DEF RecvOpen
      <4>3. ASSUME NEW q \in Side, NEW r \in StreamId, ~(q = p /\ r = s)
            PROVE  EndpointAdvances(q, r)
        BY <4>0, <4>1, <4>2, <4>3 DEF EndpointAdvances
      <4>4. EndpointAdvances(p, s)
        BY <3>1, <4>0, <4>1, <4>2 DEF EndpointAdvances
      <4> QED BY <4>3, <4>4
    <3>2. CASE RecvData(p, s)
      BY <3>2 DEF RecvData, EndpointAdvances, sessVars, connVars, flagVars, pcVars, readVars
    <3>3. CASE RecvClose(p, s)
      <4>1. readErr' = readErr \/ \E e \in ReadErr :
              readErr' = [readErr EXCEPT ![p][s] = IF @ = "none" THEN e ELSE @]
        BY <3>3 DEF RecvClose, MarkReadDone, ReadErr
      <4>2. readErr \in [Side -> [StreamId -> ReadErr]] /\ UNCHANGED ep
        BY <3>3, EndpointTypes DEF RecvClose
      <4>3. \A q \in Side, r \in StreamId : r \in registered'[q] => r \in registered[q]
        <5>1. registered' = registered \/ registered' = [registered EXCEPT ![p] = @ \ {s}]
          BY <3>3 DEF RecvClose, Remove, sessVars
        <5> QED BY <5>1, RemoveOnlyRemoves
      <4> QED BY <4>1, <4>2, <4>3 DEF EndpointAdvances
    <3>4. CASE RecvReset(p, s)
      <4>1. readErr' = readErr \/ \E e \in ReadErr :
              readErr' = [readErr EXCEPT ![p][s] = IF @ = "none" THEN e ELSE @]
        BY <3>4 DEF RecvReset, MarkReadDone, ReadErr
      <4>2. readErr \in [Side -> [StreamId -> ReadErr]] /\ UNCHANGED ep
        BY <3>4, EndpointTypes DEF RecvReset
      <4>3. \A q \in Side, r \in StreamId : r \in registered'[q] => r \in registered[q]
        <5>1. registered' = registered \/ registered' = [registered EXCEPT ![p] = @ \ {s}]
          BY <3>4 DEF RecvReset, Remove, sessVars
        <5> QED BY <5>1, RemoveOnlyRemoves
      <4> QED BY <4>1, <4>2, <4>3 DEF EndpointAdvances
    <3>5. CASE PushData(p, s)
      BY <3>5 DEF PushData, EndpointAdvances, sessVars, connVars, flagVars, pcVars, readVars
    <3>6. CASE PushDrop(p, s)
      BY <3>6 DEF PushDrop, EndpointAdvances, sessVars, connVars, flagVars, pcVars, readVars
    <3>7. CASE CloseCheck(p, s)
      <4>1. registered' = registered \/ registered' = [registered EXCEPT ![p] = @ \ {s}]
        BY <3>7 DEF CloseCheck, Remove
      <4>2. UNCHANGED <<ep, readErr>>
        BY <3>7 DEF CloseCheck
      <4>3. \A q \in Side : registered'[q] \subseteq registered[q]
        BY <4>1, RemoveOnlyRemoves
      <4> QED BY <4>2, <4>3 DEF EndpointAdvances
    <3>8. CASE OpenFrame(p, s)
      <4>1. /\ ep[p][s] = "opening" /\ UNCHANGED readErr
            /\ \/ ep' = [ep EXCEPT ![p][s] = "failed"]
               \/ ep' = [ep EXCEPT ![p][s] = "live"] /\ Emit(p, "OPEN", s, 0)
        BY <3>8 DEF OpenFrame
      <4>2. ep \in [Side -> [StreamId -> {"none", "opening", "live", "failed"}]]
        BY EndpointTypes
      <4>0. \A q \in Side, r \in StreamId : r \in registered'[q] => r \in registered[q]
        <5>1. registered' = registered \/ registered' = [registered EXCEPT ![p] = @ \ {s}]
          BY <3>8 DEF OpenFrame, Remove
        <5> QED BY <5>1, RemoveOnlyRemoves
      <4>3. ASSUME NEW q \in Side, NEW r \in StreamId, ~(q = p /\ r = s)
            PROVE  EndpointAdvances(q, r)
        BY <4>0, <4>1, <4>2, <4>3 DEF EndpointAdvances
      <4>4. EndpointAdvances(p, s)
        BY <4>0, <4>1, <4>2 DEF EndpointAdvances
      <4> QED BY <4>3, <4>4
    <3>9. CASE WriteFrame(p, s)
      BY <3>9
         DEF WriteFrame, EndpointAdvances, sessVars, connVars, flagVars, pcVars, readVars
    <3>10. CASE WriteAgain(p, s)
      BY <3>10
         DEF WriteAgain, EndpointAdvances, sessVars, connVars, flagVars, pcVars, readVars
    <3>11. CASE CloseFrame(p, s)
      BY <3>11
         DEF CloseFrame, EndpointAdvances, sessVars, connVars, flagVars, pcVars, readVars
    <3>12. CASE CloseRetire(p, s)
      BY <3>12, EndpointTypes
         DEF CloseRetire, MarkReadDone, Remove, EndpointAdvances, sessVars, connVars,
             flagVars, pcVars, readVars
    <3>13. CASE AbortFrame(p, s)
      BY <3>13
         DEF AbortFrame, EndpointAdvances, sessVars, connVars, flagVars, pcVars, readVars
    <3>14. CASE AbortFinish(p, s)
      BY <3>14, EndpointTypes
         DEF AbortFinish, MarkReadDone, Remove, EndpointAdvances, sessVars, connVars,
             flagVars, pcVars, readVars
    <3>15. CASE WriteLock(p, s)
      BY <3>15
         DEF WriteLock, EndpointAdvances, sessVars, connVars, flagVars, pcVars, readVars
    <3>16. CASE CloseWrite(p, s)
      BY <3>16
         DEF CloseWrite, EndpointAdvances, sessVars, connVars, flagVars, pcVars, readVars
    <3>17. CASE Abort(p, s)
      BY <3>17 DEF Abort, EndpointAdvances, sessVars, connVars, flagVars, pcVars, readVars
    <3>18. CASE Read(p, s)
      BY <3>18 DEF Read, EndpointAdvances, sessVars, connVars, flagVars, pcVars, readVars
    <3>19. CASE ReadEnd(p, s)
      BY <3>19 DEF ReadEnd, EndpointAdvances, sessVars, connVars, flagVars, pcVars, readVars
    <3>20. CASE ShutdownMark(p, s)
      BY <3>20, EndpointTypes
         DEF ShutdownMark, MarkReadDone, Remove, EndpointAdvances, sessVars, connVars,
             flagVars, pcVars, readVars
    <3> QED BY <2>7, <3>1, <3>2, <3>3, <3>4, <3>5, <3>6, <3>7, <3>8, <3>9, <3>10,
               <3>11, <3>12, <3>13, <3>14, <3>15, <3>16, <3>17, <3>18, <3>19, <3>20
  <2> QED BY <2>1, <2>2, <2>3, <2>4, <2>5, <2>6, <2>7
<1> QED BY <1>u, <1>n

\* Every action keeps WireLiveInv: readLoop takes the OPEN before any DATA.
LEMMA WireLiveStep ==
  ASSUME TypeOK, OpenInv, SendInv, WireLiveInv, [Next]_vars
  PROVE  WireLiveInv'
<1>0. \A q \in Side, r \in StreamId : EndpointAdvances(q, r)
  BY EndpointsOnlyAdvance
<1>1. ASSUME NEW q \in Side, NEW s \in StreamId, NEW i \in 1 .. Len(wire'[q]),
             wire'[q][i].type = "OPEN", wire'[q][i].id = s
      PROVE  ep'[q][s] = "live"
  <2>1. CASE \E j \in 1 .. Len(wire[q]) : wire'[q][i] = wire[q][j]
    BY <1>0, <1>1, <2>1 DEF WireLiveInv, Opens, EndpointAdvances
  <2>2. ASSUME NEW p \in Side, NEW r \in StreamId, TakeStep(p, r)
        PROVE  \E j \in 1 .. Len(wire[q]) : wire'[q][i] = wire[q][j]
    <3>1. PICK t : Take(p, t, r)
      BY <2>2 DEF TakeStep
    <3> QED BY <3>1, TookFrames
  <2>3. ASSUME NEW p \in Side, NEW r \in StreamId, ControlStep(p, r)
        PROVE  \/ \E j \in 1 .. Len(wire[q]) : wire'[q][i] = wire[q][j]
               \/ ep'[q][s] = "live"
    BY <1>1, <2>3, EmittedFrames DEF ControlStep
  <2>4. ASSUME NEW p \in Side, NEW r \in StreamId, WriteStep(p, r)
        PROVE  \E j \in 1 .. Len(wire[q]) : wire'[q][i] = wire[q][j]
    <3>1. sent[p][r] + 1 \in Nat
      BY EndpointTypes
    <3> QED BY <1>1, <2>4, <3>1, EmittedFrames DEF WriteStep
  <2> QED BY <2>1, <2>2, <2>3, <2>4, WireCases
<1>2. ASSUME NEW q \in Side, NEW s \in StreamId, ep'[Peer(q)][s] = "none", ~closed'[Peer(q)]
      PROVE  /\ ep'[q][s] = "live" =>
                  \E i \in 1 .. Len(wire'[q]) : wire'[q][i].type = "OPEN" /\ wire'[q][i].id = s
             /\ \A j \in 1 .. Len(wire'[q]) :
                  wire'[q][j].type = "DATA" /\ wire'[q][j].id = s =>
                    \E i \in 1 .. Len(wire'[q]) :
                      i < j /\ wire'[q][i].type = "OPEN" /\ wire'[q][i].id = s
  <2>0. Peer(q) \in Side /\ Peer(q) # q /\ Peer(Peer(q)) = q /\ Side = {q, Peer(q)}
    BY PeerType DEF Side, Peer
  <2>1. ep[Peer(q)][s] = "none" /\ ~closed[Peer(q)]
    BY <1>0, <1>2, <2>0, SendersOnlyAdvance DEF EndpointAdvances
  <2>2. /\ ep[q][s] = "live" => \E i \in 1 .. Len(wire[q]) : Opens(q, i, s)
        /\ \A j \in 1 .. Len(wire[q]) :
             wire[q][j].type = "DATA" /\ wire[q][j].id = s =>
               \E i \in 1 .. Len(wire[q]) : i < j /\ Opens(q, i, s)
    BY <2>1 DEF WireLiveInv
  <2>3. Len(wire[q]) \in Nat
    BY EndpointTypes
  \* Nobody but RecvOpen takes an OPEN, and it would have made the stream known.
  <2>4. ~RecvOpen(Peer(q), s)
    <3>1. SUFFICES ASSUME RecvOpen(Peer(q), s) PROVE FALSE
      OBVIOUS
    <3>2. ep' = [ep EXCEPT ![Peer(q)][s] = "live"]
      BY <2>1, <3>1 DEF RecvOpen
    <3> QED BY <1>2, <2>0, <3>2, EndpointTypes
  \* The other direction cannot carry an OPEN of s: it would be known there.
  <2>5. ~RecvOpen(q, s)
    <3>1. SUFFICES ASSUME RecvOpen(q, s) PROVE FALSE
      OBVIOUS
    <3>2. Len(wire[Peer(q)]) \in Nat \ {0} /\ wire[Peer(q)][1].type = "OPEN" /\ wire[Peer(q)][1].id = s
      BY <3>1, Took DEF RecvOpen
    <3>3. ep[Peer(q)][s] = "live"
      BY <2>0, <3>2 DEF WireLiveInv, Opens
    <3> QED BY <2>1, <3>3
  <2>6. ep'[q][s] = "live" => ep[q][s] = "live" \/ Emit(q, "OPEN", s, 0)
    BY <1>0, <2>5 DEF EndpointAdvances
  <2> DEFINE Kept == wire'[q] = wire[q]
             Extended == /\ Len(wire'[q]) = Len(wire[q]) + 1
                         /\ \A i \in 1 .. Len(wire[q]) : wire'[q][i] = wire[q][i]
                         /\ LET f == wire'[q][Len(wire[q]) + 1] IN
                            f.type = "DATA" /\ f.id = s => ep[q][s] = "live"
             Shifted == /\ Len(wire[q]) # 0 /\ Len(wire'[q]) = Len(wire[q]) - 1
                        /\ ~Opens(q, 1, s)
                        /\ \A i \in 1 .. Len(wire'[q]) : wire'[q][i] = wire[q][i + 1]
  <2>7. Kept \/ Extended \/ Shifted
    <3>1. ASSUME NEW p \in Side, NEW r \in StreamId, TakeStep(p, r)
          PROVE  Kept \/ Shifted
      <4>1. PICK t : Take(p, t, r) /\ (Take(p, "OPEN", r) => RecvOpen(p, r))
        BY <3>1 DEF TakeStep
      <4>2. CASE p = q
        BY <4>1, <4>2, Took
      <4>3. CASE p = Peer(q)
        <5>1. /\ Len(wire[q]) \in Nat \ {0} /\ Len(wire'[q]) = Len(wire[q]) - 1
              /\ wire[q][1].type = t /\ wire[q][1].id = r
              /\ \A i \in 1 .. Len(wire'[q]) : wire'[q][i] = wire[q][i + 1]
          BY <2>0, <4>1, <4>3, Took
        <5>2. ~Opens(q, 1, s)
          BY <2>4, <4>1, <4>3, <5>1 DEF Opens
        <5> QED BY <5>1, <5>2
      <4> QED BY <2>0, <4>2, <4>3
    <3>2. ASSUME NEW p \in Side, NEW r \in StreamId, ControlStep(p, r)
          PROVE  Kept \/ Extended
      <4>1. PICK t \in {"OPEN", "CLOSE", "RESET"} : Emit(p, t, r, 0)
        BY <3>2 DEF ControlStep
      <4> QED BY <4>1, Emitted
    <3>3. ASSUME NEW p \in Side, NEW r \in StreamId, WriteStep(p, r)
          PROVE  Kept \/ Extended
      <4>1. sent[p][r] + 1 \in Nat /\ ep[p][r] = "live"
        BY <3>3, EndpointTypes DEF WriteStep, SendInv
      <4>2. /\ p # q => wire'[q] = wire[q]
            /\ Len(wire'[p]) = Len(wire[p]) + 1
            /\ \A i \in 1 .. Len(wire[p]) : wire'[p][i] = wire[p][i]
            /\ wire'[p][Len(wire[p]) + 1].id = r
        BY <3>3, <4>1, Emitted DEF WriteStep
      <4> QED BY <4>1, <4>2
    <3> QED BY <3>1, <3>2, <3>3, WireCases
  <2>8. ASSUME ep'[q][s] = "live"
        PROVE  \E i \in 1 .. Len(wire'[q]) : wire'[q][i].type = "OPEN" /\ wire'[q][i].id = s
    <3>1. CASE Emit(q, "OPEN", s, 0)
      <4>1. /\ Len(wire'[q]) = Len(wire[q]) + 1
            /\ wire'[q][Len(wire[q]) + 1].type = "OPEN" /\ wire'[q][Len(wire[q]) + 1].id = s
        BY <3>1, Emitted
      <4> QED BY <2>3, <4>1
    <3>2. CASE ep[q][s] = "live"
      <4>1. PICK i \in 1 .. Len(wire[q]) : Opens(q, i, s)
        BY <2>2, <3>2
      <4>2. CASE Kept
        BY <4>1, <4>2 DEF Opens
      <4>3. CASE Extended
        BY <2>3, <4>1, <4>3 DEF Opens
      <4>4. CASE Shifted
        <5>1. i - 1 \in 1 .. Len(wire'[q]) /\ wire'[q][i - 1] = wire[q][i]
          BY <2>3, <4>1, <4>4
        <5> QED BY <4>1, <5>1 DEF Opens
      <4> QED BY <2>7, <4>2, <4>3, <4>4
    <3> QED BY <2>6, <2>8, <3>1, <3>2
  <2>9. ASSUME NEW j \in 1 .. Len(wire'[q]), wire'[q][j].type = "DATA", wire'[q][j].id = s
        PROVE  \E i \in 1 .. Len(wire'[q]) :
                 i < j /\ wire'[q][i].type = "OPEN" /\ wire'[q][i].id = s
    <3>1. CASE Kept
      BY <2>2, <2>9, <3>1 DEF Opens
    <3>2. CASE Extended /\ j \in 1 .. Len(wire[q])
      <4>1. PICK i \in 1 .. Len(wire[q]) : i < j /\ Opens(q, i, s)
        BY <2>2, <2>9, <3>2
      <4>2. i \in 1 .. Len(wire'[q]) /\ wire'[q][i] = wire[q][i]
        BY <2>3, <3>2, <4>1
      <4> QED BY <4>1, <4>2 DEF Opens
    <3>3. CASE Extended /\ j = Len(wire[q]) + 1
      <4>1. PICK i \in 1 .. Len(wire[q]) : Opens(q, i, s)
        BY <2>2, <2>9, <3>3
      <4> QED BY <2>3, <3>3, <4>1 DEF Opens
    <3>4. CASE Shifted
      <4>1. j + 1 \in 1 .. Len(wire[q]) /\ wire'[q][j] = wire[q][j + 1]
        BY <2>3, <3>4
      <4>2. PICK i \in 1 .. Len(wire[q]) : i < j + 1 /\ Opens(q, i, s)
        BY <2>2, <2>9, <4>1
      <4>3. i # 1
        BY <3>4, <4>2
      <4>4. i - 1 \in 1 .. Len(wire'[q]) /\ wire'[q][i - 1] = wire[q][i] /\ i - 1 < j
        BY <2>3, <3>4, <4>2, <4>3
      <4> QED BY <4>2, <4>4 DEF Opens
    <3> QED BY <2>3, <2>7, <3>1, <3>2, <3>3, <3>4
  <2> QED BY <2>8, <2>9
<1> QED BY <1>1, <1>2 DEF WireLiveInv, Opens

-----------------------------------------------------------------------------
(* What has been received.                                                 *)

\* The payloads p has taken off the connection for stream s and not dropped.
Pushing(p, s) == rl[p].pc = "push" /\ rl[p].id = s
Buffered(p, s) == Len(got[p][s]) + Len(chunks[p][s])
Taken(p, s) == Buffered(p, s) + (IF Pushing(p, s) THEN 1 ELSE 0)

\* What Read returned, what Stream.chunks holds and what pushData is about to
\* add are the first payloads written at the far end.
BufferInv ==
  \A p \in Side, s \in StreamId :
    /\ \A i \in 1 .. Len(chunks[p][s]) : chunks[p][s][i] = Len(got[p][s]) + i
    /\ Taken(p, s) <= sent[Peer(p)][s]
    /\ Pushing(p, s) => rl[p].data = Buffered(p, s) + 1

\* A stream whose payloads are not dropped: it has no terminal read state, and it
\* is registered at this end or may still become so.
Fresh(p, s) ==
  /\ readErr[p][s] = "none"
  /\ s \in registered[p] \/ (ep[p][s] = "none" /\ ~closed[p])

\* The payloads of stream s that are on their way from q.
Carries(q, i, s, k) == wire[q][i].type = "DATA" /\ wire[q][i].id = s /\ wire[q][i].data = k
Carried(q, s) == {k \in Nat : \E i \in 1 .. Len(wire[q]) : Carries(q, i, s, k)}

\* For such a stream the connection holds exactly the payloads not yet taken.
FreshInv ==
  \A p \in Side, s \in StreamId :
    Fresh(p, s) => Carried(Peer(p), s) = Taken(p, s) + 1 .. sent[Peer(p)][s]

\* io.EOF stands behind the last payload.
EofInv ==
  \A p \in Side, s \in StreamId :
    /\ readErr[p][s] = "EOF" =>
         /\ Finished(Peer(p), s) /\ ~Pushing(p, s)
         /\ Buffered(p, s) = sent[Peer(p)][s]
    /\ rres[p][s] = "EOF" => readErr[p][s] = "EOF" /\ chunks[p][s] = <<>>

\* What a step of anyone else leaves a reader with: the same payloads, and at
\* most an abnormal end.
Idles(p, s) ==
  /\ got'[p][s] = got[p][s] /\ chunks'[p][s] = chunks[p][s] /\ rres'[p][s] = rres[p][s]
  /\ (rl'[p].pc = "push" /\ rl'[p].id = s) <=> Pushing(p, s)
  /\ Pushing(p, s) => rl'[p].data = rl[p].data
  /\ \/ readErr'[p][s] = readErr[p][s]
     \/ readErr[p][s] = "none" /\ readErr'[p][s] \in {"reset", "session"}

\* The steps that move the payloads of one reader.
Moves(p, s) ==
  \/ RecvData(p, s) \/ PushData(p, s) \/ PushDrop(p, s) \/ RecvClose(p, s)
  \/ Read(p, s) \/ ReadEnd(p, s)

\* Every step either moves the payloads of a reader or leaves them alone.
LEMMA ReaderCases ==
  ASSUME TypeOK, [Next]_vars
  PROVE  \A q \in Side, r \in StreamId : Idles(q, r) \/ Moves(q, r)
<1>u. CASE UNCHANGED vars
  BY <1>u DEF Idles, Pushing, vars, sessVars, connVars, flagVars, pcVars, readVars
<1>n. CASE Next
  <2>1. PICK p \in Side :
          \/ OpenStream(p) \/ Shutdown(p) \/ ShutdownEnd(p) \/ ReadFail(p) \/ BreakConn(p)
          \/ \E s \in StreamId :
               \/ RecvOpen(p, s) \/ RecvData(p, s) \/ RecvClose(p, s) \/ RecvReset(p, s)
               \/ PushData(p, s) \/ PushDrop(p, s) \/ CloseCheck(p, s) \/ OpenFrame(p, s)
               \/ WriteFrame(p, s) \/ WriteAgain(p, s) \/ CloseFrame(p, s) \/ CloseRetire(p, s)
               \/ AbortFrame(p, s) \/ AbortFinish(p, s) \/ WriteLock(p, s) \/ CloseWrite(p, s)
               \/ Abort(p, s) \/ Read(p, s) \/ ReadEnd(p, s) \/ ShutdownMark(p, s)
    BY <1>n, NextCases
  <2>2. CASE OpenStream(p)
    BY <2>2, EndpointTypes
       DEF OpenStream, Idles, Pushing, sessVars, connVars, flagVars, pcVars, readVars
  <2>3. CASE Shutdown(p)
    BY <2>3, EndpointTypes
       DEF Shutdown, Idles, Pushing, sessVars, connVars, flagVars, pcVars, readVars
  <2>4. CASE ShutdownEnd(p)
    BY <2>4, EndpointTypes
       DEF ShutdownEnd, Idles, Pushing, sessVars, connVars, flagVars, pcVars, readVars
  <2>5. CASE ReadFail(p)
    <3>1. /\ UNCHANGED <<got, chunks, rres, readErr>>
          /\ rl[p].pc = "idle" /\ rl' = [rl EXCEPT ![p] = Exit]
      BY <2>5 DEF ReadFail, readVars
    <3>2. \A q \in Side : q # p => rl'[q] = rl[q]
      BY <3>1, EndpointTypes
    <3>3. rl'[p].pc = "exit"
      BY <3>1, EndpointTypes DEF Exit
    <3> QED BY <3>1, <3>2, <3>3 DEF Idles, Pushing
  <2>6. CASE BreakConn(p)
    BY <2>6, EndpointTypes
       DEF BreakConn, Idles, Pushing, sessVars, connVars, flagVars, pcVars, readVars
  <2>7. ASSUME NEW s \in StreamId,
               \/ RecvOpen(p, s) \/ RecvData(p, s) \/ RecvClose(p, s) \/ RecvReset(p, s)
               \/ PushData(p, s) \/ PushDrop(p, s) \/ CloseCheck(p, s) \/ OpenFrame(p, s)
               \/ WriteFrame(p, s) \/ WriteAgain(p, s) \/ CloseFrame(p, s) \/ CloseRetire(p, s)
               \/ AbortFrame(p, s) \/ AbortFinish(p, s) \/ WriteLock(p, s) \/ CloseWrite(p, s)
               \/ Abort(p, s) \/ Read(p, s) \/ ReadEnd(p, s) \/ ShutdownMark(p, s)
         PROVE  \A q \in Side, r \in StreamId : Idles(q, r) \/ Moves(q, r)
    <3>1. CASE RecvOpen(p, s)
      BY <3>1, EndpointTypes
         DEF RecvOpen, Idles, Pushing, sessVars, connVars, flagVars, pcVars, readVars
    <3>2. CASE RecvData(p, s)
      <4>1. UNCHANGED <<got, rres, chunks, readErr>> /\ rl[p].pc = "idle"
        BY <3>2 DEF RecvData, Take, readVars
      <4>2. \A q \in Side : q # p => rl'[q] = rl[q]
        BY <3>2, EndpointTypes DEF RecvData
      <4>3. rl'[p] = rl[p] \/ rl'[p].pc # "push" \/ rl'[p].id = s
        BY <3>2, EndpointTypes DEF RecvData, Idle
      <4> QED BY <3>2, <4>1, <4>2, <4>3 DEF Idles, Pushing, Moves
    <3>3. CASE RecvClose(p, s)
      <4>1. UNCHANGED <<got, rres, chunks>> /\ rl[p].pc = "idle"
        BY <3>3 DEF RecvClose, Take, readVars
      <4>2. \A q \in Side : q # p => rl'[q] = rl[q]
        BY <3>3, EndpointTypes DEF RecvClose
      <4>3. rl'[p] = rl[p] \/ rl'[p].pc # "push" \/ rl'[p].id = s
        BY <3>3, EndpointTypes DEF RecvClose, Idle
      <4>4. \A q \in Side, r \in StreamId : ~(q = p /\ r = s) => readErr'[q][r] = readErr[q][r]
        BY <3>3, EndpointTypes DEF RecvClose, MarkReadDone
      <4> QED BY <3>3, <4>1, <4>2, <4>3, <4>4 DEF Idles, Pushing, Moves
    <3>4. CASE RecvReset(p, s)
      <4>1. UNCHANGED <<got, rres, chunks, rl>>
        BY <3>4 DEF RecvReset, readVars
      <4>2. \A q \in Side, r \in StreamId :
              \/ readErr'[q][r] = readErr[q][r]
              \/ readErr[q][r] = "none" /\ readErr'[q][r] = "reset"
        <5>1. \/ readErr' = readErr
              \/ readErr' = [readErr EXCEPT ![p][s] = IF @ = "none" THEN "reset" ELSE @]
          BY <3>4 DEF RecvReset, MarkReadDone
        <5>2. readErr \in [Side -> [StreamId -> ReadErr]]
          BY EndpointTypes
        <5> QED BY <5>1, <5>2
      <4> QED BY <4>1, <4>2 DEF Idles, Pushing
    <3>5. CASE PushData(p, s)
      <4>1. UNCHANGED <<got, rres, readErr>> /\ rl[p].pc = "push" /\ rl[p].id = s
        BY <3>5 DEF PushData, Take, readVars
      <4>2. \A q \in Side : q # p => rl'[q] = rl[q]
        BY <3>5, EndpointTypes DEF PushData
      <4>3. rl'[p] = rl[p] \/ rl'[p].pc # "push" \/ rl'[p].id = s
        BY <3>5, EndpointTypes DEF PushData, Idle
      <4>4. \A q \in Side, r \in StreamId : ~(q = p /\ r = s) => chunks'[q][r] = chunks[q][r]
        BY <3>5, EndpointTypes DEF PushData
      <4> QED BY <3>5, <4>1, <4>2, <4>3, <4>4 DEF Idles, Pushing, Moves
    <3>6. CASE PushDrop(p, s)
      <4>1. UNCHANGED <<got, rres, chunks, readErr>> /\ rl[p].pc = "push" /\ rl[p].id = s
        BY <3>6 DEF PushDrop, Take, readVars
      <4>2. \A q \in Side : q # p => rl'[q] = rl[q]
        BY <3>6, EndpointTypes DEF PushDrop
      <4>3. rl'[p] = rl[p] \/ rl'[p].pc # "push" \/ rl'[p].id = s
        BY <3>6, EndpointTypes DEF PushDrop, Idle
      <4> QED BY <3>6, <4>1, <4>2, <4>3 DEF Idles, Pushing, Moves
    <3>7. CASE CloseCheck(p, s)
      <4>1. UNCHANGED <<got, rres, chunks, readErr>> /\ rl[p].pc = "close"
        BY <3>7 DEF CloseCheck, readVars
      <4>2. \A q \in Side : q # p => rl'[q] = rl[q]
        BY <3>7, EndpointTypes DEF CloseCheck
      <4>3. rl'[p].pc # "push"
        BY <3>7, EndpointTypes DEF CloseCheck, Idle
      <4> QED BY <4>1, <4>2, <4>3 DEF Idles, Pushing
    <3>8. CASE OpenFrame(p, s)
      BY <3>8, EndpointTypes
         DEF OpenFrame, Idles, Pushing, sessVars, connVars, flagVars, pcVars, readVars
    <3>9. CASE WriteFrame(p, s)
      BY <3>9, EndpointTypes
         DEF WriteFrame, Idles, Pushing, sessVars, connVars, flagVars, pcVars, readVars
    <3>10. CASE WriteAgain(p, s)
      BY <3>10, EndpointTypes
         DEF WriteAgain, Idles, Pushing, sessVars, connVars, flagVars, pcVars, readVars
    <3>11. CASE CloseFrame(p, s)
      BY <3>11, EndpointTypes
         DEF CloseFrame, Idles, Pushing, sessVars, connVars, flagVars, pcVars, readVars
    <3>12. CASE CloseRetire(p, s)
      BY <3>12, EndpointTypes
         DEF CloseRetire, Idles, Pushing, sessVars, connVars, flagVars, pcVars, readVars
    <3>13. CASE AbortFrame(p, s)
      BY <3>13, EndpointTypes
         DEF AbortFrame, Idles, Pushing, sessVars, connVars, flagVars, pcVars, readVars
    <3>14. CASE AbortFinish(p, s)
      <4>1. UNCHANGED <<got, rres, chunks, rl>>
        BY <3>14 DEF AbortFinish, readVars
      <4>2. \A q \in Side, r \in StreamId :
              \/ readErr'[q][r] = readErr[q][r]
              \/ readErr[q][r] = "none" /\ readErr'[q][r] = "reset"
        BY <3>14, EndpointTypes DEF AbortFinish, MarkReadDone
      <4> QED BY <4>1, <4>2 DEF Idles, Pushing
    <3>15. CASE WriteLock(p, s)
      BY <3>15, EndpointTypes
         DEF WriteLock, Idles, Pushing, sessVars, connVars, flagVars, pcVars, readVars
    <3>16. CASE CloseWrite(p, s)
      BY <3>16, EndpointTypes
         DEF CloseWrite, Idles, Pushing, sessVars, connVars, flagVars, pcVars, readVars
    <3>17. CASE Abort(p, s)
      BY <3>17, EndpointTypes
         DEF Abort, Idles, Pushing, sessVars, connVars, flagVars, pcVars, readVars
    <3>18. CASE Read(p, s)
      <4>1. UNCHANGED <<rres, readErr, rl>>
        BY <3>18 DEF Read
      <4>2. \A q \in Side, r \in StreamId : ~(q = p /\ r = s) =>
              got'[q][r] = got[q][r] /\ chunks'[q][r] = chunks[q][r]
        BY <3>18, EndpointTypes DEF Read
      <4> QED BY <3>18, <4>1, <4>2 DEF Idles, Pushing, Moves
    <3>19. CASE ReadEnd(p, s)
      <4>1. UNCHANGED <<got, chunks, readErr, rl>>
        BY <3>19 DEF ReadEnd
      <4>2. \A q \in Side, r \in StreamId : ~(q = p /\ r = s) => rres'[q][r] = rres[q][r]
        BY <3>19, EndpointTypes DEF ReadEnd
      <4> QED BY <3>19, <4>1, <4>2 DEF Idles, Pushing, Moves
    <3>20. CASE ShutdownMark(p, s)
      <4>1. UNCHANGED <<got, rres, chunks, rl>>
        BY <3>20 DEF ShutdownMark, readVars
      <4>2. \A q \in Side, r \in StreamId :
              \/ readErr'[q][r] = readErr[q][r]
              \/ readErr[q][r] = "none" /\ readErr'[q][r] = "session"
        BY <3>20, EndpointTypes DEF ShutdownMark, MarkReadDone
      <4> QED BY <4>1, <4>2 DEF Idles, Pushing
    <3> QED BY <2>7, <3>1, <3>2, <3>3, <3>4, <3>5, <3>6, <3>7, <3>8, <3>9, <3>10,
               <3>11, <3>12, <3>13, <3>14, <3>15, <3>16, <3>17, <3>18, <3>19, <3>20
  <2> QED BY <2>1, <2>2, <2>3, <2>4, <2>5, <2>6, <2>7
<1> QED BY <1>u, <1>n

\* Adding up two counts.
LEMMA SumOfNats == \A m, n \in Nat : m + n \in Nat
OBVIOUS

\* The counts of payloads are natural numbers.
LEMMA Counts ==
  ASSUME TypeOK, NEW p \in Side, NEW s \in StreamId
  PROVE  /\ got[p][s] \in Seq(Nat) /\ chunks[p][s] \in Seq(Nat)
         /\ Len(got[p][s]) \in Nat /\ Len(chunks[p][s]) \in Nat
         /\ sent[Peer(p)][s] \in Nat /\ Buffered(p, s) \in Nat /\ Taken(p, s) \in Nat
         /\ Taken(p, s) = IF Pushing(p, s) THEN Buffered(p, s) + 1 ELSE Buffered(p, s)
<1>1. got[p][s] \in Seq(Nat) /\ chunks[p][s] \in Seq(Nat) /\ sent[Peer(p)][s] \in Nat
  BY EndpointTypes, PeerType
<1>2. Len(got[p][s]) \in Nat /\ Len(chunks[p][s]) \in Nat
  BY <1>1
<1>3. Buffered(p, s) \in Nat
  BY <1>2, SumOfNats, Zenon DEF Buffered
<1>4. Pushing(p, s) \in BOOLEAN
  BY DEF Pushing
<1>5. Taken(p, s) = IF Pushing(p, s) THEN Buffered(p, s) + 1 ELSE Buffered(p, s)
  BY <1>3, <1>4 DEF Taken
<1> QED BY <1>1, <1>2, <1>3, <1>5

\* So they are after a step.
LEMMA CountsNext ==
  ASSUME TypeOK', NEW p \in Side, NEW s \in StreamId
  PROVE  /\ Len(got'[p][s]) \in Nat /\ Len(chunks'[p][s]) \in Nat
         /\ sent'[Peer(p)][s] \in Nat /\ Buffered(p, s)' \in Nat
         /\ Taken(p, s)' = IF Pushing(p, s)' THEN Buffered(p, s)' + 1 ELSE Buffered(p, s)'
<1>1. got'[p][s] \in Seq(Nat) /\ chunks'[p][s] \in Seq(Nat) /\ sent'[Peer(p)][s] \in Nat
  BY PeerType DEF TypeOK, EndpointsOf
<1>2. Len(got'[p][s]) \in Nat /\ Len(chunks'[p][s]) \in Nat
  BY <1>1
<1>3. Buffered(p, s)' \in Nat
  BY <1>2, SumOfNats, Zenon DEF Buffered
<1>4. Pushing(p, s)' \in BOOLEAN
  BY DEF Pushing
<1>5. Taken(p, s)' = IF Pushing(p, s)' THEN Buffered(p, s)' + 1 ELSE Buffered(p, s)'
  BY <1>3, <1>4 DEF Taken
<1> QED BY <1>1, <1>2, <1>3, <1>5

\* A stream that is fresh after a step was fresh before it.
LEMMA FreshBefore ==
  ASSUME TypeOK, OpenInv, [Next]_vars, NEW p \in Side, NEW s \in StreamId, Fresh(p, s)'
  PROVE  Fresh(p, s)
<1>1. EndpointAdvances(p, s) /\ (closed[p] => closed'[p])
  BY EndpointsOnlyAdvance, SendersOnlyAdvance
<1> QED BY <1>1 DEF Fresh, EndpointAdvances

\* The DATA frame readLoop takes for a fresh stream is of a registered one and
\* carries the payload after those already taken, the next ones coming behind.
LEMMA NextPayload ==
  ASSUME TypeOK, WireOrderInv, WireLiveInv, FreshInv,
         NEW p \in Side, NEW s \in StreamId, RecvData(p, s), Fresh(p, s)
  PROVE  /\ s \in registered[p] /\ ~ReadDone(p, s) /\ ~Pushing(p, s)
         /\ Head(wire[Peer(p)]).data = Taken(p, s) + 1
         /\ Taken(p, s) + 1 <= sent[Peer(p)][s]
         /\ Carried(Peer(p), s)' = Taken(p, s) + 2 .. sent[Peer(p)][s]
<1> DEFINE q == Peer(p)
           h == wire[q][1].data
<1>1. /\ q \in Side /\ Peer(q) = p /\ rl[p].pc = "idle"
      /\ Len(wire[q]) \in Nat \ {0} /\ Len(wire'[q]) = Len(wire[q]) - 1
      /\ Head(wire[q]) = wire[q][1] /\ wire[q][1].type = "DATA" /\ wire[q][1].id = s
      /\ \A i \in 1 .. Len(wire'[q]) : wire'[q][i] = wire[q][i + 1] /\ i + 1 \in 1 .. Len(wire[q])
  BY Took DEF RecvData
<1>2. s \in registered[p] /\ ~ReadDone(p, s)
  <2>1. ~(ep[p][s] = "none" /\ ~closed[p])
    BY <1>1 DEF WireLiveInv
  <2> QED BY <2>1 DEF Fresh, ReadDone
<1>3. h \in Nat /\ Taken(p, s) \in Nat /\ sent[q][s] \in Nat
  <2>2. 1 \in 1 .. Len(wire[q])
    BY <1>1
  <2>3. h \in Nat
    BY <1>1, <2>2, EndpointTypes
  <2> QED BY <2>3, Counts
<1>4. Carried(q, s) = Taken(p, s) + 1 .. sent[q][s]
  BY DEF FreshInv
<1>5. \A k \in Nat : k \in Carried(q, s) <=> k = h \/ k \in Carried(q, s)'
  <2>1. ASSUME NEW k \in Nat, k \in Carried(q, s), k # h
        PROVE  k \in Carried(q, s)'
    <3>1. PICK i \in 1 .. Len(wire[q]) : Carries(q, i, s, k)
      BY <2>1 DEF Carried
    <3>2. i # 1
      BY <2>1, <3>1 DEF Carries
    <3>3. i - 1 \in 1 .. Len(wire'[q]) /\ wire'[q][i - 1] = wire[q][i]
      BY <1>1, <3>1, <3>2
    <3> QED BY <3>1, <3>3 DEF Carried, Carries
  <2>2. ASSUME NEW k \in Nat, k \in Carried(q, s)'
        PROVE  k \in Carried(q, s)
    <3>1. PICK i \in 1 .. Len(wire'[q]) : Carries(q, i, s, k)'
      BY <2>2 DEF Carried
    <3>2. i + 1 \in 1 .. Len(wire[q]) /\ wire'[q][i] = wire[q][i + 1]
      BY <1>1
    <3> QED BY <3>1, <3>2 DEF Carried, Carries
  <2>3. h \in Carried(q, s)
    <3>1. 1 \in 1 .. Len(wire[q])
      BY <1>1
    <3> QED BY <1>1, <1>3, <3>1 DEF Carried, Carries
  <2> QED BY <2>1, <2>2, <2>3
<1>6. \A k \in Nat : k \in Carried(q, s)' => k > h
  <2>1. ASSUME NEW k \in Nat, k \in Carried(q, s)'
        PROVE  k > h
    <3>1. PICK i \in 1 .. Len(wire'[q]) : Carries(q, i, s, k)'
      BY <2>1 DEF Carried
    <3>2. /\ i + 1 \in 1 .. Len(wire[q]) /\ wire'[q][i] = wire[q][i + 1]
          /\ 1 \in 1 .. Len(wire[q]) /\ 1 < i + 1
      BY <1>1
    <3>3. wire[q][i + 1].type = "DATA" /\ wire[q][i + 1].id = s /\ wire[q][i + 1].data = k
      BY <3>1, <3>2 DEF Carries
    <3>4. h < wire[q][i + 1].data
      BY <1>1, <3>2, <3>3 DEF WireOrderInv
    <3> QED BY <1>3, <3>3, <3>4
  <2> QED BY <2>1
<1>7. Carried(q, s)' \subseteq Nat
  BY DEF Carried
<1> HIDE DEF h, q
<1>8. h = Taken(p, s) + 1 /\ h <= sent[q][s]
  BY <1>3, <1>4, <1>5, <1>6
<1>9. Carried(q, s)' = Taken(p, s) + 2 .. sent[q][s]
  <2>1. \A k \in Nat : k \in Carried(q, s)' <=> k \in Taken(p, s) + 2 .. sent[q][s]
    BY <1>3, <1>4, <1>5, <1>6, <1>8
  <2>2. Taken(p, s) + 2 .. sent[q][s] \subseteq Nat
    BY <1>3
  <2> HIDE DEF Taken, Carried
  <2> QED BY <1>7, <2>1, <2>2
<1> QED BY <1>1, <1>2, <1>8, <1>9 DEF q, h, Pushing

\* Every action keeps BufferInv.
LEMMA BufferStep ==
  ASSUME TypeOK, OpenInv, WireOrderInv, WireLiveInv, BufferInv, FreshInv, [Next]_vars
  PROVE  BufferInv'
<1> SUFFICES ASSUME NEW p \in Side, NEW s \in StreamId
             PROVE  /\ \A i \in 1 .. Len(chunks'[p][s]) : chunks'[p][s][i] = Len(got'[p][s]) + i
                    /\ Taken(p, s)' <= sent'[Peer(p)][s]
                    /\ Pushing(p, s)' => rl'[p].data = Buffered(p, s)' + 1
  BY PeerType DEF BufferInv
<1> DEFINE c == chunks[p][s]
           g == got[p][s]
           S == sent[Peer(p)][s]
<1>1. /\ g \in Seq(Nat) /\ c \in Seq(Nat) /\ Len(g) \in Nat /\ Len(c) \in Nat
      /\ S \in Nat /\ Buffered(p, s) \in Nat
      /\ Taken(p, s) = IF Pushing(p, s) THEN Buffered(p, s) + 1 ELSE Buffered(p, s)
  BY Counts
<1>2. /\ Len(g') \in Nat /\ Len(c') \in Nat /\ S' \in Nat /\ Buffered(p, s)' \in Nat
      /\ Taken(p, s)' = IF Pushing(p, s)' THEN Buffered(p, s)' + 1 ELSE Buffered(p, s)'
  BY TypeStep, CountsNext
<1>3. /\ \A i \in 1 .. Len(c) : c[i] = Len(g) + i
      /\ Taken(p, s) <= S
      /\ Pushing(p, s) => rl[p].data = Buffered(p, s) + 1
  BY DEF BufferInv
<1>4. S <= S'
  BY SendersOnlyAdvance, PeerType
<1>b. Buffered(p, s) = Len(g) + Len(c) /\ Buffered(p, s)' = Len(g') + Len(c')
  BY DEF Buffered
<1> HIDE DEF c, g, S
<1>5. rl \in [Side -> RLState]
  BY EndpointTypes
<1> SUFFICES /\ \A i \in 1 .. Len(c') : c'[i] = Len(g') + i
             /\ Taken(p, s)' <= S'
             /\ Pushing(p, s)' => rl'[p].data = Buffered(p, s)' + 1
  BY DEF c, g, S
<1>t. /\ Taken(p, s) \in Nat /\ Taken(p, s)' \in Nat
      /\ Taken(p, s)' <= Taken(p, s) => Taken(p, s)' <= S'
  <2>1. Taken(p, s) \in Nat
    BY <1>1
  <2>2. Taken(p, s)' \in Nat
    BY <1>2
  <2>3. S \in Nat /\ S' \in Nat /\ S <= S' /\ Taken(p, s) <= S
    BY <1>1, <1>2, <1>3, <1>4
  <2> HIDE DEF Taken
  <2> QED BY <2>1, <2>2, <2>3
<1>6. CASE Idles(p, s)
  <2>1. /\ g' = g /\ c' = c /\ Buffered(p, s)' = Buffered(p, s)
        /\ Pushing(p, s)' <=> Pushing(p, s)
        /\ Pushing(p, s) => rl'[p].data = rl[p].data
    BY <1>6, <1>b DEF Idles, Pushing, c, g
  <2>2. Taken(p, s)' = Taken(p, s)
    BY <1>1, <1>2, <2>1
  <2>3. Taken(p, s)' <= S'
    BY <1>t, <2>2
  <2>4. Pushing(p, s)' => rl'[p].data = Buffered(p, s)' + 1
    BY <1>3, <2>1
  <2> QED BY <1>3, <2>1, <2>3, <2>4
<1>7. CASE PushData(p, s)
  <2>1. /\ g' = g /\ c' = Append(c, rl[p].data) /\ rl'[p].pc = "idle"
        /\ Pushing(p, s) /\ rl[p].data \in Nat
    BY <1>5, <1>7, EndpointTypes DEF PushData, Pushing, readVars, RLState, Idle, c, g
  <2>2. ~Pushing(p, s)' /\ Buffered(p, s)' = Buffered(p, s) + 1
    BY <1>1, <1>b, <2>1 DEF Pushing
  <2>3. Taken(p, s)' = Taken(p, s)
    BY <1>1, <1>2, <2>1, <2>2
  <2>4. \A i \in 1 .. Len(c') : c'[i] = Len(g') + i
    <3>1. rl[p].data = Len(g) + Len(c) + 1
      BY <1>3, <1>b, <2>1
    <3>2. Len(c') = Len(c) + 1 /\ c'[Len(c) + 1] = rl[p].data /\ \A i \in 1 .. Len(c) : c'[i] = c[i]
      BY <1>1, <2>1
    <3>3. \A i \in 1 .. Len(c') : i \in 1 .. Len(c) \/ i = Len(c) + 1
      BY <1>1, <3>2
    <3>4. c'[Len(c) + 1] = Len(g') + (Len(c) + 1)
      BY <1>1, <2>1, <3>1, <3>2
    <3> QED BY <1>3, <2>1, <3>2, <3>3, <3>4
  <2>5. Taken(p, s)' <= S'
    BY <1>t, <2>3
  <2> QED BY <2>2, <2>4, <2>5
<1>8. CASE PushDrop(p, s)
  <2>1. g' = g /\ c' = c /\ rl'[p].pc = "idle" /\ Buffered(p, s)' = Buffered(p, s)
    BY <1>5, <1>8 DEF PushDrop, readVars, Idle, Buffered, c, g
  <2>2. ~Pushing(p, s)' /\ Taken(p, s)' <= Taken(p, s)
    BY <1>1, <1>2, <2>1 DEF Pushing
  <2>3. Taken(p, s)' <= S'
    BY <1>t, <2>2
  <2> QED BY <1>3, <2>1, <2>2, <2>3
<1>9. CASE Read(p, s)
  <2>1. /\ c # <<>> /\ c' = Tail(c) /\ g' = Append(g, Head(c)) /\ rl' = rl
    BY <1>9, EndpointTypes DEF Read, c, g
  <2>2. Len(c') = Len(c) - 1 /\ Len(g') = Len(g) + 1 /\ \A i \in 1 .. Len(c') : c'[i] = c[i + 1]
    BY <1>1, <2>1
  <2>3. Buffered(p, s)' = Buffered(p, s) /\ (Pushing(p, s)' <=> Pushing(p, s))
    BY <1>1, <1>b, <2>1, <2>2 DEF Pushing
  <2>4. \A i \in 1 .. Len(c') : c'[i] = Len(g') + i
    BY <1>1, <1>3, <2>2
  <2>5. Taken(p, s)' = Taken(p, s)
    BY <1>1, <1>2, <2>3
  <2>6. Taken(p, s)' <= S'
    BY <1>t, <2>5
  <2>7. Pushing(p, s)' => rl'[p].data = Buffered(p, s)' + 1
    BY <1>3, <2>1, <2>3
  <2> QED BY <2>4, <2>6, <2>7
<1>10. CASE ReadEnd(p, s)
  <2>1. g' = g /\ c' = c /\ rl' = rl
    BY <1>10 DEF ReadEnd, c, g
  <2>2. Buffered(p, s)' = Buffered(p, s) /\ (Pushing(p, s)' <=> Pushing(p, s))
    BY <1>b, <2>1 DEF Pushing
  <2>3. Taken(p, s)' = Taken(p, s)
    BY <1>1, <1>2, <2>2
  <2>4. Taken(p, s)' <= S'
    BY <1>t, <2>3
  <2>5. Pushing(p, s)' => rl'[p].data = Buffered(p, s)' + 1
    BY <1>3, <2>1, <2>2
  <2> QED BY <1>3, <2>1, <2>4, <2>5
<1>11. CASE RecvClose(p, s)
  <2>1. g' = g /\ c' = c /\ rl[p].pc = "idle" /\ rl'[p].pc # "push"
    BY <1>5, <1>11 DEF RecvClose, Take, readVars, c, g
  <2>2. Buffered(p, s)' = Buffered(p, s) /\ ~Pushing(p, s)' /\ ~Pushing(p, s)
    BY <1>b, <2>1 DEF Pushing
  <2>3. Taken(p, s)' = Taken(p, s)
    BY <1>1, <1>2, <2>2
  <2>4. Taken(p, s)' <= S'
    BY <1>t, <2>3
  <2> QED BY <1>3, <2>1, <2>2, <2>4
<1>12. CASE RecvData(p, s)
  <2>1. g' = g /\ c' = c /\ rl[p].pc = "idle" /\ Buffered(p, s)' = Buffered(p, s) /\ ~Pushing(p, s)
    BY <1>12 DEF RecvData, Take, readVars, Buffered, Pushing, c, g
  <2>2. CASE s \in registered[p] /\ ~ReadDone(p, s)
    <3>1. Fresh(p, s)
      BY <2>2 DEF Fresh, ReadDone
    <3>2. Head(wire[Peer(p)]).data = Taken(p, s) + 1 /\ Taken(p, s) + 1 <= S
      BY <1>12, <3>1, NextPayload DEF S
    <3>3. rl'[p] = [pc |-> "push", id |-> s, data |-> Head(wire[Peer(p)]).data]
      BY <1>5, <1>12, <2>2 DEF RecvData
    <3>4. Pushing(p, s)' /\ rl'[p].data = Buffered(p, s)' + 1
      BY <1>1, <2>1, <3>2, <3>3 DEF Pushing
    <3>5. Taken(p, s)' = Taken(p, s) + 1
      BY <1>1, <1>2, <2>1, <3>4
    <3>6. Taken(p, s)' <= S'
      <4>1. S \in Nat /\ S' \in Nat /\ S <= S'
        BY <1>1, <1>2, <1>4
      <4> HIDE DEF Taken
      <4> QED BY <1>t, <3>2, <3>5, <4>1
    <3> QED BY <1>3, <2>1, <3>4, <3>6
  <2>3. CASE ~(s \in registered[p] /\ ~ReadDone(p, s))
    <3>1. rl' = rl
      BY <1>5, <1>12, <2>3 DEF RecvData
    <3>2. ~Pushing(p, s)' /\ Taken(p, s)' = Taken(p, s)
      BY <1>1, <1>2, <2>1, <3>1 DEF Pushing
    <3>3. Taken(p, s)' <= S'
      BY <1>t, <3>2
    <3> QED BY <1>3, <2>1, <3>2, <3>3
  <2> QED BY <2>2, <2>3
<1> QED BY <1>6, <1>7, <1>8, <1>9, <1>10, <1>11, <1>12, ReaderCases DEF Moves

\* Only pushData's drop and a new DATA frame change how many payloads were taken.
LEMMA TakenKept ==
  ASSUME TypeOK, [Next]_vars, NEW p \in Side, NEW s \in StreamId,
         ~RecvData(p, s), ~PushDrop(p, s)
  PROVE  Taken(p, s)' = Taken(p, s)
<1> DEFINE c == chunks[p][s]
           g == got[p][s]
<1>1. /\ g \in Seq(Nat) /\ c \in Seq(Nat) /\ Buffered(p, s) \in Nat
      /\ Taken(p, s) = IF Pushing(p, s) THEN Buffered(p, s) + 1 ELSE Buffered(p, s)
      /\ Taken(p, s)' = IF Pushing(p, s)' THEN Buffered(p, s)' + 1 ELSE Buffered(p, s)'
      /\ Pushing(p, s) \in BOOLEAN /\ Pushing(p, s)' \in BOOLEAN
  BY Counts, CountsNext, TypeStep DEF Pushing
<1>2. Buffered(p, s) = Len(g) + Len(c) /\ Buffered(p, s)' = Len(g') + Len(c')
  BY DEF Buffered
<1>3. rl \in [Side -> RLState]
  BY EndpointTypes
<1> HIDE DEF c, g
<1>4. CASE Idles(p, s)
  <2>1. g' = g /\ c' = c /\ (Pushing(p, s)' <=> Pushing(p, s))
    BY <1>4 DEF Idles, Pushing, c, g
  <2> QED BY <1>1, <1>2, <2>1
<1>5. CASE PushData(p, s)
  <2>1. g' = g /\ c' = Append(c, rl[p].data) /\ rl'[p].pc = "idle" /\ Pushing(p, s) /\ rl[p].data \in Nat
    BY <1>3, <1>5, EndpointTypes DEF PushData, Pushing, readVars, RLState, Idle, c, g
  <2>2. ~Pushing(p, s)' /\ Buffered(p, s)' = Buffered(p, s) + 1
    BY <1>1, <1>2, <2>1 DEF Pushing
  <2> QED BY <1>1, <2>1, <2>2
<1>6. CASE Read(p, s)
  <2>1. c # <<>> /\ c' = Tail(c) /\ g' = Append(g, Head(c)) /\ rl' = rl
    BY <1>6, EndpointTypes DEF Read, c, g
  <2>2. Buffered(p, s)' = Buffered(p, s) /\ (Pushing(p, s)' <=> Pushing(p, s))
    BY <1>1, <1>2, <2>1 DEF Pushing
  <2> QED BY <1>1, <2>2
<1>7. CASE ReadEnd(p, s)
  <2>1. g' = g /\ c' = c /\ rl' = rl
    BY <1>7 DEF ReadEnd, c, g
  <2>2. Buffered(p, s)' = Buffered(p, s) /\ (Pushing(p, s)' <=> Pushing(p, s))
    BY <1>2, <2>1 DEF Pushing
  <2> QED BY <1>1, <2>2
<1>8. CASE RecvClose(p, s)
  <2>1. g' = g /\ c' = c /\ rl[p].pc = "idle" /\ rl'[p].pc # "push"
    BY <1>3, <1>8 DEF RecvClose, Take, readVars, c, g
  <2>2. Buffered(p, s)' = Buffered(p, s) /\ ~Pushing(p, s)' /\ ~Pushing(p, s)
    BY <1>2, <2>1 DEF Pushing
  <2> QED BY <1>1, <2>2
<1> QED BY <1>4, <1>5, <1>6, <1>7, <1>8, ReaderCases DEF Moves

\* A payload joins those on their way when it is written, and no other step but
\* the one that takes it changes them.
LEMMA CarriedKept ==
  ASSUME TypeOK, SendInv, [Next]_vars, NEW p \in Side, NEW s \in StreamId, ~RecvData(p, s)
  PROVE  LET q == Peer(p) IN
         \/ Carried(q, s)' = Carried(q, s) /\ sent'[q][s] = sent[q][s]
         \/ /\ Carried(q, s)' = Carried(q, s) \cup {sent[q][s] + 1}
            /\ sent'[q][s] = sent[q][s] + 1
<1> DEFINE q == Peer(p)
<1>0. q \in Side /\ q # p /\ Side = {p, q} /\ Peer(q) = p
  BY PeerType DEF Side, Peer
<1>1. sent \in [Side -> [StreamId -> Nat]] /\ Len(wire[q]) \in Nat
  BY <1>0, EndpointTypes
<1> HIDE DEF q
<1>2. ASSUME wire'[q] = wire[q]
      PROVE  Carried(q, s)' = Carried(q, s)
  BY <1>2 DEF Carried, Carries
<1>3. ASSUME NEW r \in StreamId, TakeStep(p, r)
      PROVE  Carried(q, s)' = Carried(q, s)
  <2>1. PICK t : Take(p, t, r) /\ (Take(p, "DATA", r) => RecvData(p, r))
    BY <1>3 DEF TakeStep
  <2>2. /\ Len(wire[q]) \in Nat \ {0} /\ Len(wire'[q]) = Len(wire[q]) - 1
        /\ wire[q][1].type = t /\ wire[q][1].id = r
        /\ \A i \in 1 .. Len(wire'[q]) : wire'[q][i] = wire[q][i + 1]
    BY <2>1, Took DEF q
  <2>3. ~(t = "DATA" /\ r = s)
    BY <2>1
  <2>4. ASSUME NEW k \in Nat, NEW i \in 1 .. Len(wire[q]), Carries(q, i, s, k)
        PROVE  \E j \in 1 .. Len(wire'[q]) : Carries(q, j, s, k)'
    <3>1. i # 1
      BY <2>2, <2>3, <2>4 DEF Carries
    <3>2. i - 1 \in 1 .. Len(wire'[q]) /\ wire'[q][i - 1] = wire[q][i]
      BY <2>2, <3>1
    <3> QED BY <2>4, <3>2 DEF Carries
  <2>5. ASSUME NEW k \in Nat, NEW i \in 1 .. Len(wire'[q]), Carries(q, i, s, k)'
        PROVE  \E j \in 1 .. Len(wire[q]) : Carries(q, j, s, k)
    <3>1. i + 1 \in 1 .. Len(wire[q]) /\ wire'[q][i] = wire[q][i + 1]
      BY <2>2
    <3> QED BY <2>5, <3>1 DEF Carries
  <2> QED BY <2>4, <2>5 DEF Carried
<1>4. ASSUME NEW r \in StreamId, NEW t \in {"OPEN", "DATA", "CLOSE", "RESET"}, NEW n \in Nat,
             Emit(q, t, r, n)
      PROVE  Carried(q, s)' = Carried(q, s) \cup (IF t = "DATA" /\ r = s THEN {n} ELSE {})
  <2>1. /\ Len(wire'[q]) = Len(wire[q]) + 1
        /\ \A i \in 1 .. Len(wire[q]) : wire'[q][i] = wire[q][i]
        /\ wire'[q][Len(wire[q]) + 1].type = t /\ wire'[q][Len(wire[q]) + 1].id = r
        /\ wire'[q][Len(wire[q]) + 1].data = n
    BY <1>0, <1>4, Emitted
  <2>2. ASSUME NEW k \in Nat, NEW i \in 1 .. Len(wire[q]), Carries(q, i, s, k)
        PROVE  \E j \in 1 .. Len(wire'[q]) : Carries(q, j, s, k)'
    <3>1. i \in 1 .. Len(wire'[q]) /\ wire'[q][i] = wire[q][i]
      BY <1>1, <2>1
    <3> QED BY <2>2, <3>1 DEF Carries
  <2>3. ASSUME NEW k \in Nat, NEW i \in 1 .. Len(wire'[q]), Carries(q, i, s, k)'
        PROVE  \/ \E j \in 1 .. Len(wire[q]) : Carries(q, j, s, k)
               \/ t = "DATA" /\ r = s /\ k = n
    <3>1. i \in 1 .. Len(wire[q]) \/ i = Len(wire[q]) + 1
      BY <1>1, <2>1
    <3> QED BY <2>1, <2>3, <3>1 DEF Carries
  <2>4. t = "DATA" /\ r = s => \E j \in 1 .. Len(wire'[q]) : Carries(q, j, s, n)'
    <3>1. Len(wire[q]) + 1 \in 1 .. Len(wire'[q])
      BY <1>1, <2>1
    <3> QED BY <2>1, <3>1 DEF Carries
  <2> QED BY <2>2, <2>3, <2>4 DEF Carried
<1>5. ASSUME NEW x \in Side, NEW r \in StreamId, TakeStep(x, r)
      PROVE  Carried(q, s)' = Carried(q, s) /\ sent'[q][s] = sent[q][s]
  <2>1. sent' = sent /\ \E t : Take(x, t, r)
    BY <1>5 DEF TakeStep
  <2>2. CASE x = q
    <3>1. wire'[q] = wire[q]
      BY <1>0, <2>1, <2>2, Took
    <3> QED BY <1>2, <2>1, <3>1
  <2>3. CASE x = p
    BY <1>3, <1>5, <2>1, <2>3
  <2> QED BY <1>0, <2>2, <2>3
<1>6. ASSUME NEW x \in Side, NEW r \in StreamId, ControlStep(x, r)
      PROVE  Carried(q, s)' = Carried(q, s) /\ sent'[q][s] = sent[q][s]
  <2>1. sent' = sent /\ \E t \in {"OPEN", "CLOSE", "RESET"} : Emit(x, t, r, 0)
    BY <1>6 DEF ControlStep
  <2>2. CASE x = q
    BY <1>4, <2>1, <2>2
  <2>3. CASE x # q
    <3>1. wire'[q] = wire[q]
      BY <1>0, <2>1, <2>3, Emitted
    <3> QED BY <1>2, <2>1, <3>1
  <2> QED BY <2>2, <2>3
<1>7. ASSUME NEW x \in Side, NEW r \in StreamId, WriteStep(x, r)
      PROVE  \/ Carried(q, s)' = Carried(q, s) /\ sent'[q][s] = sent[q][s]
             \/ /\ Carried(q, s)' = Carried(q, s) \cup {sent[q][s] + 1}
                /\ sent'[q][s] = sent[q][s] + 1
  <2>1. /\ Emit(x, "DATA", r, sent[x][r] + 1) /\ sent[x][r] + 1 \in Nat
        /\ sent' = [sent EXCEPT ![x][r] = @ + 1]
    BY <1>1, <1>7 DEF WriteStep
  <2>2. CASE x # q
    <3>1. wire'[q] = wire[q] /\ sent'[q][s] = sent[q][s]
      BY <1>0, <1>1, <2>1, <2>2, Emitted
    <3> QED BY <1>2, <3>1
  <2>3. CASE x = q /\ r # s
    <3>1. sent'[q][s] = sent[q][s]
      BY <1>0, <1>1, <2>1, <2>3
    <3> QED BY <1>4, <2>1, <2>3, <3>1
  <2>4. CASE x = q /\ r = s
    <3>1. sent'[q][s] = sent[q][s] + 1
      BY <1>0, <1>1, <2>1, <2>4
    <3> QED BY <1>4, <2>1, <2>4, <3>1
  <2> QED BY <2>2, <2>3, <2>4
<1>8. CASE UNCHANGED <<wire, sent>>
  BY <1>2, <1>8 DEF q
<1> QED BY <1>5, <1>6, <1>7, <1>8, WireCases DEF q

\* Every action keeps FreshInv: a payload that is dropped is of a stream that has
\* ended, and one that is not goes to pushData next.
LEMMA FreshStep ==
  ASSUME TypeOK, OpenInv, ShutdownInv, SendInv, WireOrderInv, WireLiveInv, BufferInv, FreshInv,
         [Next]_vars
  PROVE  FreshInv'
<1> SUFFICES ASSUME NEW p \in Side, NEW s \in StreamId, Fresh(p, s)'
             PROVE  Carried(Peer(p), s)' = Taken(p, s)' + 1 .. sent'[Peer(p)][s]
  BY DEF FreshInv
<1> DEFINE S == sent[Peer(p)][s]
<1>1. Fresh(p, s)
  BY FreshBefore
<1>2. Carried(Peer(p), s) = Taken(p, s) + 1 .. S
  BY <1>1 DEF FreshInv
<1>3. Taken(p, s) \in Nat /\ S \in Nat /\ Taken(p, s) <= S
  BY Counts DEF BufferInv
<1>4. CASE RecvData(p, s)
  <2>1. /\ s \in registered[p] /\ ~ReadDone(p, s) /\ ~Pushing(p, s)
        /\ Carried(Peer(p), s)' = Taken(p, s) + 2 .. S
    BY <1>1, <1>4, NextPayload
  <2>2. rl'[p].pc = "push" /\ rl'[p].id = s /\ UNCHANGED <<got, chunks, sent>>
    BY <1>4, <2>1, EndpointTypes DEF RecvData, readVars
  <2>3. Pushing(p, s)' /\ Buffered(p, s)' = Buffered(p, s)
    BY <2>2 DEF Pushing, Buffered
  <2>4. Taken(p, s)' = Taken(p, s) + 1
    BY <2>1, <2>3, Counts, CountsNext, TypeStep
  <2>5. Taken(p, s)' + 1 = Taken(p, s) + 2
    BY <1>3, <2>4
  <2> QED BY <2>1, <2>2, <2>5
<1>5. CASE ~RecvData(p, s)
  <2>1. ~PushDrop(p, s)
    <3>1. SUFFICES ASSUME PushDrop(p, s) PROVE FALSE
      OBVIOUS
    <3>2. (ReadDone(p, s) \/ done[p]) /\ UNCHANGED <<readErr, registered, closed, ep>>
      BY <3>1 DEF PushDrop, sessVars
    <3>3. done[p] => closed[p] /\ (s \in registered[p] => ReadDone(p, s))
      BY DEF ShutdownInv
    <3> QED BY <1>1, <3>2, <3>3 DEF Fresh, ReadDone
  <2>2. Taken(p, s)' = Taken(p, s)
    BY <1>5, <2>1, TakenKept
  <2>3. CASE Carried(Peer(p), s)' = Carried(Peer(p), s) /\ sent'[Peer(p)][s] = S
    BY <1>2, <2>2, <2>3
  <2>4. CASE /\ Carried(Peer(p), s)' = Carried(Peer(p), s) \cup {S + 1}
             /\ sent'[Peer(p)][s] = S + 1
    <3> HIDE DEF S
    <3>1. (Taken(p, s) + 1 .. S) \cup {S + 1} = Taken(p, s) + 1 .. S + 1
      BY <1>3
    <3> QED BY <1>2, <2>2, <2>4, <3>1 DEF S
  <2> QED BY <1>5, <2>3, <2>4, CarriedKept
<1> QED BY <1>4, <1>5

\* A CLOSE that reaches a reader without a terminal state finds nothing on its way.
LEMMA CloseIsLast ==
  ASSUME TypeOK, WireSentInv, WireOrderInv, BufferInv, FreshInv,
         NEW p \in Side, NEW s \in StreamId, RecvClose(p, s),
         s \in registered[p], readErr[p][s] = "none"
  PROVE  Finished(Peer(p), s) /\ ~Pushing(p, s) /\ Buffered(p, s) = sent[Peer(p)][s]
<1> DEFINE q == Peer(p)
<1>1. /\ q \in Side /\ rl[p].pc = "idle" /\ Len(wire[q]) \in Nat \ {0}
      /\ wire[q][1].type = "CLOSE" /\ wire[q][1].id = s
  BY Took DEF RecvClose
<1>2. 1 \in 1 .. Len(wire[q])
  BY <1>1
<1>3. Finished(q, s)
  BY <1>1, <1>2 DEF WireSentInv
<1>4. Carried(q, s) = {}
  <2>1. ASSUME NEW k \in Nat, NEW i \in 1 .. Len(wire[q]), Carries(q, i, s, k)
        PROVE  FALSE
    <3>1. i # 1
      BY <1>1, <2>1 DEF Carries
    <3>2. 1 < i
      BY <1>1, <3>1
    <3> QED BY <1>1, <1>2, <2>1, <3>2 DEF WireOrderInv, Carries
  <2> QED BY <2>1 DEF Carried
<1>5. Carried(q, s) = Taken(p, s) + 1 .. sent[q][s]
  BY DEF FreshInv, Fresh
<1>6. /\ Taken(p, s) \in Nat /\ sent[q][s] \in Nat /\ Taken(p, s) <= sent[q][s]
      /\ Taken(p, s) = IF Pushing(p, s) THEN Buffered(p, s) + 1 ELSE Buffered(p, s)
  BY Counts DEF BufferInv
<1> HIDE DEF q
<1>7. Taken(p, s) = sent[q][s]
  <2>1. Taken(p, s) + 1 .. sent[q][s] = {}
    BY <1>4, <1>5
  <2>2. ~(Taken(p, s) + 1 <= sent[q][s])
    <3>1. SUFFICES ASSUME Taken(p, s) + 1 <= sent[q][s] PROVE FALSE
      OBVIOUS
    <3>2. Taken(p, s) + 1 \in Taken(p, s) + 1 .. sent[q][s]
      BY <1>6, <3>1
    <3> QED BY <2>1, <3>2
  <2> QED BY <1>6, <2>2
<1>8. ~Pushing(p, s)
  BY <1>1 DEF Pushing
<1> QED BY <1>3, <1>6, <1>7, <1>8 DEF q

\* Every action keeps EofInv: nothing is written, taken or dropped behind io.EOF.
LEMMA EofStep ==
  ASSUME TypeOK, SendInv, WireSentInv, WireOrderInv, BufferInv, FreshInv, EofInv, [Next]_vars
  PROVE  EofInv'
<1> SUFFICES ASSUME NEW p \in Side, NEW s \in StreamId
             PROVE  /\ readErr'[p][s] = "EOF" =>
                         /\ Finished(Peer(p), s)' /\ ~Pushing(p, s)'
                         /\ Buffered(p, s)' = sent'[Peer(p)][s]
                    /\ rres'[p][s] = "EOF" => readErr'[p][s] = "EOF" /\ chunks'[p][s] = <<>>
  BY DEF EofInv
<1> DEFINE q == Peer(p)
<1>1. /\ readErr[p][s] = "EOF" =>
           Finished(q, s) /\ ~Pushing(p, s) /\ Buffered(p, s) = sent[q][s]
      /\ rres[p][s] = "EOF" => readErr[p][s] = "EOF" /\ chunks[p][s] = <<>>
  BY DEF EofInv
<1>2. q \in Side /\ (Finished(q, s) => Finished(q, s)')
  BY PeerType, SendersOnlyAdvance
<1>3. Finished(q, s) => sent'[q][s] = sent[q][s]
  <2>1. ASSUME NEW x \in Side, NEW r \in StreamId, WriteStep(x, r), Finished(q, s)
        PROVE  sent'[q][s] = sent[q][s]
    <3>1. ~(x = q /\ r = s) /\ sent' = [sent EXCEPT ![x][r] = @ + 1]
      BY <2>1 DEF WriteStep, Finished
    <3> QED BY <1>2, <3>1, EndpointTypes
  <2> QED BY <2>1, WireCases DEF TakeStep, ControlStep
<1>4. /\ got[p][s] \in Seq(Nat) /\ chunks[p][s] \in Seq(Nat) /\ rl \in [Side -> RLState]
      /\ readErr \in [Side -> [StreamId -> ReadErr]]
  BY EndpointTypes
\* The buffered payloads of a stream that has io.EOF stay, and so does the end.
<1>5. ASSUME readErr[p][s] = "EOF"
      PROVE  /\ ~Pushing(p, s)' /\ Buffered(p, s)' = Buffered(p, s) /\ readErr'[p][s] = "EOF"
             /\ chunks[p][s] = <<>> => chunks'[p][s] = <<>>
  <2>1. ~Pushing(p, s)
    BY <1>1, <1>5
  <2>2. CASE Idles(p, s)
    BY <1>5, <2>1, <2>2 DEF Idles, Pushing, Buffered
  <2>3. CASE PushData(p, s) \/ PushDrop(p, s)
    BY <2>1, <2>3 DEF PushData, PushDrop, Pushing
  <2>4. CASE Read(p, s)
    <3> DEFINE c == chunks[p][s]
               g == got[p][s]
    <3>1. c # <<>> /\ c' = Tail(c) /\ g' = Append(g, Head(c)) /\ rl' = rl /\ readErr' = readErr
      BY <2>4, EndpointTypes DEF Read
    <3>2. Buffered(p, s) = Len(g) + Len(c) /\ Buffered(p, s)' = Len(g') + Len(c')
      BY DEF Buffered
    <3>3. ~Pushing(p, s)'
      BY <2>1, <3>1 DEF Pushing
    <3>4. c \in Seq(Nat) /\ g \in Seq(Nat)
      BY <1>4
    <3> HIDE DEF c, g
    <3>5. Buffered(p, s)' = Buffered(p, s)
      BY <3>1, <3>2, <3>4
    <3> QED BY <1>5, <3>1, <3>3, <3>5 DEF c
  <2>5. CASE ReadEnd(p, s)
    BY <1>5, <2>1, <2>5 DEF ReadEnd, Pushing, Buffered
  <2>6. CASE RecvClose(p, s)
    <3>1. UNCHANGED <<got, chunks>> /\ rl'[p].pc # "push"
      BY <1>4, <2>6 DEF RecvClose, Take, readVars
    <3>2. readErr'[p][s] = "EOF"
      BY <1>4, <1>5, <2>6 DEF RecvClose, MarkReadDone
    <3> QED BY <3>1, <3>2 DEF Pushing, Buffered
  <2>7. CASE RecvData(p, s)
    <3>1. UNCHANGED <<got, chunks, readErr>> /\ rl' = rl
      BY <1>4, <1>5, <2>7 DEF RecvData, readVars, ReadDone
    <3> QED BY <1>5, <2>1, <3>1 DEF Pushing, Buffered
  <2> QED BY <2>2, <2>3, <2>4, <2>5, <2>6, <2>7, ReaderCases DEF Moves
\* io.EOF comes from a CLOSE and from nothing else.
<1>6. ASSUME readErr'[p][s] = "EOF", readErr[p][s] # "EOF"
      PROVE  RecvClose(p, s) /\ s \in registered[p] /\ readErr[p][s] = "none"
  <2>1. RecvClose(p, s)
    BY <1>6, ReaderCases DEF Moves, Idles, RecvData, PushData, PushDrop, Read, ReadEnd
  <2> QED BY <1>4, <1>6, <2>1 DEF RecvClose, MarkReadDone
<1>7. ASSUME readErr'[p][s] = "EOF"
      PROVE  Finished(q, s)' /\ ~Pushing(p, s)' /\ Buffered(p, s)' = sent'[q][s]
  <2>1. CASE readErr[p][s] = "EOF"
    BY <1>1, <1>2, <1>3, <1>5, <2>1
  <2>2. CASE readErr[p][s] # "EOF"
    <3>1. RecvClose(p, s) /\ Finished(q, s) /\ Buffered(p, s) = sent[q][s]
      BY <1>6, <1>7, <2>2, CloseIsLast
    <3>2. UNCHANGED <<got, chunks>> /\ rl'[p].pc # "push"
      BY <1>4, <3>1 DEF RecvClose, Take, readVars
    <3>3. Buffered(p, s)' = Buffered(p, s) /\ ~Pushing(p, s)'
      BY <3>2 DEF Buffered, Pushing
    <3> QED BY <1>2, <1>3, <3>1, <3>3
  <2> QED BY <2>1, <2>2
<1>8. ASSUME rres'[p][s] = "EOF"
      PROVE  readErr'[p][s] = "EOF" /\ chunks'[p][s] = <<>>
  <2>1. CASE rres[p][s] = "EOF"
    BY <1>1, <1>5, <2>1
  <2>2. CASE rres[p][s] # "EOF"
    <3>1. ReadEnd(p, s)
      BY <1>8, <2>2, ReaderCases
         DEF Moves, Idles, RecvData, PushData, PushDrop, Read, RecvClose, readVars
    <3>2. rres' = [rres EXCEPT ![p][s] = readErr[p][s]] /\ chunks[p][s] = <<>>
          /\ UNCHANGED <<readErr, chunks>>
      BY <3>1 DEF ReadEnd
    <3>3. rres'[p][s] = readErr[p][s]
      BY <3>2, EndpointTypes
    <3> QED BY <1>8, <3>2, <3>3
  <2> QED BY <2>1, <2>2
<1> QED BY <1>7, <1>8

-----------------------------------------------------------------------------
(* The theorems.                                                           *)

\* Everything above, in one inductive invariant.
DeliveryInv ==
  /\ OpenInv /\ ShutdownInv
  /\ SendInv /\ WireSentInv /\ WireOrderInv /\ WireLiveInv
  /\ BufferInv /\ FreshInv /\ EofInv

\* Nothing is open, sent or received at the start.
LEMMA DeliveryInit == Init => DeliveryInv /\ AbortInv
<1> SUFFICES ASSUME Init PROVE DeliveryInv /\ AbortInv
  OBVIOUS
<1>1. OpenInv /\ ShutdownInv
  BY RetireInit, ShutdownInit
<1>2. SendInv /\ WireSentInv /\ WireOrderInv /\ AbortInv
  BY DEF Init, All, SendInv, WireSentInv, WireOrderInv, AbortInv, AbortedIsAbnormal
<1>3. WireLiveInv
  BY DEF Init, All, WireLiveInv
<1>4. \A p \in Side, s \in StreamId :
        /\ got[p][s] = <<>> /\ chunks[p][s] = <<>> /\ sent[Peer(p)][s] = 0 /\ ~Pushing(p, s)
        /\ readErr[p][s] = "none" /\ rres[p][s] = "none" /\ wire[Peer(p)] = <<>>
  BY PeerType DEF Init, All, Pushing, Idle
<1>5. \A p \in Side, s \in StreamId : Buffered(p, s) = 0 /\ Taken(p, s) = 0
  <2>1. ASSUME NEW p \in Side, NEW s \in StreamId
        PROVE  Buffered(p, s) = 0
    <3>1. Buffered(p, s) = Len(<<>>) + Len(<<>>)
      BY <1>4, Zenon DEF Buffered
    <3> QED BY <3>1
  <2>2. ASSUME NEW p \in Side, NEW s \in StreamId
        PROVE  Taken(p, s) = 0
    <3>1. Taken(p, s) = Buffered(p, s) + 0
      BY <1>4, Zenon DEF Taken
    <3> QED BY <2>1, <3>1
  <2> QED BY <2>1, <2>2
<1>6. BufferInv /\ EofInv
  BY <1>4, <1>5 DEF BufferInv, EofInv
<1>7. FreshInv
  <2>1. \A p \in Side, s \in StreamId : Carried(Peer(p), s) = {}
    BY <1>4 DEF Carried
  <2>2. 0 + 1 .. 0 = {}
    OBVIOUS
  <2> QED BY <1>4, <1>5, <2>1, <2>2 DEF FreshInv
<1> QED BY <1>1, <1>2, <1>3, <1>6, <1>7 DEF DeliveryInv

\* Every step keeps it.
LEMMA DeliveryStep ==
  ASSUME TypeOK, DeliveryInv, [Next]_vars
  PROVE  DeliveryInv'
BY OpenStep, ShutdownStep, SendStep, WireSentStep, WireOrderStep, WireLiveStep, BufferStep,
   FreshStep, EofStep DEF DeliveryInv

\* "no DATA after CLOSE", the rule pushData's comment relies on, holds on the
\* connection although Write and CloseWrite run concurrently: Stream.wmu orders
\* their frames, and CloseWrite bars further writes before it waits for the lock.
THEOREM NoDataFollowsClose == Spec => []NoDataAfterClose
<1>1. TypeOK /\ DeliveryInv /\ [Next]_vars => (TypeOK /\ DeliveryInv)'
  BY TypeStep, DeliveryStep
<1>2. Init => TypeOK /\ DeliveryInv
  BY TypeInit, DeliveryInit
<1>3. TypeOK /\ DeliveryInv => NoDataAfterClose
  BY DEF DeliveryInv, WireOrderInv, NoDataAfterClose
<1> QED BY <1>1, <1>2, <1>3, PTL DEF Spec

\* Stream.Aborted is closed only by Abort at one of the ends or by a shutdown,
\* never by a stream that ended gracefully, whatever frames were in flight.
THEOREM AbortedHasACause == Spec => []AbortedIsAbnormal
<1>1. TypeOK /\ AbortInv /\ [Next]_vars => (TypeOK /\ AbortInv)'
  BY TypeStep, AbortStep
<1>2. Init => TypeOK /\ AbortInv
  BY TypeInit, DeliveryInit
<1>3. AbortInv => AbortedIsAbnormal
  BY DEF AbortInv
<1> QED BY <1>1, <1>2, <1>3, PTL DEF Spec

\* The payload Read returns next is the one after those it has returned.
LEMMA NextBuffered ==
  ASSUME TypeOK, BufferInv, NEW p \in Side, NEW s \in StreamId, chunks[p][s] # <<>>
  PROVE  Head(chunks[p][s]) = Len(got[p][s]) + 1 /\ Len(got[p][s]) < sent[Peer(p)][s]
<1> DEFINE c == chunks[p][s]
           g == got[p][s]
           S == sent[Peer(p)][s]
<1>1. /\ c \in Seq(Nat) /\ g \in Seq(Nat) /\ S \in Nat /\ c # <<>>
      /\ \A i \in 1 .. Len(c) : c[i] = Len(g) + i
      /\ Taken(p, s) <= S /\ Taken(p, s) \in Nat /\ Buffered(p, s) = Len(g) + Len(c)
      /\ Taken(p, s) = IF Pushing(p, s) THEN Buffered(p, s) + 1 ELSE Buffered(p, s)
  BY Counts DEF BufferInv, Buffered
<1> HIDE DEF c, g, S
<1>2. Head(c) = c[1] /\ 1 \in 1 .. Len(c)
  BY <1>1
<1>3. Head(c) = Len(g) + 1 /\ Len(g) < S
  BY <1>1, <1>2
<1> QED BY <1>3 DEF c, g, S

\* What a step does to what ByteStream sees: a payload is written, a payload is
\* read, a reader is told the end, or nothing.
LEMMA VisibleSteps ==
  ASSUME [Next]_vars
  PROVE  \/ UNCHANGED <<sent, got, rres>>
         \/ \E p \in Side, s \in StreamId : WriteFrame(p, s) \/ Read(p, s) \/ ReadEnd(p, s)
<1>u. CASE UNCHANGED vars
  BY <1>u DEF vars, readVars
<1>n. CASE Next
  <2>1. PICK p \in Side :
          \/ OpenStream(p) \/ Shutdown(p) \/ ShutdownEnd(p) \/ ReadFail(p) \/ BreakConn(p)
          \/ \E s \in StreamId :
               \/ RecvOpen(p, s) \/ RecvData(p, s) \/ RecvClose(p, s) \/ RecvReset(p, s)
               \/ PushData(p, s) \/ PushDrop(p, s) \/ CloseCheck(p, s) \/ OpenFrame(p, s)
               \/ WriteFrame(p, s) \/ WriteAgain(p, s) \/ CloseFrame(p, s) \/ CloseRetire(p, s)
               \/ AbortFrame(p, s) \/ AbortFinish(p, s) \/ WriteLock(p, s) \/ CloseWrite(p, s)
               \/ Abort(p, s) \/ Read(p, s) \/ ReadEnd(p, s) \/ ShutdownMark(p, s)
    BY <1>n, NextCases
  <2>2. CASE OpenStream(p) \/ Shutdown(p) \/ ShutdownEnd(p) \/ ReadFail(p) \/ BreakConn(p)
    BY <2>2 DEF OpenStream, Shutdown, ShutdownEnd, ReadFail, BreakConn, readVars
  <2>3. ASSUME NEW s \in StreamId,
               \/ RecvOpen(p, s) \/ RecvData(p, s) \/ RecvClose(p, s) \/ RecvReset(p, s)
               \/ PushData(p, s) \/ PushDrop(p, s) \/ CloseCheck(p, s) \/ OpenFrame(p, s)
        PROVE  UNCHANGED <<sent, got, rres>>
    BY <2>3 DEF RecvOpen, RecvData, RecvClose, RecvReset, PushData, PushDrop, CloseCheck,
                OpenFrame, readVars
  <2>4. ASSUME NEW s \in StreamId,
               \/ WriteAgain(p, s) \/ CloseFrame(p, s) \/ CloseRetire(p, s) \/ AbortFrame(p, s)
               \/ AbortFinish(p, s) \/ WriteLock(p, s) \/ CloseWrite(p, s) \/ Abort(p, s)
               \/ ShutdownMark(p, s)
        PROVE  UNCHANGED <<sent, got, rres>>
    BY <2>4 DEF WriteAgain, CloseFrame, CloseRetire, AbortFrame, AbortFinish, WriteLock,
                CloseWrite, Abort, ShutdownMark, readVars
  <2> QED BY <2>1, <2>2, <2>3, <2>4
<1> QED BY <1>u, <1>n

\* Whatever races with pushData, Write, CloseWrite, Abort and shutdown, a reader
\* gets the payloads its peer wrote, each once and in order, and io.EOF only when
\* it has all of them and no other will follow.
THEOREM StreamsDeliverInOrder == Spec => ImplementsByteStream
<1> DEFINE w == [p \in Side |-> sent[Peer(p)]]
<1>1. TypeOK /\ DeliveryInv /\ [Next]_vars => (TypeOK /\ DeliveryInv)'
  BY TypeStep, DeliveryStep
<1>2. Init => TypeOK /\ DeliveryInv
  BY TypeInit, DeliveryInit
<1>3. Init => Streams!Init
  BY PeerType DEF Init, All, Streams!Init
<1>4. ASSUME TypeOK, DeliveryInv, [Next]_vars
      PROVE  [Streams!Next]_(Streams!vars)
  <2>0. /\ sent \in [Side -> [StreamId -> Nat]] /\ got \in [Side -> [StreamId -> Seq(Nat)]]
        /\ rres \in [Side -> [StreamId -> ReadErr]] /\ readErr \in [Side -> [StreamId -> ReadErr]]
        /\ chunks \in [Side -> [StreamId -> Seq(Nat)]]
    BY <1>4, EndpointTypes
  <2>1. CASE UNCHANGED <<sent, got, rres>>
    BY <2>1 DEF Streams!vars
  <2>2. ASSUME NEW q \in Side, NEW s \in StreamId, WriteFrame(q, s)
        PROVE  UNCHANGED <<sent, got, rres>> \/ Streams!Write(Peer(q), s)
    <3>1. UNCHANGED <<got, rres>> /\ wpc[q][s] = "frame"
      BY <2>2 DEF WriteFrame, readVars
    <3>2. CASE UNCHANGED sent
      BY <3>1, <3>2
    <3>3. CASE sent' = [sent EXCEPT ![q][s] = @ + 1]
      <4> DEFINE p == Peer(q)
      <4>1. p \in Side /\ Peer(p) = q /\ Peer(q) = p /\ p # q /\ Side = {p, q}
        BY PeerType DEF Side, Peer
      <4> HIDE DEF p
      <4>2. rres[p][s] # "EOF"
        BY <1>4, <3>1, <4>1 DEF DeliveryInv, EofInv, Finished
      <4>3. w' = [w EXCEPT ![p][s] = @ + 1]
        <5>1. w \in [Side -> [StreamId -> Nat]] /\ w[p] = sent[q] /\ w[q] = sent[p]
          BY <2>0, <4>1
        <5>2. sent'[p] = sent[p] /\ sent'[q] = [sent[q] EXCEPT ![s] = @ + 1]
          BY <2>0, <3>3, <4>1
        <5>3. w' = [x \in Side |-> sent'[Peer(x)]]
          BY PeerType
        <5> QED BY <4>1, <5>1, <5>2, <5>3
      <4> QED BY <3>1, <4>1, <4>2, <4>3 DEF Streams!Write, p
    <3> QED BY <2>2, <3>2, <3>3 DEF WriteFrame
  <2>3. ASSUME NEW p \in Side, NEW s \in StreamId, Read(p, s)
        PROVE  Streams!Read(p, s)
    <3>1. /\ chunks[p][s] # <<>> /\ UNCHANGED <<sent, rres>>
          /\ got' = [got EXCEPT ![p][s] = Append(@, Head(chunks[p][s]))]
      BY <2>3 DEF Read
    <3>2. rres[p][s] # "EOF"
      BY <1>4, <3>1 DEF DeliveryInv, EofInv
    <3>3. Head(chunks[p][s]) = Len(got[p][s]) + 1 /\ Len(got[p][s]) < sent[Peer(p)][s]
      BY <1>4, <3>1, NextBuffered DEF DeliveryInv
    <3>4. w[p] = sent[Peer(p)]
      OBVIOUS
    <3> QED BY <3>1, <3>2, <3>3, <3>4 DEF Streams!Read
  <2>4. ASSUME NEW p \in Side, NEW s \in StreamId, ReadEnd(p, s)
        PROVE  Streams!EndClean(p, s) \/ Streams!EndBroken(p, s)
    <3>1. /\ rres[p][s] = "none" /\ readErr[p][s] # "none" /\ chunks[p][s] = <<>>
          /\ rres' = [rres EXCEPT ![p][s] = readErr[p][s]] /\ UNCHANGED <<sent, got>>
      BY <2>4 DEF ReadEnd, ReadDone
    <3>2. CASE readErr[p][s] = "EOF"
      <4>1. Len(got[p][s]) = sent[Peer(p)][s]
        <5>1. Buffered(p, s) = sent[Peer(p)][s] /\ got[p][s] \in Seq(Nat)
          BY <1>4, <2>0, <3>2 DEF DeliveryInv, EofInv
        <5>2. PICK n \in Nat : n = Len(got[p][s])
          BY <5>1
        <5>3. Buffered(p, s) = n + Len(<<>>)
          BY <3>1, <5>2, Zenon DEF Buffered
        <5> QED BY <5>1, <5>2, <5>3
      <4> QED BY <3>1, <3>2, <4>1 DEF Streams!EndClean
    <3>3. CASE readErr[p][s] # "EOF"
      <4>1. readErr[p][s] \in {"reset", "session"}
        BY <2>0, <3>1, <3>3 DEF ReadErr
      <4> QED BY <3>1, <4>1 DEF Streams!EndBroken, Streams!Broken
    <3> QED BY <3>2, <3>3
  <2> QED BY <1>4, <2>1, <2>2, <2>3, <2>4, VisibleSteps, PeerType
     DEF Streams!Next, Streams!vars
<1>5. TypeOK /\ DeliveryInv /\ [Next]_vars => [Streams!Next]_(Streams!vars)
  BY <1>4
<1> QED BY <1>1, <1>2, <1>3, <1>5, PTL DEF Spec, ImplementsByteStream, Streams!Spec
=============================================================================
