--------------------------- MODULE HeartbeatProofs ---------------------------
(***************************************************************************)
(* Proofs about Heartbeat, for all intervals, windows and frame sizes that *)
(* meet its assumptions.  Fairness plays no part in them.                  *)
(***************************************************************************)
EXTENDS Heartbeat, TLAPS

\* The durations are positive where a ticker needs them to be.
LEMMA Durations ==
  /\ CheckEvery \in Nat \ {0} /\ Idle \in Nat /\ Delay \in Nat /\ Ping \in Nat \ {0}
  /\ MaxSilence = Idle + CheckEvery + 1 /\ Window \in Nat \ {0} /\ BigParts \in Nat \ {0}
BY PingAssumption, TimingAssumption, WindowAssumption DEF CheckEvery, MaxSilence

\* There are two ends.
LEMMA Ends == \A p \in Side : Peer(p) \in Side /\ Peer(p) # p /\ Peer(Peer(p)) = p
BY DEF Side, Peer

\* The pinger's ticker fires every Ping ticks.
LEMMA TickerWraps ==
  \A a \in 0 .. Ping - 1 : (a + 1) % Ping = IF a + 1 = Ping THEN 0 ELSE a + 1
BY PingAssumption, SMTT(20)

-----------------------------------------------------------------------------
(* Types.                                                                  *)

\* The session starts with a heartbeat that has the right types ...
LEMMA TypeInit == Init => TypeOK
<1> SUFFICES ASSUME Init
             PROVE  TypeOK
  OBVIOUS
<1>1. /\ 0 \in 0 .. MaxSilence /\ 0 \in 0 .. CheckEvery /\ 0 \in 0 .. Ping - 1
      /\ 0 \in 0 .. BigParts /\ 0 \in 0 .. Delay /\ 0 <= Window
  BY Durations
<1>2. wire \in [Side -> Seq(Segment)] /\ \A p \in Side : Len(wire[p]) = 0
  BY DEF Init
<1> HIDE DEF MaxSilence, CheckEvery
<1> QED BY <1>1, <1>2 DEF Init, TypeOK

\* A segment is put on a connection that has room for it.
LEMMA PutType ==
  ASSUME TypeOK, NEW p \in Side, NEW seg \in Segment, Room(p), Put(p, seg)
  PROVE  wire' \in [Side -> Seq(Segment)] /\ \A r \in Side : Len(wire'[r]) <= Window
<1>1. /\ wire \in [Side -> Seq(Segment)] /\ Len(wire[p]) < Window /\ Window \in Nat
      /\ \A r \in Side : Len(wire[r]) <= Window
  BY Durations DEF TypeOK, Room
<1> HIDE DEF Side, Segment
<1>2. PICK s \in Seq(Segment) : s = Append(wire[p], seg) /\ Len(s) <= Window
  <2>1. Append(wire[p], seg) \in Seq(Segment) /\ Len(Append(wire[p], seg)) = Len(wire[p]) + 1
    BY <1>1
  <2>2. Len(wire[p]) \in Nat
    BY <1>1
  <2>3. Len(wire[p]) + 1 <= Window
    BY <1>1, <2>2
  <2> QED BY <2>1, <2>3
<1>3. wire' = [wire EXCEPT ![p] = s]
  BY <1>2 DEF Put
<1> QED BY <1>1, <1>2, <1>3

\* ... and every action keeps them.
LEMMA TypeStep == TypeOK /\ [Next]_vars => TypeOK'
<1> SUFFICES ASSUME TypeOK, [Next]_vars
             PROVE  TypeOK'
  OBVIOUS
<1>0. /\ 0 \in 0 .. MaxSilence /\ 0 \in 0 .. CheckEvery /\ 0 \in 0 .. Delay
      /\ BigParts \in 0 .. BigParts /\ {"PING", "PONG", "DATA", "PART", "LAST"} = Segment
  BY Durations DEF Segment
<1> HIDE DEF MaxSilence, CheckEvery
<1>1. ASSUME NEW p \in Side, Recv(p)
      PROVE  TypeOK'
  <2> DEFINE q == Peer(p)
  <2>1. q \in Side /\ wire[q] \in Seq(Segment) /\ wire[q] # <<>> /\ Len(wire[q]) <= Window
    BY <1>1, Ends DEF Recv, TypeOK
  <2>2. Tail(wire[q]) \in Seq(Segment) /\ Len(Tail(wire[q])) <= Window
    BY <2>1, Durations
  <2>3. wire' = [wire EXCEPT ![q] = Tail(wire[q])]
    BY <1>1, <2>1 DEF Recv, TypeOK
  <2>4. wire' \in [Side -> Seq(Segment)] /\ \A r \in Side : Len(wire'[r]) <= Window
    BY <2>1, <2>2, <2>3 DEF TypeOK
  <2>5. silence' \in [Side -> 0 .. MaxSilence] /\ transit' \in [Side -> 0 .. Delay]
    <3>1. /\ silence' = [silence EXCEPT ![p] = 0] /\ silence \in [Side -> 0 .. MaxSilence]
          /\ transit' = [transit EXCEPT ![q] = 0] /\ transit \in [Side -> 0 .. Delay]
      BY <1>1 DEF Recv, TypeOK
    <3> HIDE DEF q, Side
    <3> QED BY <1>0, <2>1, <3>1
  <2>7. pong' \in [Side -> BOOLEAN]
    <3>1. PICK b \in BOOLEAN : pong' = [pong EXCEPT ![p] = b]
      BY <1>1, Zenon DEF Recv
    <3> QED BY <3>1 DEF TypeOK
  <2>6. /\ stalled' \in [Side -> BOOLEAN]
        /\ loop' \in [Side -> {"read", "push", "mark", "clear"}]
    BY <1>1 DEF Recv, TypeOK
  <2> QED BY <1>1, <2>4, <2>5, <2>6, <2>7 DEF Recv, TypeOK
<1>2. ASSUME NEW p \in Side, MarkAfterPush(p)
      PROVE  TypeOK'
  BY <1>0, <1>2 DEF MarkAfterPush, TypeOK
<1>3. ASSUME NEW p \in Side, ClearStalled(p)
      PROVE  TypeOK'
  BY <1>3 DEF ClearStalled, TypeOK
<1>4. ASSUME NEW p \in Side, SendPing(p)
      PROVE  TypeOK'
  <2>1. wire' \in [Side -> Seq(Segment)] /\ \A r \in Side : Len(wire'[r]) <= Window
    BY <1>0, <1>4, PutType DEF SendPing
  <2> QED BY <1>4, <2>1 DEF SendPing, TypeOK
<1>5. ASSUME NEW p \in Side, SendPong(p)
      PROVE  TypeOK'
  <2>1. wire' \in [Side -> Seq(Segment)] /\ \A r \in Side : Len(wire'[r]) <= Window
    BY <1>0, <1>5, PutType DEF SendPong
  <2> QED BY <1>5, <2>1 DEF SendPong, TypeOK
<1>6. ASSUME NEW p \in Side, WatchStalled(p)
      PROVE  TypeOK'
  BY <1>0, <1>6 DEF WatchStalled, TypeOK
<1>7. ASSUME NEW p \in Side, WatchSilence(p)
      PROVE  TypeOK'
  BY <1>7 DEF WatchSilence, TypeOK
<1>8. ASSUME NEW p \in Side, SendData(p)
      PROVE  TypeOK'
  <2>1. wire' \in [Side -> Seq(Segment)] /\ \A r \in Side : Len(wire'[r]) <= Window
    BY <1>0, <1>8, PutType DEF SendData
  <2> QED BY <1>8, <2>1 DEF SendData, TypeOK
<1>9. ASSUME NEW p \in Side, StartBig(p)
      PROVE  TypeOK'
  BY <1>0, <1>9 DEF StartBig, TypeOK
<1>10. ASSUME NEW p \in Side, SendPart(p)
       PROVE  TypeOK'
  <2>1. wire' \in [Side -> Seq(Segment)] /\ \A r \in Side : Len(wire'[r]) <= Window
    <3>1. PICK seg \in Segment : Put(p, seg)
      BY <1>0, <1>10 DEF SendPart
    <3> QED BY <1>10, <3>1, PutType DEF SendPart
  <2>2. big' \in [Side -> 0 .. BigParts]
    BY <1>10, Durations DEF SendPart, TypeOK
  <2> QED BY <1>10, <2>1, <2>2 DEF SendPart, TypeOK
<1>11. ASSUME NEW p \in Side, PushReturns(p)
       PROVE  TypeOK'
  BY <1>11 DEF PushReturns, TypeOK
<1>12. CASE Cut
  BY <1>12 DEF Cut, TypeOK
<1>13. CASE Tick
  <2> USE Durations
  <2>1. silence' \in [Side -> 0 .. MaxSilence]
    <3>1. \A p \in Side : silence[p] \in 0 .. MaxSilence /\ MaxSilence \in Nat
      BY DEF TypeOK
    <3> QED BY <1>13, <3>1 DEF Tick
  <2>2. wdAge' \in [Side -> 0 .. CheckEvery]
    <3>1. \A p \in Side : wdAge[p] \in 0 .. CheckEvery /\ (Open(p) => wdAge[p] < CheckEvery)
      BY <1>13 DEF Tick, Settled, TypeOK
    <3>2. \A p \in Side : Open(p) => wdAge[p] + 1 \in 0 .. CheckEvery
      BY <3>1
    <3> QED BY <1>13, <3>1, <3>2 DEF Tick
  <2>3. pingAge' \in [Side -> 0 .. Ping - 1]
    <3>1. ASSUME NEW p \in Side
          PROVE  (pingAge[p] + 1) % Ping \in 0 .. Ping - 1
      <4>1. PICK a \in 0 .. Ping - 1 : a = pingAge[p]
        BY DEF TypeOK
      <4> QED BY <4>1, TickerWraps
    <3> QED BY <1>13, <3>1 DEF Tick
  <2>4. transit' \in [Side -> 0 .. Delay] /\ pingDue' \in [Side -> BOOLEAN]
    <3>1. \A p \in Side : transit[p] \in 0 .. Delay
      BY DEF TypeOK
    <3>2. transit' \in [Side -> 0 .. Delay]
      BY <1>13, <3>1 DEF Tick
    <3>3. \A p \in Side : (pingDue[p] \/ pingAge[p] + 1 = Ping) \in BOOLEAN
      BY Zenon
    <3>4. pingDue' \in [Side -> BOOLEAN]
      BY <1>13, <3>3 DEF Tick
    <3> QED BY <3>2, <3>4
  <2> QED BY <1>13, <2>1, <2>2, <2>3, <2>4 DEF Tick, TypeOK
<1>14. CASE UNCHANGED vars
  BY <1>14 DEF vars, TypeOK
<1> QED BY <1>1, <1>2, <1>3, <1>4, <1>5, <1>6, <1>7, <1>8, <1>9, <1>10, <1>11, <1>12, <1>13,
           <1>14 DEF Next, LoopStep, PingerStep, WatchdogStep

-----------------------------------------------------------------------------
(* Silence.                                                                *)

\* The stalled flag is up for as long as readLoop is on its way through pushData.
StallInv == \A p \in Side : stalled[p] <=> loop[p] # "read"

\* readLoop has nothing on its hands, or has just marked the session alive.
Listening(p) == loop[p] \in {"read", "clear"}

\* While the path is there, an end that listens has heard of its peer since the
\* peer's ticker last fired, unless a tick waits for the pinger or a segment for
\* the network: the first lasts no longer than it takes the pinger to run, since a
\* connection that holds nothing has room, and the second no longer than Delay.
Heard(p, q) ==
  IF wire[q] = <<>> THEN silence[p] <= IF pingDue[q] THEN Ping ELSE pingAge[q]
                    ELSE silence[p] <= Ping + transit[q]

HeardInv ==
  \A p \in Side :
    /\ wire[p] = <<>> => transit[p] = 0
    /\ ~cut /\ Listening(p) => Heard(p, Peer(p))
    /\ ~cut /\ wd[p] = "armed" => silence[p] <= Ping + Delay

\* The inductive invariant of NoFalseIdleClose and StaleMeansGone.
LiveInv == StallInv /\ HeardInv /\ NoFalseIdleClose

\* readLoop clears stalled at once after it has marked the session alive.
ClearInv == \A p \in Side : Open(p) /\ loop[p] = "clear" => silence[p] = 0

\* The watchdog's clock runs with the silence clock: while it waits for its ticker,
\* the silence was within the timeout when it last looked.
WatchInv ==
  \A p \in Side :
    Open(p) /\ Listening(p) =>
      silence[p] <= Idle + (IF wd[p] = "armed" THEN CheckEvery ELSE wdAge[p])

\* Every action keeps StallInv.
LEMMA StallStep == TypeOK /\ StallInv /\ [Next]_vars => StallInv'
<1> SUFFICES ASSUME TypeOK, StallInv, [Next]_vars
             PROVE  StallInv'
  OBVIOUS
<1> USE Durations, Ends
<1>1. ASSUME NEW p \in Side, Recv(p)
      PROVE  StallInv'
  <2>1. CASE UNCHANGED <<stalled, loop>>
    BY <2>1 DEF StallInv
  <2>2. CASE stalled' = [stalled EXCEPT ![p] = TRUE] /\ loop' = [loop EXCEPT ![p] = "push"]
    BY <2>2 DEF StallInv, TypeOK
  <2> QED BY <1>1, <2>1, <2>2 DEF Recv
<1>2. ASSUME NEW p \in Side, MarkAfterPush(p)
      PROVE  StallInv'
  BY <1>2 DEF MarkAfterPush, StallInv, TypeOK
<1>3. ASSUME NEW p \in Side, ClearStalled(p)
      PROVE  StallInv'
  BY <1>3 DEF ClearStalled, StallInv, TypeOK
<1>4. ASSUME NEW p \in Side, SendPing(p)
      PROVE  StallInv'
  BY <1>4 DEF SendPing, StallInv, TypeOK
<1>5. ASSUME NEW p \in Side, SendPong(p)
      PROVE  StallInv'
  BY <1>5 DEF SendPong, StallInv, TypeOK
<1>6. ASSUME NEW p \in Side, WatchStalled(p)
      PROVE  StallInv'
  BY <1>6 DEF WatchStalled, StallInv, TypeOK
<1>7. ASSUME NEW p \in Side, WatchSilence(p)
      PROVE  StallInv'
  BY <1>7 DEF WatchSilence, StallInv, TypeOK
<1>8. ASSUME NEW p \in Side, SendData(p)
      PROVE  StallInv'
  BY <1>8 DEF SendData, StallInv, TypeOK
<1>9. ASSUME NEW p \in Side, StartBig(p)
      PROVE  StallInv'
  BY <1>9 DEF StartBig, StallInv, TypeOK
<1>10. ASSUME NEW p \in Side, SendPart(p)
       PROVE  StallInv'
  BY <1>10 DEF SendPart, StallInv, TypeOK
<1>11. ASSUME NEW p \in Side, PushReturns(p)
       PROVE  StallInv'
  BY <1>11 DEF PushReturns, StallInv, TypeOK
<1>12. CASE Cut
  BY <1>12 DEF Cut, StallInv, TypeOK
<1>13. CASE Tick
  BY <1>13 DEF Tick, StallInv, TypeOK
<1>14. CASE UNCHANGED vars
  BY <1>14 DEF vars, StallInv
<1> QED BY <1>1, <1>2, <1>3, <1>4, <1>5, <1>6, <1>7, <1>8, <1>9,
           <1>10, <1>11, <1>12, <1>13, <1>14
        DEF Next, LoopStep, PingerStep, WatchdogStep

\* The clocks are numbers within their bounds.
LEMMA Clocks ==
  ASSUME TypeOK, NEW p \in Side
  PROVE  /\ silence[p] \in 0 .. MaxSilence /\ pingAge[p] \in 0 .. Ping - 1
         /\ transit[p] \in 0 .. Delay /\ wdAge[p] \in 0 .. CheckEvery
         /\ wire[p] \in Seq(Segment)
BY DEF TypeOK

\* So an end that listens has heard of its peer lately.
LEMMA HeardLately ==
  ASSUME TypeOK, HeardInv, NEW p \in Side, ~cut, Listening(p)
  PROVE  silence[p] <= Ping + Delay /\ (wire[Peer(p)] = <<>> => silence[p] <= Ping)
<1>1. Heard(p, Peer(p))
  BY DEF HeardInv
<1>2. /\ silence[p] \in Nat /\ pingAge[Peer(p)] \in 0 .. Ping - 1 /\ transit[Peer(p)] \in 0 .. Delay
      /\ Ping \in Nat /\ Delay \in Nat
  BY Ends, Clocks, Durations
<1>3. CASE wire[Peer(p)] = <<>> /\ pingDue[Peer(p)]
  BY <1>1, <1>2, <1>3 DEF Heard
<1>4. CASE wire[Peer(p)] = <<>> /\ ~pingDue[Peer(p)]
  BY <1>1, <1>2, <1>4 DEF Heard
<1>5. CASE wire[Peer(p)] # <<>>
  BY <1>1, <1>2, <1>5 DEF Heard
<1> QED BY <1>3, <1>4, <1>5

\* Writing a segment keeps HeardInv: the reader may take as long as the network
\* does over it.
LEMMA PutHeard ==
  ASSUME TypeOK, HeardInv, NEW p \in Side, NEW seg \in Segment, Put(p, seg),
         UNCHANGED <<silence, loop, wd, pingAge, transit, cut>>,
         \A r \in Side \ {p} : pingDue'[r] = pingDue[r]
  PROVE  HeardInv'
<1> SUFFICES ASSUME NEW r \in Side
             PROVE  /\ wire'[r] = <<>> => transit[r] = 0
                    /\ ~cut /\ Listening(r) => Heard(r, Peer(r))'
                    /\ ~cut /\ wd[r] = "armed" => silence[r] <= Ping + Delay
  BY DEF HeardInv, Listening
<1>1. /\ wire'[p] # <<>> /\ \A q \in Side \ {p} : wire'[q] = wire[q]
  <2>1. wire' = [wire EXCEPT ![p] = Append(wire[p], seg)] /\ Append(wire[p], seg) # <<>>
    BY Clocks, SMTT(30) DEF Put
  <2> QED BY <2>1 DEF TypeOK
<1>2. ASSUME ~cut, Listening(r)
      PROVE  Heard(r, Peer(r))'
  <2>1. CASE Peer(r) = p
    <3>1. silence[r] <= Ping + transit[p]
      <4>1. CASE wire[p] = <<>>
        BY <1>2, <2>1, <4>1, HeardLately, Ends, Clocks, Durations DEF HeardInv
      <4>2. CASE wire[p] # <<>>
        BY <1>2, <2>1, <4>2 DEF HeardInv, Heard
      <4> QED BY <4>1, <4>2
    <3> QED BY <1>1, <2>1, <3>1 DEF Heard
  <2>2. CASE Peer(r) # p
    <3>1. Peer(r) \in Side \ {p}
      BY <2>2, Ends
    <3>2. wire'[Peer(r)] = wire[Peer(r)] /\ pingDue'[Peer(r)] = pingDue[Peer(r)]
      BY <1>1, <3>1
    <3> QED BY <1>2, <3>2 DEF HeardInv, Heard
  <2> QED BY <2>1, <2>2
<1> QED BY <1>1, <1>2 DEF HeardInv

\* Every action keeps HeardInv.
LEMMA HeardStep == TypeOK /\ StallInv /\ HeardInv /\ NoFalseIdleClose /\ [Next]_vars => HeardInv'
<1> SUFFICES ASSUME TypeOK, StallInv, HeardInv, NoFalseIdleClose, [Next]_vars
             PROVE  HeardInv'
  OBVIOUS
<1> USE Durations, Ends
<1>1. ASSUME NEW p \in Side, Recv(p)
      PROVE  HeardInv'
  <2> DEFINE q == Peer(p)
  <2>1. /\ q \in Side /\ q # p /\ UNCHANGED <<wd, pingAge, pingDue, cut>>
        /\ silence'[p] = 0 /\ silence'[q] = silence[q] /\ transit'[q] = 0 /\ transit'[p] = transit[p]
        /\ wire'[p] = wire[p] /\ loop'[q] = loop[q] /\ Side = {p, q} /\ Peer(q) = p
    BY <1>1 DEF Recv, TypeOK, Side, Peer
  <2>2. Heard(p, q)'
    BY <2>1, Clocks DEF Heard
  <2>3. ~cut /\ Listening(q) => Heard(q, p)'
    BY <2>1 DEF HeardInv, Heard, Listening
  <2> QED BY <2>1, <2>2, <2>3 DEF HeardInv, Listening
<1>2. ASSUME NEW p \in Side, MarkAfterPush(p)
      PROVE  HeardInv'
  <2> DEFINE q == Peer(p)
  <2>1. /\ q \in Side /\ q # p /\ UNCHANGED <<wd, pingAge, pingDue, cut, transit, wire>>
        /\ silence'[p] = 0 /\ silence'[q] = silence[q]
        /\ loop'[q] = loop[q] /\ Side = {p, q} /\ Peer(q) = p
    BY <1>2 DEF MarkAfterPush, TypeOK, Side, Peer
  <2>2. Heard(p, q)'
    BY <2>1, Clocks DEF Heard
  <2>3. ~cut /\ Listening(q) => Heard(q, p)'
    BY <2>1 DEF HeardInv, Heard, Listening
  <2> QED BY <2>1, <2>2, <2>3 DEF HeardInv, Listening
<1>3. ASSUME NEW p \in Side, ClearStalled(p)
      PROVE  HeardInv'
  BY <1>3 DEF ClearStalled, HeardInv, Heard, Listening, TypeOK
<1>4. ASSUME NEW p \in Side, SendPing(p)
      PROVE  HeardInv'
  <2>1. Put(p, "PING") /\ "PING" \in Segment
    BY <1>4 DEF SendPing, Segment
  <2>2. /\ UNCHANGED <<silence, loop, wd, pingAge, transit, cut>>
        /\ \A r \in Side \ {p} : pingDue'[r] = pingDue[r]
    BY <1>4 DEF SendPing, TypeOK
  <2> QED BY <2>1, <2>2, PutHeard
<1>5. ASSUME NEW p \in Side, SendPong(p)
      PROVE  HeardInv'
  <2>1. Put(p, "PONG") /\ "PONG" \in Segment
    BY <1>5 DEF SendPong, Segment
  <2>2. /\ UNCHANGED <<silence, loop, wd, pingAge, transit, cut>>
        /\ \A r \in Side \ {p} : pingDue'[r] = pingDue[r]
    BY <1>5 DEF SendPong, TypeOK
  <2> QED BY <2>1, <2>2, PutHeard
<1>6. ASSUME NEW p \in Side, WatchStalled(p)
      PROVE  HeardInv'
  <2>1. UNCHANGED <<silence, loop, pingAge, pingDue, transit, wire, cut>>
    BY <1>6 DEF WatchStalled
  <2>2. ASSUME NEW r \in Side, ~cut, wd'[r] = "armed"
        PROVE  silence[r] <= Ping + Delay
    <3>1. CASE wd[r] = "armed"
      BY <2>2, <3>1 DEF HeardInv
    <3>2. CASE wd[r] # "armed"
      <4>1. loop[r] = "read"
        BY <1>6, <2>2, <3>2 DEF WatchStalled, StallInv, TypeOK
      <4> QED BY <2>2, <4>1, HeardLately DEF Listening
    <3> QED BY <3>1, <3>2
  <2> QED BY <2>1, <2>2 DEF HeardInv, Heard, Listening
<1>7. ASSUME NEW p \in Side, WatchSilence(p)
      PROVE  HeardInv'
  BY <1>7 DEF WatchSilence, HeardInv, Heard, Listening, TypeOK
<1>8. ASSUME NEW p \in Side, SendData(p)
      PROVE  HeardInv'
  <2>1. Put(p, "DATA") /\ "DATA" \in Segment
    BY <1>8 DEF SendData, Segment
  <2>2. /\ UNCHANGED <<silence, loop, wd, pingAge, transit, cut>>
        /\ \A r \in Side \ {p} : pingDue'[r] = pingDue[r]
    BY <1>8 DEF SendData, TypeOK
  <2> QED BY <2>1, <2>2, PutHeard
<1>9. ASSUME NEW p \in Side, StartBig(p)
      PROVE  HeardInv'
  BY <1>9 DEF StartBig, HeardInv, Heard, Listening, TypeOK
<1>10. ASSUME NEW p \in Side, SendPart(p)
       PROVE  HeardInv'
  <2>1. PICK seg \in Segment : Put(p, seg)
    BY <1>10 DEF SendPart, Segment
  <2>2. UNCHANGED <<silence, loop, wd, pingAge, pingDue, transit, cut>>
    BY <1>10 DEF SendPart
  <2> QED BY <2>1, <2>2, PutHeard
<1>11. ASSUME NEW p \in Side, PushReturns(p)
       PROVE  HeardInv'
  BY <1>11 DEF PushReturns, HeardInv, Heard, Listening, TypeOK
<1>12. CASE Cut
  BY <1>12 DEF Cut, HeardInv, Heard, Listening
<1>13. CASE Tick
  <2> SUFFICES ASSUME NEW p \in Side
               PROVE  /\ wire[p] = <<>> => transit'[p] = 0
                      /\ ~cut /\ Listening(p) => Heard(p, Peer(p))'
                      /\ ~cut /\ wd[p] = "armed" => silence'[p] <= Ping + Delay
    BY <1>13 DEF Tick, HeardInv, Listening
  <2> DEFINE q == Peer(p)
  <2>1. wire[p] = <<>> => transit'[p] = 0
    BY <1>13 DEF Tick, HeardInv
  <2>2. ~cut => wd[p] # "armed"
    BY <1>13 DEF Tick, Settled, Open, NoFalseIdleClose, TypeOK
  <2>3. ASSUME ~cut, Listening(p)
        PROVE  Heard(p, q)'
    <3>1. /\ q \in Side /\ silence[p] \in Nat /\ transit[q] \in Nat
          /\ pingAge[q] \in 0 .. Ping - 1 /\ Heard(p, q)
      BY <2>3, Clocks DEF HeardInv
    <3>2. wire' = wire /\ silence'[p] <= silence[p] + 1 /\ silence'[p] \in Nat
      BY <1>13, Clocks DEF Tick
    <3>3. Open(p) /\ Open(q) /\ loop[p] = "read" /\ Settled(p) /\ Settled(q)
      BY <1>13, <2>3, <3>1 DEF Tick, Settled, Open, NoFalseIdleClose, Listening, TypeOK
    <3>4. CASE wire[q] = <<>>
      <4>1. ~pingDue[q] /\ silence[p] <= pingAge[q]
        BY <3>1, <3>3, <3>4 DEF Settled, Room, Heard
      <4>2. pingAge'[q] = (IF pingAge[q] + 1 = Ping THEN 0 ELSE pingAge[q] + 1)
        BY <1>13, <3>1, TickerWraps DEF Tick
      <4>3. pingDue'[q] <=> pingAge[q] + 1 = Ping
        BY <1>13, <3>1, <4>1 DEF Tick
      <4>4. CASE pingAge[q] + 1 = Ping
        BY <3>1, <3>2, <3>4, <4>1, <4>3, <4>4 DEF Heard
      <4>5. CASE pingAge[q] + 1 # Ping
        BY <3>1, <3>2, <3>4, <4>1, <4>2, <4>3, <4>5 DEF Heard
      <4> QED BY <4>4, <4>5
    <3>5. CASE wire[q] # <<>>
      <4>1. transit[q] < Delay
        BY <2>3, <3>3, <3>5 DEF Settled
      <4>2. transit'[q] = transit[q] + 1
        BY <1>13, <3>1, <3>5, <4>1 DEF Tick
      <4>3. silence[p] <= Ping + transit[q]
        BY <3>1, <3>5 DEF Heard
      <4>4. silence'[p] <= Ping + transit'[q]
        BY <3>1, <3>2, <4>2, <4>3
      <4> QED BY <3>2, <3>5, <4>4 DEF Heard
    <3> QED BY <3>4, <3>5
  <2> QED BY <2>1, <2>2, <2>3
<1>14. CASE UNCHANGED vars
  BY <1>14 DEF vars, HeardInv, Heard, Listening
<1> QED BY <1>1, <1>2, <1>3, <1>4, <1>5, <1>6, <1>7, <1>8, <1>9,
           <1>10, <1>11, <1>12, <1>13, <1>14
        DEF Next, LoopStep, PingerStep, WatchdogStep

\* Every action keeps NoFalseIdleClose: what the watchdog compares is the time since
\* the peer was heard of.
LEMMA SpareStep == TypeOK /\ HeardInv /\ NoFalseIdleClose /\ [Next]_vars => NoFalseIdleClose'
<1> SUFFICES ASSUME TypeOK, HeardInv, NoFalseIdleClose, [Next]_vars
             PROVE  NoFalseIdleClose'
  OBVIOUS
<1> USE Durations, Ends
<1>1. ASSUME NEW p \in Side, Recv(p)
      PROVE  NoFalseIdleClose'
  BY <1>1 DEF Recv, NoFalseIdleClose, TypeOK
<1>2. ASSUME NEW p \in Side, MarkAfterPush(p)
      PROVE  NoFalseIdleClose'
  BY <1>2 DEF MarkAfterPush, NoFalseIdleClose, TypeOK
<1>3. ASSUME NEW p \in Side, ClearStalled(p)
      PROVE  NoFalseIdleClose'
  BY <1>3 DEF ClearStalled, NoFalseIdleClose, TypeOK
<1>4. ASSUME NEW p \in Side, SendPing(p)
      PROVE  NoFalseIdleClose'
  BY <1>4 DEF SendPing, NoFalseIdleClose, TypeOK
<1>5. ASSUME NEW p \in Side, SendPong(p)
      PROVE  NoFalseIdleClose'
  BY <1>5 DEF SendPong, NoFalseIdleClose, TypeOK
<1>6. ASSUME NEW p \in Side, WatchStalled(p)
      PROVE  NoFalseIdleClose'
  BY <1>6 DEF WatchStalled, NoFalseIdleClose, TypeOK
<1>7. ASSUME NEW p \in Side, WatchSilence(p)
      PROVE  NoFalseIdleClose'
  <2>1. ~cut => ~(silence[p] > Idle)
    BY <1>7, TimingAssumption, Clocks DEF WatchSilence, HeardInv
  <2> QED BY <1>7, <2>1 DEF WatchSilence, NoFalseIdleClose, TypeOK
<1>8. ASSUME NEW p \in Side, SendData(p)
      PROVE  NoFalseIdleClose'
  BY <1>8 DEF SendData, NoFalseIdleClose, TypeOK
<1>9. ASSUME NEW p \in Side, StartBig(p)
      PROVE  NoFalseIdleClose'
  BY <1>9 DEF StartBig, NoFalseIdleClose, TypeOK
<1>10. ASSUME NEW p \in Side, SendPart(p)
       PROVE  NoFalseIdleClose'
  BY <1>10 DEF SendPart, NoFalseIdleClose, TypeOK
<1>11. ASSUME NEW p \in Side, PushReturns(p)
       PROVE  NoFalseIdleClose'
  BY <1>11 DEF PushReturns, NoFalseIdleClose, TypeOK
<1>12. CASE Cut
  BY <1>12 DEF Cut, NoFalseIdleClose, TypeOK
<1>13. CASE Tick
  BY <1>13 DEF Tick, NoFalseIdleClose, TypeOK
<1>14. CASE UNCHANGED vars
  BY <1>14 DEF vars, NoFalseIdleClose
<1> QED BY <1>1, <1>2, <1>3, <1>4, <1>5, <1>6, <1>7, <1>8, <1>9,
           <1>10, <1>11, <1>12, <1>13, <1>14
        DEF Next, LoopStep, PingerStep, WatchdogStep

\* Every action keeps ClearInv: time does not pass before readLoop has cleared stalled.
LEMMA ClearStep == TypeOK /\ ClearInv /\ [Next]_vars => ClearInv'
<1> SUFFICES ASSUME TypeOK, ClearInv, [Next]_vars
             PROVE  ClearInv'
  OBVIOUS
<1> USE Durations, Ends
<1>1. ASSUME NEW p \in Side, Recv(p)
      PROVE  ClearInv'
  <2>1. UNCHANGED state /\ silence'[p] = 0
    BY <1>1 DEF Recv, TypeOK
  <2>2. \A r \in Side \ {p} : loop'[r] = loop[r] /\ silence'[r] = silence[r]
    BY <1>1 DEF Recv, TypeOK
  <2> QED BY <2>1, <2>2 DEF ClearInv, Open
<1>2. ASSUME NEW p \in Side, MarkAfterPush(p)
      PROVE  ClearInv'
  BY <1>2 DEF MarkAfterPush, Open, ClearInv, TypeOK
<1>3. ASSUME NEW p \in Side, ClearStalled(p)
      PROVE  ClearInv'
  BY <1>3 DEF ClearStalled, Open, ClearInv, TypeOK
<1>4. ASSUME NEW p \in Side, SendPing(p)
      PROVE  ClearInv'
  BY <1>4 DEF SendPing, Open, ClearInv, TypeOK
<1>5. ASSUME NEW p \in Side, SendPong(p)
      PROVE  ClearInv'
  BY <1>5 DEF SendPong, Open, ClearInv, TypeOK
<1>6. ASSUME NEW p \in Side, WatchStalled(p)
      PROVE  ClearInv'
  BY <1>6 DEF WatchStalled, Open, ClearInv, TypeOK
<1>7. ASSUME NEW p \in Side, WatchSilence(p)
      PROVE  ClearInv'
  BY <1>7 DEF WatchSilence, Open, ClearInv, TypeOK
<1>8. ASSUME NEW p \in Side, SendData(p)
      PROVE  ClearInv'
  BY <1>8 DEF SendData, Open, ClearInv, TypeOK
<1>9. ASSUME NEW p \in Side, StartBig(p)
      PROVE  ClearInv'
  BY <1>9 DEF StartBig, Open, ClearInv, TypeOK
<1>10. ASSUME NEW p \in Side, SendPart(p)
       PROVE  ClearInv'
  BY <1>10 DEF SendPart, Open, ClearInv, TypeOK
<1>11. ASSUME NEW p \in Side, PushReturns(p)
       PROVE  ClearInv'
  BY <1>11 DEF PushReturns, Open, ClearInv, TypeOK
<1>12. CASE Cut
  BY <1>12 DEF Cut, Open, ClearInv, TypeOK
<1>13. CASE Tick
  BY <1>13 DEF Tick, Settled, Open, ClearInv, TypeOK
<1>14. CASE UNCHANGED vars
  BY <1>14 DEF vars, Open, ClearInv
<1> QED BY <1>1, <1>2, <1>3, <1>4, <1>5, <1>6, <1>7, <1>8, <1>9,
           <1>10, <1>11, <1>12, <1>13, <1>14
        DEF Next, LoopStep, PingerStep, WatchdogStep

\* Every action keeps WatchInv.
LEMMA WatchStep == TypeOK /\ StallInv /\ ClearInv /\ WatchInv /\ [Next]_vars => WatchInv'
<1> SUFFICES ASSUME TypeOK, StallInv, ClearInv, WatchInv, [Next]_vars
             PROVE  WatchInv'
  OBVIOUS
<1> USE Durations
<1>1. ASSUME NEW p \in Side, Recv(p)
      PROVE  WatchInv'
  <2>1. UNCHANGED <<wd, wdAge, state>> /\ silence' = [silence EXCEPT ![p] = 0]
    BY <1>1 DEF Recv
  <2>2. \A r \in Side \ {p} : loop'[r] = loop[r] /\ silence'[r] = silence[r]
    BY <1>1, <2>1 DEF Recv, TypeOK
  <2>3. silence'[p] = 0 /\ wdAge[p] \in Nat
    BY <2>1, Clocks DEF TypeOK
  <2>4. 0 <= Idle + CheckEvery /\ 0 <= Idle + wdAge[p]
    BY <2>3
  <2> QED BY <2>1, <2>2, <2>3, <2>4 DEF WatchInv, Open, Listening
<1>2. ASSUME NEW p \in Side, MarkAfterPush(p)
      PROVE  WatchInv'
  <2>1. UNCHANGED <<wd, wdAge, state>> /\ silence' = [silence EXCEPT ![p] = 0]
    BY <1>2 DEF MarkAfterPush
  <2>2. \A r \in Side \ {p} : loop'[r] = loop[r] /\ silence'[r] = silence[r]
    BY <1>2, <2>1 DEF MarkAfterPush, TypeOK
  <2>3. silence'[p] = 0 /\ wdAge[p] \in Nat
    BY <2>1, Clocks DEF TypeOK
  <2>4. 0 <= Idle + CheckEvery /\ 0 <= Idle + wdAge[p]
    BY <2>3
  <2> QED BY <2>1, <2>2, <2>3, <2>4 DEF WatchInv, Open, Listening
<1>3. ASSUME NEW p \in Side, ClearStalled(p)
      PROVE  WatchInv'
  BY <1>3 DEF ClearStalled, WatchInv, Open, Listening, TypeOK
<1>4. ASSUME NEW p \in Side, SendPing(p)
      PROVE  WatchInv'
  BY <1>4 DEF SendPing, Put, Room, WatchInv, Open, Listening, TypeOK
<1>5. ASSUME NEW p \in Side, SendPong(p)
      PROVE  WatchInv'
  BY <1>5 DEF SendPong, Put, Room, WatchInv, Open, Listening, TypeOK
<1>6. ASSUME NEW p \in Side, WatchStalled(p)
      PROVE  WatchInv'
  <2>1. UNCHANGED <<silence, loop, stalled, state>> /\ wdAge[p] = CheckEvery
    BY <1>6 DEF WatchStalled
  <2>2. \A r \in Side \ {p} : wd'[r] = wd[r] /\ wdAge'[r] = wdAge[r]
    BY <1>6 DEF WatchStalled, TypeOK
  <2>3. wdAge'[p] = 0 /\ wd[p] = "wait" /\ wd'[p] = (IF stalled[p] THEN "wait" ELSE "armed")
    BY <1>6 DEF WatchStalled, TypeOK
  <2>4. Listening(p) /\ stalled[p] => silence[p] = 0
    BY <1>6 DEF WatchStalled, ClearInv, StallInv, Listening
  <2> QED BY <2>1, <2>2, <2>3, <2>4 DEF WatchInv, Open, Listening
<1>7. ASSUME NEW p \in Side, WatchSilence(p)
      PROVE  WatchInv'
  <2>1. UNCHANGED <<silence, loop, stalled, wdAge>> /\ wd[p] = "armed" /\ Open(p)
    BY <1>7 DEF WatchSilence
  <2>2. \A r \in Side \ {p} : wd'[r] = wd[r] /\ state'[r] = state[r]
    BY <1>7 DEF WatchSilence, TypeOK
  <2>3. wd'[p] = "wait" /\ (state'[p] = "open" => ~(silence[p] > Idle))
    BY <1>7 DEF WatchSilence, TypeOK
  <2>4. state'[p] = "open" => silence[p] <= Idle + wdAge[p]
    BY <2>3, Clocks
  <2> QED BY <2>1, <2>2, <2>3, <2>4 DEF WatchInv, Open, Listening
<1>8. ASSUME NEW p \in Side, SendData(p)
      PROVE  WatchInv'
  BY <1>8 DEF SendData, Put, Room, WatchInv, Open, Listening, TypeOK
<1>9. ASSUME NEW p \in Side, StartBig(p)
      PROVE  WatchInv'
  BY <1>9 DEF StartBig, WatchInv, Open, Listening, TypeOK
<1>10. ASSUME NEW p \in Side, SendPart(p)
       PROVE  WatchInv'
  BY <1>10 DEF SendPart, Put, Room, WatchInv, Open, Listening, TypeOK
<1>11. ASSUME NEW p \in Side, PushReturns(p)
       PROVE  WatchInv'
  BY <1>11 DEF PushReturns, WatchInv, Open, Listening, TypeOK
<1>12. CASE Cut
  BY <1>12 DEF Cut, WatchInv, Open, Listening, TypeOK
<1>13. CASE Tick
  <2>1. UNCHANGED <<loop, stalled, wd, state>> /\ \A p \in Side : Open(p) => wd[p] = "wait"
    BY <1>13 DEF Tick, Settled
  <2>2. /\ silence' = [p \in Side |-> IF silence[p] < MaxSilence THEN silence[p] + 1 ELSE MaxSilence]
        /\ wdAge' = [p \in Side |-> IF Open(p) THEN wdAge[p] + 1 ELSE wdAge[p]]
    BY <1>13 DEF Tick
  <2>3. \A p \in Side : silence[p] \in Nat /\ silence'[p] \in Nat /\ wdAge[p] \in Nat
    <3>1. TypeOK'
      BY TypeStep
    <3> QED BY <3>1 DEF TypeOK
  <2>4. ASSUME NEW p \in Side, Open(p)', Listening(p)'
        PROVE  silence'[p] <= Idle + (IF wd'[p] = "armed" THEN CheckEvery ELSE wdAge'[p])
    <3>1. Open(p) /\ Listening(p) /\ wd[p] = "wait" /\ wd'[p] = "wait"
      BY <2>1, <2>4 DEF Open, Listening
    <3>2. silence[p] <= Idle + wdAge[p]
      BY <3>1 DEF WatchInv
    <3>3. silence'[p] <= silence[p] + 1 /\ wdAge'[p] = wdAge[p] + 1
      <4>1. silence[p] \in 0 .. MaxSilence
        BY Clocks
      <4>2. silence'[p] = IF silence[p] < MaxSilence THEN silence[p] + 1 ELSE MaxSilence
        BY <2>2
      <4>3. wdAge'[p] = wdAge[p] + 1
        BY <2>2, <3>1
      <4> QED BY <4>1, <4>2, <4>3
    <3>4. PICK a \in Nat, b \in Nat, c \in Nat : a = silence[p] /\ b = silence'[p] /\ c = wdAge[p]
      BY <2>3
    <3>5. b <= Idle + (c + 1)
      BY <3>2, <3>3, <3>4
    <3> QED BY <3>1, <3>3, <3>4, <3>5
  <2> QED BY <2>4 DEF WatchInv
<1>14. CASE UNCHANGED vars
  BY <1>14 DEF vars, WatchInv, Open, Listening
<1> QED BY <1>1, <1>2, <1>3, <1>4, <1>5, <1>6, <1>7, <1>8, <1>9,
           <1>10, <1>11, <1>12, <1>13, <1>14
        DEF Next, LoopStep, PingerStep, WatchdogStep

-----------------------------------------------------------------------------
(* The theorems.                                                           *)

\* Every reachable state of two ends and the connection between them has the types
\* TypeOK gives: no clock passes the point where it saturates, no ticker its
\* interval, and no writer puts more into the connection than it holds.
THEOREM TypeCorrect == Spec => []TypeOK
BY TypeInit, TypeStep, PTL DEF Spec

\* The flag that exempts a session from the idle check is up exactly while readLoop
\* is in pushData or on its way out of it.
LEMMA StallAlways == Spec => []StallInv
<1>1. Init => StallInv
  BY DEF Init, StallInv
<1> QED BY <1>1, StallStep, TypeCorrect, PTL DEF Spec

\* LiveInv is an invariant.
LEMMA LiveAlways == Spec => []LiveInv
<1>1. Init => LiveInv
  BY Durations, Ends
     DEF Init, LiveInv, StallInv, HeardInv, Heard, Listening, NoFalseIdleClose
<1>2. TypeOK /\ LiveInv /\ [Next]_vars => LiveInv'
  BY StallStep, HeardStep, SpareStep DEF LiveInv
<1> QED BY <1>1, <1>2, TypeCorrect, PTL DEF Spec

\* startHeartbeat: the watchdog never closes a session whose peer is there, whatever
\* stalls the read loop, however long a frame takes to arrive and whoever waits for
\* whom, as long as a PING can cross the connection within the idle timeout.
THEOREM WatchdogSparesTheLiving == Spec => []NoFalseIdleClose
BY LiveAlways, PTL DEF LiveInv

\* Session.Stale: an open session that it reports has really lost its peer, so
\* Registry.Register evicts none whose client is there.
THEOREM StalenessIsReal == Spec => []StaleMeansGone
<1>1. TypeOK /\ LiveInv => StaleMeansGone
  <2> SUFFICES ASSUME TypeOK, LiveInv
               PROVE  StaleMeansGone
    OBVIOUS
  <2>n. Ping + Ping \div 2 \in Nat /\ \A p \in Side : silence[p] \in Nat
    <3>1. Ping + Ping \div 2 \in Nat
      BY Durations
    <3> QED BY <3>1, Clocks, Durations
  <2> SUFFICES ASSUME NEW p \in Side, ~stalled[p], ~cut
               PROVE  silence[p] <= Ping + Ping \div 2
    BY <2>n DEF StaleMeansGone, Stale
  <2>1. Listening(p)
    BY DEF LiveInv, StallInv, Listening
  <2>2. silence[p] <= Ping + Delay
    BY <2>1, HeardLately DEF LiveInv
  <2> QED BY <2>2, Clocks, Durations, TimingAssumption
<1> QED BY <1>1, TypeCorrect, LiveAlways, PTL

\* startHeartbeat: an open session whose read loop is not stalled has never been
\* silent for longer than the idle timeout and one period of the watchdog.
THEOREM SilenceStaysBounded == Spec => []SilenceIsBounded
<1>1. Init => ClearInv /\ WatchInv
  BY Durations DEF Init, ClearInv, WatchInv, Listening
<1>2. TypeOK /\ StallInv /\ WatchInv => SilenceIsBounded
  BY Durations DEF TypeOK, StallInv, WatchInv, SilenceIsBounded, Listening
<1> QED BY <1>1, <1>2, ClearStep, WatchStep, TypeCorrect, StallAlways, PTL DEF Spec
=============================================================================
