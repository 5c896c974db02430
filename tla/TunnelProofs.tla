----------------------------- MODULE TunnelProofs -----------------------------
(***************************************************************************)
(* Theorems about Tunnel, for any capacity of the event channel, any       *)
(* number of request handlers and any answers of the server.               *)
(***************************************************************************)
EXTENDS Tunnel, TLAPS

-----------------------------------------------------------------------------
(* Type correctness.                                                       *)

\* A send keeps the event channel within its capacity.
LEMMA EmitType ==
  ASSUME TypeOK, NEW e \in Event, Emit(e)
  PROVE  events' \in Seq(Event) /\ Len(events') <= EventCap /\ lost' \in BOOLEAN
<1>1. events' = events \/ (Len(events) # EventCap /\ events' = Append(events, e))
  BY DEF Emit, Send
<1>2. events \in Seq(Event) /\ Len(events) <= EventCap /\ EventCap \in Nat
  BY EventCapAssumption DEF TypeOK
<1>3. CASE events' = events
  BY <1>2, <1>3 DEF Emit, Send, TypeOK
<1>4. CASE Len(events) # EventCap /\ events' = Append(events, e)
  <2>1. Len(events) + 1 <= EventCap /\ Append(events, e) \in Seq(Event) /\ Len(Append(events, e)) = Len(events) + 1
    BY <1>2, <1>4
  <2>2. lost' \in BOOLEAN
    BY DEF Emit, Send, TypeOK
  <2> QED BY <1>4, <2>1, <2>2
<1> QED BY <1>1, <1>3, <1>4

\* Every action keeps the types.
LEMMA TypeStep ==
  ASSUME TypeOK, [Next]_vars
  PROVE  TypeOK'
<1> USE DEF Others, connVars, eventVars, uiVars, histVars
<1>1. ASSUME Start \/ Up \/ Down \/ Again \/ Stop
      PROVE  TypeOK'
  <2>1. PICK e \in Event \ {"request"} : Emit(e)
    BY <1>1 DEF Start, Up, Down, Again, Stop, Event
  <2>2. events' \in Seq(Event) /\ Len(events') <= EventCap /\ lost' \in BOOLEAN
    BY <2>1, EmitType
  <2> QED BY <1>1, <2>2 DEF Start, Up, Down, Again, Stop, TypeOK, MaxBackoff
<1>2. ASSUME DialOK
      PROVE  TypeOK'
  BY <1>2 DEF DialOK, TypeOK
<1>3. ASSUME HandshakeFails
      PROVE  TypeOK'
  BY <1>3 DEF HandshakeFails, ConnectOnceReturns, TypeOK
<1>4. ASSUME SendHello
      PROVE  TypeOK'
  BY <1>4 DEF SendHello, TypeOK
<1>5. ASSUME NEW a \in Answers, ReadAck(a)
      PROVE  TypeOK'
  BY <1>5 DEF ReadAck, ConnectOnceReturns, TypeOK
<1>6. ASSUME Publish
      PROVE  TypeOK'
  BY <1>6 DEF Publish, TypeOK
<1>7. ASSUME SessionEnds
      PROVE  TypeOK'
  BY <1>7 DEF SessionEnds, ConnectOnceReturns, TypeOK
<1>8. ASSUME After
      PROVE  TypeOK'
  <2>1. UNCHANGED <<Others, err, backoff, sock, loop, eventVars, histVars>> /\ pc' \in {"stop", "down"}
    BY <1>8 DEF After
  <2>2. connected' \in BOOLEAN
    <3>1. connected' = connected \/ connected' = FALSE
      BY <1>8 DEF After
    <3> QED BY <3>1, Zenon DEF TypeOK
  <2> QED BY <2>1, <2>2 DEF TypeOK
<1>9. ASSUME BackoffOver
      PROVE  TypeOK'
  BY <1>9 DEF BackoffOver, TypeOK
<1>10. ASSUME WaitCancelled
       PROVE  TypeOK'
  BY <1>10 DEF WaitCancelled, TypeOK
<1>11. ASSUME Shutdown
       PROVE  TypeOK'
  BY <1>11 DEF Shutdown, TypeOK
<1>12. ASSUME Stall
       PROVE  TypeOK'
  BY <1>12 DEF Stall, TypeOK
<1>13. ASSUME Unstall
       PROVE  TypeOK'
  BY <1>13 DEF Unstall, TypeOK
<1>14. ASSUME Cancel
       PROVE  TypeOK'
  BY <1>14 DEF Cancel, TypeOK
<1>15. ASSUME WatcherCloses
       PROVE  TypeOK'
  BY <1>15 DEF WatcherCloses, TypeOK
<1>16. ASSUME PeerEnds
       PROVE  TypeOK'
  BY <1>16 DEF PeerEnds, TypeOK
<1>17. ASSUME LogReturns
       PROVE  TypeOK'
  BY <1>17 DEF LogReturns, TypeOK
<1>18. ASSUME QuitKey
       PROVE  TypeOK'
  BY <1>18 DEF QuitKey, TypeOK
<1>19. ASSUME NEW h \in Handler, HandlerStarts(h) \/ HandlerServed(h)
       PROVE  TypeOK'
  BY <1>19 DEF HandlerStarts, HandlerServed, TypeOK
<1>20. ASSUME NEW h \in Handler, HandlerEmits(h)
      PROVE  TypeOK'
  <2>1. events' \in Seq(Event) /\ Len(events') <= EventCap /\ lost' \in BOOLEAN
    BY <1>20, EmitType DEF HandlerEmits, Event
  <2> QED BY <1>20, <2>1 DEF HandlerEmits, TypeOK
<1>21. ASSUME Consume
      PROVE  TypeOK'
  <2>1. events \in Seq(Event) /\ events # <<>> /\ Len(events) <= EventCap /\ EventCap \in Nat
    BY <1>21, EventCapAssumption DEF Consume, TypeOK
  <2>2. Head(events) \in Event /\ Tail(events) \in Seq(Event) /\ Len(Tail(events)) <= EventCap
    BY <2>1
  <2> QED BY <1>21, <2>2 DEF Consume, Show, TypeOK
<1>22. ASSUME ChannelClosed
      PROVE  TypeOK'
  BY <1>22 DEF ChannelClosed, Show, TypeOK, Event
<1>23. CASE UNCHANGED vars
  BY <1>23 DEF vars, TypeOK
<1> QED
  BY <1>1, <1>2, <1>3, <1>4, <1>5, <1>6, <1>7, <1>8, <1>9, <1>10, <1>11, <1>12,
     <1>13, <1>14, <1>15, <1>16, <1>17, <1>18, <1>19, <1>20, <1>21, <1>22, <1>23
        DEF Next, RunStep

\* The initial states have the types.
LEMMA TypeInit == Init => TypeOK
<1> SUFFICES ASSUME Init PROVE TypeOK
  OBVIOUS
<1>1. events \in Seq(Event) /\ Len(events) <= EventCap
  BY EventCapAssumption DEF Init
<1>2. backoff \in 1 .. MaxBackoff
  BY DEF Init, MaxBackoff
<1> QED BY <1>1, <1>2, Zenon DEF Init, TypeOK, Event

\* Type correctness: the event channel is never over its capacity, and the backoff
\* stays between one and ten seconds however often Run reconnects.
THEOREM TypeCorrect == Spec => []TypeOK
BY TypeInit, TypeStep, PTL DEF Spec

-----------------------------------------------------------------------------
(* A refused token is not sent again.                                      *)

\* After a tls_required answer connectOnce returns that error, and Run stays down.
RefusalInv ==
  /\ ~resent
  /\ refused => \/ pc \in {"after", "down"} /\ err = "tls_required"
                \/ pc \in {"parked", "stop", "close", "returned"}

\* Every step keeps it.
LEMMA RefusalStep ==
  ASSUME TypeOK, RefusalInv, [Next]_vars
  PROVE  RefusalInv'
<1> USE DEF RefusalInv, TypeOK, Others, connVars, eventVars, uiVars, histVars
<1>1. ASSUME RunStep
      PROVE  RefusalInv'
  BY <1>1
     DEF RunStep, Start, DialOK, HandshakeFails, SendHello, ReadAck, Publish, Up, SessionEnds,
       After, Down, BackoffOver, Again, WaitCancelled, Stop, Shutdown, ConnectOnceReturns
<1>2. ASSUME \/ Stall \/ Unstall \/ Cancel \/ WatcherCloses \/ PeerEnds \/ Consume \/ ChannelClosed
             \/ LogReturns \/ QuitKey
             \/ \E h \in Handler : HandlerStarts(h) \/ HandlerServed(h) \/ HandlerEmits(h)
             \/ UNCHANGED vars
      PROVE  UNCHANGED <<pc, err, refused, resent>>
  BY <1>2, Zenon
     DEF Stall, Unstall, Cancel, WatcherCloses, PeerEnds, Consume, ChannelClosed, LogReturns,
       QuitKey, HandlerStarts, HandlerServed, HandlerEmits, vars
<1>3. ASSUME UNCHANGED <<pc, err, refused, resent>>
      PROVE  RefusalInv'
  BY <1>3
<1> QED BY <1>1, <1>2, <1>3 DEF Next

\* A token that a server refused over plaintext is never sent in plaintext again,
\* however many times the tunnel would have reconnected.
THEOREM RefusedTokenIsNotResent == Spec => []PlaintextRefusalIsFinal
<1>1. Init => RefusalInv
  BY DEF Init, RefusalInv
<1>2. RefusalInv => PlaintextRefusalIsFinal
  BY DEF RefusalInv, PlaintextRefusalIsFinal
<1> QED BY <1>1, <1>2, TypeInit, TypeStep, RefusalStep, PTL DEF Spec

-----------------------------------------------------------------------------
(* The event channel.                                                      *)

\* Nothing is put on the channel once shutdown has closed it (emit checks closed
\* under the lock that shutdown takes), whoever still serves a request then.
THEOREM ClosedChannelTakesNothing == Spec => NoSendAfterClose
<1>1. ASSUME TypeOK, [Next]_vars, closed
      PROVE  Len(events') <= Len(events)
  <2>1. events \in Seq(Event) /\ Len(events) \in Nat
    BY <1>1 DEF TypeOK
  <2>2. ASSUME NEW e, Emit(e)
        PROVE  events' = events
    BY <1>1, <2>2 DEF Emit, Send
  <2>3. CASE \/ (\E e \in Event : Emit(e)) \/ UNCHANGED events
    BY <2>1, <2>2, <2>3
  <2>4. CASE Consume
    BY <2>1, <2>4 DEF Consume
  <2>5. CASE RunStep
    BY <2>3, <2>5
       DEF RunStep, Start, DialOK, HandshakeFails, SendHello, ReadAck, Publish, Up, SessionEnds,
       After, Down, BackoffOver, Again, WaitCancelled, Stop, Shutdown, eventVars, Event
  <2>6. CASE \E h \in Handler : HandlerStarts(h) \/ HandlerServed(h) \/ HandlerEmits(h)
    BY <2>3, <2>6 DEF HandlerStarts, HandlerServed, HandlerEmits, eventVars, Event
  <2>7. CASE \/ Stall \/ Unstall \/ Cancel \/ WatcherCloses \/ PeerEnds \/ ChannelClosed
             \/ LogReturns \/ QuitKey \/ UNCHANGED vars
    BY <2>3, <2>7 DEF Stall, Unstall, Cancel, WatcherCloses, PeerEnds, ChannelClosed,
       LogReturns, QuitKey, vars, eventVars
  <2> QED BY <1>1, <2>4, <2>5, <2>6, <2>7 DEF Next
<1>2. TypeOK /\ [Next]_vars => [closed => Len(events') <= Len(events)]_vars
  BY <1>1
<1> QED BY <1>2, TypeInit, TypeStep, PTL DEF Spec, NoSendAfterClose

-----------------------------------------------------------------------------
(* What the user is told.                                                  *)

\* The newest status event is w: it is on the screen, or on its way there with
\* nothing but records of requests behind it.
LastWord(w) ==
  \/ shown = w /\ \A i \in 1 .. Len(events) : events[i] = "request"
  \/ \E i \in 1 .. Len(events) :
       events[i] = w /\ \A j \in 1 .. Len(events) : j > i => events[j] = "request"

ConnInv ==
  /\ pc = "after" => sock = "none"
  /\ pc \in {"down", "backoff", "parked", "again", "start", "dial"} => ~connected /\ sock = "none"
  /\ pc \in {"hello", "ack", "publish"} => ~connected
  /\ InProcess /\ ~lost /\ pc = "run" => LastWord("connected")
  /\ InProcess /\ ~lost /\ pc \in {"backoff", "parked"} => LastWord("disconnected")

\* Sending a status makes it the newest, if there is room for it.
LEMMA EmitStatus ==
  ASSUME TypeOK, NEW w \in Event \ {"request"}, Emit(w), ~lost'
  PROVE  LastWord(w)'
<1>1. events \in Seq(Event) /\ events' = Append(events, w)
  BY DEF Emit, Send, TypeOK
<1>2. Len(events') = Len(events) + 1 /\ events'[Len(events')] = w /\ Len(events) \in Nat
  BY <1>1
<1> QED BY <1>2 DEF LastWord

\* A record sent by a handler does not change the newest status.
LEMMA EmitRecord ==
  ASSUME TypeOK, NEW w, LastWord(w), Emit("request"), shown' = shown
  PROVE  LastWord(w)' /\ lost' = lost
<1>1. lost' = lost /\ events \in Seq(Event) /\ (events' = events \/ events' = Append(events, "request"))
  BY DEF Emit, Send, TypeOK
<1>2. CASE events' = events
  BY <1>1, <1>2 DEF LastWord
<1>3. CASE events' = Append(events, "request")
  <2>1. /\ Len(events') = Len(events) + 1 /\ Len(events) \in Nat
        /\ events'[Len(events) + 1] = "request"
        /\ \A i \in 1 .. Len(events) : events'[i] = events[i]
    BY <1>1, <1>3
  <2>2. \A i \in 1 .. Len(events') : i \in 1 .. Len(events) \/ i = Len(events) + 1
    BY <2>1
  <2> QED BY <1>1, <2>1, <2>2 DEF LastWord
<1> QED BY <1>1, <1>2, <1>3

\* Neither does taking an event: the newest comes nearer to the screen.
LEMMA ConsumeKeeps ==
  ASSUME TypeOK, NEW w \in Event \ {"request"}, LastWord(w), Consume
  PROVE  LastWord(w)'
<1>1. /\ events \in Seq(Event) /\ events # <<>> /\ events' = Tail(events)
      /\ shown' = IF Head(events) = "request" THEN shown ELSE Head(events)
  BY DEF Consume, Show, TypeOK
<1>2. /\ Len(events) \in Nat /\ Len(events) >= 1 /\ Len(events') = Len(events) - 1
      /\ Head(events) = events[1]
      /\ \A i \in 1 .. Len(events') : events'[i] = events[i + 1]
  BY <1>1
<1>3. CASE shown = w /\ \A i \in 1 .. Len(events) : events[i] = "request"
  BY <1>1, <1>2, <1>3 DEF LastWord
<1>4. ASSUME NEW i \in 1 .. Len(events), events[i] = w,
             \A j \in 1 .. Len(events) : j > i => events[j] = "request"
      PROVE  LastWord(w)'
  <2>1. CASE i = 1
    <3>1. shown' = w
      BY <1>1, <1>2, <1>4, <2>1
    <3>2. \A j \in 1 .. Len(events') : events'[j] = "request"
      BY <1>2, <1>4, <2>1
    <3> QED BY <3>1, <3>2 DEF LastWord
  <2>2. CASE i > 1
    <3>1. i - 1 \in 1 .. Len(events') /\ events'[i - 1] = w
      BY <1>2, <1>4, <2>2
    <3>2. \A j \in 1 .. Len(events') : j > i - 1 => events'[j] = "request"
      BY <1>2, <1>4, <2>2
    <3> QED BY <3>1, <3>2 DEF LastWord
  <2> QED BY <2>1, <2>2
<1> QED BY <1>3, <1>4 DEF LastWord

\* Every step keeps the status and the screen in line with Run.
LEMMA ConnStep ==
  ASSUME TypeOK, ConnInv, [Next]_vars
  PROVE  ConnInv'
<1> USE DEF ConnInv, InProcess, Others, connVars, eventVars, uiVars, histVars
<1>t. connected \in BOOLEAN
  BY DEF TypeOK
<1>1. ASSUME Up
      PROVE  ConnInv'
  <2>1. ~lost' => LastWord("connected")'
    BY <1>1, EmitStatus DEF Up, Event
  <2> QED BY <1>1, <2>1 DEF Up
<1>2. ASSUME Down
      PROVE  ConnInv'
  <2>1. ~lost' => LastWord("disconnected")'
    BY <1>2, EmitStatus DEF Down, Event
  <2> QED BY <1>2, <2>1 DEF Down
<1>3. ASSUME \/ Start \/ DialOK \/ HandshakeFails \/ SendHello \/ (\E a \in Answers : ReadAck(a)) \/ Publish
             \/ SessionEnds \/ After \/ BackoffOver \/ Again \/ WaitCancelled \/ Stop \/ Shutdown
      PROVE  ConnInv'
  <2>1. pc' \notin {"run", "backoff", "parked"}
    BY <1>3 DEF Start, DialOK, HandshakeFails, SendHello, ReadAck, Publish, SessionEnds,
       After, BackoffOver, Again, WaitCancelled, Stop, Shutdown, ConnectOnceReturns
  <2>2. /\ pc' = "after" => sock' = "none"
        /\ pc' \in {"down", "backoff", "parked", "again", "start", "dial"} => ~connected' /\ sock' = "none"
        /\ pc' \in {"hello", "ack", "publish"} => ~connected'
    BY <1>3 DEF Start, DialOK, HandshakeFails, SendHello, ReadAck, Publish, SessionEnds,
       After, BackoffOver, Again, WaitCancelled, Stop, Shutdown, ConnectOnceReturns
  <2> QED BY <2>1, <2>2
<1>4. ASSUME NEW h \in Handler, HandlerEmits(h)
      PROVE  ConnInv'
  <2>1. /\ \A w : LastWord(w) => LastWord(w)'
        /\ lost' = lost
    BY <1>4, EmitRecord DEF HandlerEmits, Emit, Send
  <2> QED BY <1>4, <2>1 DEF HandlerEmits
<1>5. ASSUME Consume
      PROVE  ConnInv'
  <2>1. /\ LastWord("connected") => LastWord("connected")'
        /\ LastWord("disconnected") => LastWord("disconnected")'
    BY <1>5, ConsumeKeeps DEF Event
  <2> QED BY <1>5, <2>1 DEF Consume
<1>6. ASSUME ChannelClosed
      PROVE  ConnInv'
  <2>1. CASE consumer' = "exited" /\ UNCHANGED <<pc, sock, connected>>
    BY <2>1
  <2>2. CASE UNCHANGED <<pc, sock, connected, lost, events, shown>> /\ consumer # "exited"
    BY <2>2 DEF LastWord
  <2> QED BY <1>6, <2>1, <2>2 DEF ChannelClosed, Show
<1>7. ASSUME \/ Stall \/ Unstall \/ Cancel \/ LogReturns \/ QuitKey
             \/ (\E h \in Handler : HandlerStarts(h) \/ HandlerServed(h)) \/ UNCHANGED vars
      PROVE  ConnInv'
  <2>1. /\ UNCHANGED <<pc, sock, connected, lost, events, shown>>
        /\ consumer' = consumer \/ consumer' = "exited"
    BY <1>7
       DEF Stall, Unstall, Cancel, LogReturns, QuitKey, HandlerStarts, HandlerServed, vars
  <2> QED BY <2>1 DEF LastWord
<1>8. ASSUME WatcherCloses \/ PeerEnds
      PROVE  ConnInv'
  <2>1. sock # "none" /\ UNCHANGED <<pc, connected, lost, events, shown, consumer>>
    BY <1>8 DEF WatcherCloses, PeerEnds
  <2> QED BY <2>1 DEF LastWord
<1> QED BY <1>1, <1>2, <1>3, <1>4, <1>5, <1>6, <1>7, <1>8 DEF Next, RunStep

\* What the user is told is so: the tunnel's status is down whenever Run waits, and a
\* UI that has caught up shows the state Run is in unless the newest status event was
\* itself dropped, whatever the records of late handlers and earlier drops did.
THEOREM StatusStaysCurrent == Spec => []StatusIsCurrent
<1>1. Init => ConnInv
  BY DEF Init, ConnInv
<1>2. ConnInv => StatusIsCurrent
  <2> SUFFICES ASSUME ConnInv PROVE StatusIsCurrent
    OBVIOUS
  <2>1. ASSUME events = <<>>, NEW w, LastWord(w)
        PROVE  shown = w
    BY <2>1 DEF LastWord
  <2> QED BY <2>1 DEF ConnInv, StatusIsCurrent
<1> QED BY <1>1, <1>2, TypeInit, TypeStep, ConnStep, PTL DEF Spec
=============================================================================
