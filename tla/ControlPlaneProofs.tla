--------------------------- MODULE ControlPlaneProofs ---------------------------
(***************************************************************************)
(* Theorems about ControlPlane, for any number of connections, viewers,    *)
(* names and hellos, and any configuration the server starts with.         *)
(***************************************************************************)
EXTENDS ControlPlane, TLAPS

-----------------------------------------------------------------------------
(* Type correctness.                                                       *)

\* The names a hello and its token mention.
LEMMA HelloNames ==
  ASSUME TypeOK, NEW c \in Conn
  PROVE  /\ hello[c].subdomain \in Name \cup {NoName}
         /\ hello[c].token.signed => hello[c].token.sub \in Name \cup {NoName}
<1>1. hello[c] \in Hellos \cup EnrolledHellos \cup {NoHello}
  BY DEF TypeOK
<1>2. CASE hello[c] \in Hellos
  BY <1>2, HelloAssumption
<1>3. CASE hello[c] \in EnrolledHellos
  <2>1. hello[c].token \in issued /\ hello[c].subdomain \in Name \cup {NoName}
    BY <1>3 DEF EnrolledHellos
  <2>2. hello[c].token.sub \in Name \cup {NoName}
    BY <2>1, NameAssumption DEF TypeOK, EnrollToken
  <2> QED BY <2>1, <2>2
<1>4. CASE hello[c] = NoHello
  BY <1>4 DEF NoHello, NoToken
<1> QED BY <1>1, <1>2, <1>3, <1>4

\* The name a handler takes from its token or its hello is one.
LEMMA ChosenName ==
  ASSUME TypeOK, NEW c \in Conn
  PROVE  /\ ReservedSubdomain(Cfg, hello[c].token, now) \in Name \cup {NoName}
         /\ hello[c].subdomain \in Name \cup {NoName}
BY HelloNames, ConfigAssumption, NameAssumption DEF ReservedSubdomain, IsSigned, ConfigOK

\* A request that was answered leaves nothing behind.
LEMMA EmptyRequest == \A v \in Viewer : NoRequest(v) \in Request
BY BoundAssumption DEF NoRequest, MadeUp, Cookie, Request, Path

\* The token endpoint hands out tokens of a valid name, or of none.
LEMMA IssuedType ==
  ASSUME TypeOK, NEW a \in TokenAsks, NEW id \in EnrollIDs, IssueToken(a, id)
  PROVE  issued' \subseteq EnrollToken
<1> DEFINE ttl == IF a.ttl = 0 THEN DefaultTTL ELSE a.ttl
           exp == now + IF ttl > MaxTTL THEN MaxTTL ELSE ttl
<1>1. ttl \in Int /\ ttl > 0 /\ a.sub \in ValidName \cup {NoName}
  BY TTLAssumption, AskAssumption DEF IssueToken
<1>2. exp \in Nat
  BY <1>1, TTLAssumption, BoundAssumption DEF TypeOK
<1>3. Mint(id, a.sub, exp) \in EnrollToken
  BY <1>1, <1>2 DEF Mint, EnrollToken
<1>4. issued' = issued \cup {Mint(id, a.sub, exp)}
  BY DEF IssueToken
<1> QED BY <1>3, <1>4 DEF TypeOK

\* Every action keeps the types.
LEMMA TypeStep ==
  ASSUME TypeOK, [Next]_vars
  PROVE  TypeOK'
<1>now. now \in 0 .. MaxTime
  BY DEF TypeOK
<1>pc. pc \in [Conn -> HandlerPc]
  BY DEF TypeOK
<1>hello. hello \in [Conn -> Hellos \cup EnrolledHellos \cup {NoHello}]
  BY DEF TypeOK
<1>sub. sub \in [Conn -> Name \cup {NoName}]
  BY DEF TypeOK
<1>protected. protected \in [Conn -> BOOLEAN]
  BY DEF TypeOK
<1>rolls. rolls \in [Conn -> 0 .. MaxRolls]
  BY DEF TypeOK
<1>evicted. evicted \in [Conn -> Conn \cup {None}]
  BY DEF TypeOK
<1>reg. reg \in [Name -> Conn \cup {None}]
  BY DEF TypeOK
<1>cprot. cprot \in [Conn -> BOOLEAN]
  BY DEF TypeOK
<1>ready. ready \in [Conn -> BOOLEAN]
  BY DEF TypeOK
<1>sess. sess \in [Conn -> {"none", "open", "closed"}]
  BY DEF TypeOK
<1>peer. peer \in [Conn -> {"here", "gone", "stale"}]
  BY DEF TypeOK
<1>first. first \in [Conn -> {"nothing", "ack", "nack", "frame"}]
  BY DEF TypeOK
<1>req. req \in [Viewer -> Request]
  BY DEF TypeOK
<1>cookies. cookies \subseteq Cookie
  BY DEF TypeOK
<1>issued. issued \subseteq EnrollToken
  BY DEF TypeOK
<1>u. CASE UNCHANGED vars
  BY <1>u DEF TypeOK, vars, hsVars, webVars, EnrolledHellos
<1>1. ASSUME NEW c \in Conn, ReadHello(c)
      PROVE  TypeOK'
  <2>e. EnrolledHellos' = EnrolledHellos
    BY <1>1 DEF ReadHello, EnrolledHellos, Elsewhere, Others, webVars
  <2>1. hello' \in [Conn -> Hellos \cup EnrolledHellos' \cup {NoHello}]
    BY <1>1, <1>hello, <2>e DEF ReadHello
  <2>2. pc' \in [Conn -> HandlerPc]
    BY <1>1, <1>pc DEF ReadHello, PassIf, Reject, Goto, HandlerPc
  <2>3. first' \in [Conn -> {"nothing", "ack", "nack", "frame"}]
    BY <1>1, <1>first DEF ReadHello, PassIf, Reject, Wrote
  <2> QED BY <1>1, <2>e, <2>1, <2>2, <2>3
     DEF ReadHello, TypeOK, Elsewhere, Others, hsVars, webVars
<1>2. ASSUME NEW c \in Conn, AuthCheck(c)
      PROVE  TypeOK'
  <2>e. EnrolledHellos' = EnrolledHellos
    BY <1>2 DEF AuthCheck, EnrolledHellos, Elsewhere, Others, webVars
  <2>1. pc' \in [Conn -> HandlerPc]
    BY <1>2, <1>pc DEF AuthCheck, PassIf, Reject, Goto, HandlerPc
  <2>2. first' \in [Conn -> {"nothing", "ack", "nack", "frame"}]
    BY <1>2, <1>first DEF AuthCheck, PassIf, Reject, Wrote
  <2> QED BY <1>2, <2>e, <2>1, <2>2
     DEF AuthCheck, TypeOK, Elsewhere, Others, hsVars, webVars
<1>3. ASSUME NEW c \in Conn, ChooseName(c)
      PROVE  TypeOK'
  <2>e. EnrolledHellos' = EnrolledHellos
    BY <1>3 DEF ChooseName, EnrolledHellos, Elsewhere, Others, webVars
  <2>1. sub' \in [Conn -> Name \cup {NoName}]
    BY <1>3, <1>sub, ChosenName DEF ChooseName
  <2>2. pc' \in [Conn -> HandlerPc]
    BY <1>3, <1>pc DEF ChooseName, Goto, HandlerPc
  <2> QED BY <1>3, <2>e, <2>1, <2>2
     DEF ChooseName, TypeOK, Elsewhere, Others, hsVars, webVars
<1>4. ASSUME NEW c \in Conn, ScopeCheck(c)
      PROVE  TypeOK'
  <2>e. EnrolledHellos' = EnrolledHellos
    BY <1>4 DEF ScopeCheck, EnrolledHellos, Elsewhere, Others, webVars
  <2>1. pc' \in [Conn -> HandlerPc]
    BY <1>4, <1>pc DEF ScopeCheck, PassIf, Reject, Goto, HandlerPc
  <2>2. first' \in [Conn -> {"nothing", "ack", "nack", "frame"}]
    BY <1>4, <1>first DEF ScopeCheck, PassIf, Reject, Wrote
  <2> QED BY <1>4, <2>e, <2>1, <2>2
     DEF ScopeCheck, TypeOK, Elsewhere, Others, hsVars, webVars
<1>5. ASSUME NEW c \in Conn, ReservedCheck(c)
      PROVE  TypeOK'
  <2>e. EnrolledHellos' = EnrolledHellos
    BY <1>5 DEF ReservedCheck, EnrolledHellos, Elsewhere, Others, webVars
  <2>1. pc' \in [Conn -> HandlerPc]
    BY <1>5, <1>pc DEF ReservedCheck, PassIf, Reject, Goto, HandlerPc
  <2>2. first' \in [Conn -> {"nothing", "ack", "nack", "frame"}]
    BY <1>5, <1>first DEF ReservedCheck, PassIf, Reject, Wrote
  <2> QED BY <1>5, <2>e, <2>1, <2>2
     DEF ReservedCheck, TypeOK, Elsewhere, Others, hsVars, webVars
<1>6. ASSUME NEW c \in Conn, Protect(c)
      PROVE  TypeOK'
  <2>e. EnrolledHellos' = EnrolledHellos
    BY <1>6 DEF Protect, EnrolledHellos, Elsewhere, Others, webVars
  <2>1. protected' \in [Conn -> BOOLEAN]
    BY <1>6, <1>protected DEF Protect
  <2>2. pc' \in [Conn -> HandlerPc]
    BY <1>6, <1>pc DEF Protect, PassIf, Reject, Goto, HandlerPc
  <2>3. first' \in [Conn -> {"nothing", "ack", "nack", "frame"}]
    BY <1>6, <1>first DEF Protect, PassIf, Reject, Wrote
  <2> QED BY <1>6, <2>e, <2>1, <2>2, <2>3
     DEF Protect, TypeOK, Elsewhere, Others, hsVars, webVars
<1>7. ASSUME NEW c \in Conn, NewSession(c)
      PROVE  TypeOK'
  <2>e. EnrolledHellos' = EnrolledHellos
    BY <1>7 DEF NewSession, EnrolledHellos, Elsewhere, Others, webVars
  <2>1. sess' \in [Conn -> {"none", "open", "closed"}]
    BY <1>7, <1>sess DEF NewSession
  <2>2. pc' \in [Conn -> HandlerPc]
    BY <1>7, <1>pc DEF NewSession, Goto, HandlerPc
  <2> QED BY <1>7, <2>e, <2>1, <2>2
     DEF NewSession, TypeOK, Elsewhere, Others, hsVars, webVars
<1>8. ASSUME NEW c \in Conn, NEW n \in Name, Register(c, n)
      PROVE  TypeOK'
  <2>e. EnrolledHellos' = EnrolledHellos
    BY <1>8 DEF Register, EnrolledHellos, Elsewhere, Others, webVars
  <2>1. reg' \in [Name -> Conn \cup {None}]
    BY <1>8, <1>reg DEF Register
  <2>2. evicted' \in [Conn -> Conn \cup {None}]
    BY <1>8, <1>evicted, <1>reg DEF Register
  <2>3. sub' \in [Conn -> Name \cup {NoName}]
    BY <1>8, <1>sub DEF Register
  <2>4. pc' \in [Conn -> HandlerPc]
    BY <1>8, <1>pc DEF Register, Goto, HandlerPc
  <2> QED BY <1>8, <2>e, <2>1, <2>2, <2>3, <2>4
     DEF Register, TypeOK, Elsewhere, Others, hsVars, webVars
<1>9. ASSUME NEW c \in Conn, NEW n \in Name, RollAgain(c, n)
      PROVE  TypeOK'
  <2>e. EnrolledHellos' = EnrolledHellos
    BY <1>9 DEF RollAgain, EnrolledHellos, Elsewhere, Others, webVars
  <2>1. rolls' \in [Conn -> 0 .. MaxRolls]
    BY <1>9, <1>rolls, BoundAssumption DEF RollAgain
  <2> QED BY <1>9, <2>e, <2>1 DEF RollAgain, TypeOK, Elsewhere, Others, hsVars, webVars
<1>10. ASSUME NEW c \in Conn, RegisterFails(c)
      PROVE  TypeOK'
  <2>e. EnrolledHellos' = EnrolledHellos
    BY <1>10 DEF RegisterFails, EnrolledHellos, Elsewhere, Others, webVars
  <2>1. pc' \in [Conn -> HandlerPc]
    BY <1>10, <1>pc DEF RegisterFails, Reject, Goto, HandlerPc
  <2>2. first' \in [Conn -> {"nothing", "ack", "nack", "frame"}]
    BY <1>10, <1>first DEF RegisterFails, Reject, Wrote
  <2> QED BY <1>10, <2>e, <2>1, <2>2
     DEF RegisterFails, TypeOK, Elsewhere, Others, hsVars, webVars
<1>11. ASSUME NEW c \in Conn, SetProtected(c)
      PROVE  TypeOK'
  <2>e. EnrolledHellos' = EnrolledHellos
    BY <1>11 DEF SetProtected, EnrolledHellos, Elsewhere, Others, webVars
  <2>1. cprot' \in [Conn -> BOOLEAN]
    BY <1>11, <1>cprot, <1>protected DEF SetProtected
  <2>2. pc' \in [Conn -> HandlerPc]
    BY <1>11, <1>pc DEF SetProtected, Goto, HandlerPc
  <2> QED BY <1>11, <2>e, <2>1, <2>2
     DEF SetProtected, TypeOK, Elsewhere, Others, hsVars, webVars
<1>12. ASSUME NEW c \in Conn, Evict(c)
      PROVE  TypeOK'
  <2>e. EnrolledHellos' = EnrolledHellos
    BY <1>12 DEF Evict, EnrolledHellos, Elsewhere, Others, webVars
  <2>1. sess' \in [Conn -> {"none", "open", "closed"}]
    BY <1>12, <1>sess DEF Evict
  <2>2. pc' \in [Conn -> HandlerPc]
    BY <1>12, <1>pc DEF Evict, Goto, HandlerPc
  <2> QED BY <1>12, <2>e, <2>1, <2>2 DEF Evict, TypeOK, Elsewhere, Others, hsVars, webVars
<1>13. ASSUME NEW c \in Conn, WriteAck(c)
      PROVE  TypeOK'
  <2>e. EnrolledHellos' = EnrolledHellos
    BY <1>13 DEF WriteAck, EnrolledHellos, Elsewhere, Others, webVars
  <2>1. first' \in [Conn -> {"nothing", "ack", "nack", "frame"}]
    BY <1>13, <1>first DEF WriteAck, Wrote
  <2>2. ready' \in [Conn -> BOOLEAN]
    BY <1>13, <1>ready DEF WriteAck
  <2>3. pc' \in [Conn -> HandlerPc]
    BY <1>13, <1>pc DEF WriteAck, Goto, HandlerPc
  <2> QED BY <1>13, <2>e, <2>1, <2>2, <2>3
     DEF WriteAck, TypeOK, Elsewhere, Others, hsVars, webVars
<1>14. ASSUME NEW c \in Conn, AckFailed(c)
      PROVE  TypeOK'
  <2>e. EnrolledHellos' = EnrolledHellos
    BY <1>14 DEF AckFailed, EnrolledHellos, Elsewhere, Others, webVars
  <2>1. reg' \in [Name -> Conn \cup {None}]
    BY <1>14, <1>reg DEF AckFailed, Unregister
  <2>2. pc' \in [Conn -> HandlerPc]
    BY <1>14, <1>pc DEF AckFailed, Goto, HandlerPc
  <2> QED BY <1>14, <2>e, <2>1, <2>2
     DEF AckFailed, TypeOK, Elsewhere, Others, hsVars, webVars
<1>15. ASSUME NEW c \in Conn, AckFailedClose(c)
      PROVE  TypeOK'
  <2>e. EnrolledHellos' = EnrolledHellos
    BY <1>15 DEF AckFailedClose, EnrolledHellos, Elsewhere, Others, webVars
  <2>1. sess' \in [Conn -> {"none", "open", "closed"}]
    BY <1>15, <1>sess DEF AckFailedClose
  <2>2. ready' \in [Conn -> BOOLEAN]
    BY <1>15, <1>ready DEF AckFailedClose
  <2>3. pc' \in [Conn -> HandlerPc]
    BY <1>15, <1>pc DEF AckFailedClose, Goto, HandlerPc
  <2> QED BY <1>15, <2>e, <2>1, <2>2, <2>3
     DEF AckFailedClose, TypeOK, Elsewhere, Others, hsVars, webVars
<1>16. ASSUME NEW c \in Conn, RunReturns(c)
      PROVE  TypeOK'
  <2>e. EnrolledHellos' = EnrolledHellos
    BY <1>16 DEF RunReturns, EnrolledHellos, Elsewhere, Others, webVars
  <2>1. pc' \in [Conn -> HandlerPc]
    BY <1>16, <1>pc DEF RunReturns, Goto, HandlerPc
  <2> QED BY <1>16, <2>e, <2>1 DEF RunReturns, TypeOK, Elsewhere, Others, hsVars, webVars
<1>17. ASSUME NEW c \in Conn, HandlerEnds(c)
      PROVE  TypeOK'
  <2>e. EnrolledHellos' = EnrolledHellos
    BY <1>17 DEF HandlerEnds, EnrolledHellos, Elsewhere, Others, webVars
  <2>1. reg' \in [Name -> Conn \cup {None}]
    BY <1>17, <1>reg DEF HandlerEnds, Unregister
  <2>2. pc' \in [Conn -> HandlerPc]
    BY <1>17, <1>pc DEF HandlerEnds, Goto, HandlerPc
  <2> QED BY <1>17, <2>e, <2>1, <2>2
     DEF HandlerEnds, TypeOK, Elsewhere, Others, hsVars, webVars
<1>18. ASSUME NEW c \in Conn, ClientCloses(c)
      PROVE  TypeOK'
  <2>e. EnrolledHellos' = EnrolledHellos
    BY <1>18 DEF ClientCloses, EnrolledHellos, Elsewhere, Others, webVars
  <2>1. sess' \in [Conn -> {"none", "open", "closed"}]
    BY <1>18, <1>sess DEF ClientCloses
  <2> QED BY <1>18, <2>e, <2>1 DEF ClientCloses, TypeOK, Elsewhere, Others, hsVars, webVars
<1>19. ASSUME NEW c \in Conn, ClientVanishes(c)
      PROVE  TypeOK'
  <2>e. EnrolledHellos' = EnrolledHellos
    BY <1>19 DEF ClientVanishes, EnrolledHellos, Elsewhere, Others, webVars
  <2>1. peer' \in [Conn -> {"here", "gone", "stale"}]
    BY <1>19, <1>peer DEF ClientVanishes
  <2> QED BY <1>19, <2>e, <2>1
     DEF ClientVanishes, TypeOK, Elsewhere, Others, hsVars, webVars
<1>20. ASSUME NEW c \in Conn, BecomesStale(c)
      PROVE  TypeOK'
  <2>e. EnrolledHellos' = EnrolledHellos
    BY <1>20 DEF BecomesStale, EnrolledHellos, Elsewhere, Others, webVars
  <2>1. peer' \in [Conn -> {"here", "gone", "stale"}]
    BY <1>20, <1>peer DEF BecomesStale
  <2> QED BY <1>20, <2>e, <2>1 DEF BecomesStale, TypeOK, Elsewhere, Others, hsVars, webVars
<1>21. ASSUME NEW c \in Conn, IdleTimeout(c)
      PROVE  TypeOK'
  <2>e. EnrolledHellos' = EnrolledHellos
    BY <1>21 DEF IdleTimeout, EnrolledHellos, Elsewhere, Others, webVars
  <2>1. sess' \in [Conn -> {"none", "open", "closed"}]
    BY <1>21, <1>sess DEF IdleTimeout
  <2> QED BY <1>21, <2>e, <2>1 DEF IdleTimeout, TypeOK, Elsewhere, Others, hsVars, webVars
<1>22. ASSUME NEW v \in Viewer, WaitReady(v)
      PROVE  TypeOK'
  <2>e. EnrolledHellos' = EnrolledHellos
    BY <1>22 DEF WaitReady, EnrolledHellos, Elsewhere, Others, webVars
  <2>1. req' \in [Viewer -> Request]
    BY <1>22, <1>req, EmptyRequest DEF WaitReady, Answered, Request
  <2> QED BY <1>22, <2>e, <2>1 DEF WaitReady, TypeOK, Elsewhere, Others, hsVars, webVars
<1>23. ASSUME NEW v \in Viewer, FAHandle(v)
      PROVE  TypeOK'
  <2>e. EnrolledHellos' = EnrolledHellos
    BY <1>23 DEF FAHandle, EnrolledHellos, Elsewhere, Others, webVars
  <2>1. req' \in [Viewer -> Request]
    BY <1>23, <1>req, EmptyRequest DEF FAHandle, Answered
  <2>2. now + SessionTTL \in Nat
    BY <1>now, BoundAssumption, TTLAssumption
  <2>3. [user |-> v, exp |-> now + SessionTTL, genuine |-> TRUE] \in Cookie
    BY <2>2 DEF Cookie
  <2>4. cookies' \subseteq Cookie
    BY <1>23, <1>cookies, <2>3 DEF FAHandle
  <2> QED BY <1>23, <2>e, <2>1, <2>4
     DEF FAHandle, TypeOK, Elsewhere, Others, hsVars, webVars
<1>24. ASSUME NEW v \in Viewer, Admit(v)
      PROVE  TypeOK'
  <2>e. EnrolledHellos' = EnrolledHellos
    BY <1>24 DEF Admit, EnrolledHellos, Elsewhere, Others, webVars
  <2>1. req' \in [Viewer -> Request]
    BY <1>24, <1>req, EmptyRequest DEF Admit, Answered, Request, Identity
  <2>2. first' \in [Conn -> {"nothing", "ack", "nack", "frame"}]
    BY <1>24, <1>first DEF Admit, Wrote
  <2> QED BY <1>24, <2>e, <2>1, <2>2 DEF Admit, TypeOK, Elsewhere, Others, hsVars, webVars
<1>25. ASSUME NEW v \in Viewer, Relayed(v)
      PROVE  TypeOK'
  <2>e. EnrolledHellos' = EnrolledHellos
    BY <1>25 DEF Relayed, EnrolledHellos, Elsewhere, Others, webVars
  <2>1. req' \in [Viewer -> Request]
    BY <1>25, <1>req, EmptyRequest DEF Relayed, Answered
  <2> QED BY <1>25, <2>e, <2>1 DEF Relayed, TypeOK, Elsewhere, Others, hsVars, webVars
<1>26. ASSUME NEW v \in Viewer, NEW n \in ValidName, NEW path \in Path,
              NEW k \in cookies \cup {MadeUp(v)}, Lookup(v, n, path, k)
      PROVE  TypeOK'
  <2>e. EnrolledHellos' = EnrolledHellos
    BY <1>26 DEF Lookup, EnrolledHellos, Elsewhere, Others, webVars
  <2>1. k \in Cookie
    <3>1. MadeUp(v) \in Cookie
      BY BoundAssumption DEF MadeUp, Cookie
    <3> QED BY <1>cookies, <3>1
  <2>2. n \in Name /\ reg[n] \in Conn \cup {None}
    BY <1>reg, NameAssumption
  <2>3. [pc |-> "wait", name |-> n, conn |-> reg[n], path |-> path, cookie |-> k,
         user |-> "viewer"] \in Request
    BY <2>1, <2>2 DEF Request
  <2>4. req' \in [Viewer -> Request]
    BY <1>26, <1>req, <2>3 DEF Lookup
  <2> QED BY <1>26, <2>e, <2>4 DEF Lookup, TypeOK, Elsewhere, Others, hsVars, webVars
<1>27. ASSUME NEW a \in TokenAsks, NEW id \in EnrollIDs, IssueToken(a, id)
      PROVE  TypeOK'
  <2>e. EnrolledHellos \subseteq EnrolledHellos'
    BY <1>27 DEF IssueToken, EnrolledHellos
  <2>1. issued' \subseteq EnrollToken
    BY <1>27, <1>issued, IssuedType DEF IssueToken
  <2> QED BY <1>27, <2>e, <2>1 DEF IssueToken, TypeOK, Elsewhere, Others, hsVars, webVars
<1>28. ASSUME Tick
      PROVE  TypeOK'
  <2>e. EnrolledHellos' = EnrolledHellos
    BY <1>28 DEF Tick, EnrolledHellos, Elsewhere, Others, webVars
  <2>1. now' \in 0 .. MaxTime
    BY <1>28, <1>now, BoundAssumption DEF Tick
  <2> QED BY <1>28, <2>e, <2>1 DEF Tick, TypeOK, Elsewhere, Others, hsVars, webVars
<1> QED BY <1>u, <1>1, <1>2, <1>3, <1>4, <1>5, <1>6, <1>7, <1>8, <1>9, <1>10, <1>11, <1>12,
           <1>13, <1>14, <1>15, <1>16, <1>17, <1>18, <1>19, <1>20, <1>21, <1>22, <1>23, <1>24,
           <1>25, <1>26, <1>27, <1>28
   DEF Next, HandlerStep, RequestStep

\* The initial state has the types.
LEMMA TypeInit == Init => TypeOK
BY BoundAssumption, EmptyRequest
   DEF Init, TypeOK, HandlerPc

\* Type correctness for every instance: in particular no handler rolls a name more
\* often than the loop of handleControlConn allows.
THEOREM TypeCorrect == Spec => []TypeOK
BY TypeInit, TypeStep, PTL DEF Spec

-----------------------------------------------------------------------------
(* The registry.                                                           *)

\* Where the handler is once CheckSubdomain, and then CheckReserved, let it pass.
PastScope == HandlerPc \ {"accept", "check", "name", "scope", "ended"}
PastReserved == PastScope \ {"reserved"}

\* Where it may hold a name in the registry.
Holding == {"setprot", "evict", "ack", "ackfail", "run", "unregister"}

\* The names of the registry are those of the handlers that hold them, and only a
\* handler whose client went stale can have lost its name to another.
HeldInv ==
  /\ \A c \in Conn : pc[c] \in Holding => sub[c] \in Name
  /\ \A c \in Conn, n \in Name : reg[n] = c => sub[c] = n /\ pc[c] \in Holding
KeepsInv ==
  \A c \in Conn :
    pc[c] \in Holding \ {"unregister"} /\ peer[c] # "stale" => reg[sub[c]] = c
PeerInv ==
  \A c \in Conn : pc[c] \notin {"run", "unregister", "ended"} => peer[c] = "here"

\* A running handler that lost its name has its session closed, or whoever took
\* the name is about to close it.
Evicting(d, c) == pc[d] \in {"setprot", "evict"} /\ evicted[d] = c /\ reg[sub[c]] = d
EvictInv ==
  /\ \A c \in Conn : pc[c] = "evict" => evicted[c] \in Conn
  /\ \A c \in Conn :
       pc[c] = "run" /\ reg[sub[c]] # c =>
         sess[c] = "closed" \/ \E d \in Conn : Evicting(d, c)

RegistryInv == HeldInv /\ KeepsInv /\ PeerInv /\ EvictInv
\* Every step keeps the registry exact.
LEMMA RegistryStep ==
  ASSUME TypeOK, RegistryInv, [Next]_vars
  PROVE  RegistryInv'
<1> USE NoneAssumption, NameAssumption
<1> USE DEF TypeOK, RegistryInv, HeldInv, KeepsInv, PeerInv, EvictInv, Evicting, Holding
<1>quiet. ASSUME UNCHANGED <<pc, sub, evicted, reg, sess, peer>>
          PROVE  RegistryInv'
  BY <1>quiet
\* A handler that holds no name, and goes on to hold none.
<1>early. ASSUME NEW c \in Conn, NEW x \in HandlerPc \ Holding, pc[c] \notin Holding \cup {"ended"},
                 pc' = [pc EXCEPT ![c] = x],
                 \A d \in Conn \ {c} : sub'[d] = sub[d] /\ sess'[d] = sess[d],
                 UNCHANGED <<evicted, reg, peer>>
          PROVE  RegistryInv'
  <2>1. HeldInv' /\ KeepsInv'
    BY <1>early
  <2>2. PeerInv' /\ EvictInv'
    BY <1>early
  <2> QED BY <2>1, <2>2
<1>1. ASSUME NEW c \in Conn,
             ReadHello(c) \/ AuthCheck(c) \/ ScopeCheck(c) \/ ReservedCheck(c) \/ Protect(c) \/ RegisterFails(c)
      PROVE  RegistryInv'
  <2>1. /\ pc[c] \in {"accept", "check", "scope", "reserved", "protect", "register"}
        /\ UNCHANGED <<sub, evicted, reg, sess, peer>>
    BY <1>1
       DEF ReadHello, AuthCheck, ScopeCheck, ReservedCheck, Protect, RegisterFails,
           hsVars, Elsewhere
  <2>2. \E x \in {"check", "name", "reserved", "protect", "session", "ended"} : pc' = [pc EXCEPT ![c] = x]
    BY <1>1
       DEF ReadHello, AuthCheck, ScopeCheck, ReservedCheck, Protect, RegisterFails,
           PassIf, Reject, Goto
  <2> QED BY <2>1, <2>2, <1>early DEF HandlerPc
<1>2. ASSUME NEW c \in Conn, ChooseName(c)
      PROVE  RegistryInv'
  <2>1. /\ pc[c] = "name" /\ pc' = [pc EXCEPT ![c] = "scope"]
        /\ \A d \in Conn \ {c} : sub'[d] = sub[d]
        /\ UNCHANGED <<evicted, reg, sess, peer>>
    BY <1>2 DEF ChooseName, Goto, Elsewhere
  <2> QED BY <2>1, <1>early DEF HandlerPc
<1>3. ASSUME NEW c \in Conn, NewSession(c)
      PROVE  RegistryInv'
  <2>1. /\ pc[c] = "session" /\ pc' = [pc EXCEPT ![c] = "register"]
        /\ \A d \in Conn \ {c} : sess'[d] = sess[d]
        /\ UNCHANGED <<sub, evicted, reg, peer>>
    BY <1>3 DEF NewSession, Goto
  <2> QED BY <2>1, <1>early DEF HandlerPc
<1>4. ASSUME NEW c \in Conn, AckFailedClose(c)
      PROVE  RegistryInv'
  <2>1. /\ pc[c] = "ackclose"
        /\ pc' = [pc EXCEPT ![c] = "ackclose"] \/ pc' = [pc EXCEPT ![c] = "ended"]
        /\ \A d \in Conn \ {c} : sess'[d] = sess[d]
        /\ UNCHANGED <<sub, evicted, reg, peer>>
    BY <1>4 DEF AckFailedClose, Goto, hsVars
  <2>2. PICK x \in {"ackclose", "ended"} : pc' = [pc EXCEPT ![c] = x]
    BY <2>1
  <2>3. x \in HandlerPc \ Holding /\ pc[c] \notin Holding \cup {"ended"}
    BY <2>1 DEF HandlerPc
  <2> QED BY <2>1, <2>2, <2>3, <1>early
<1>5. ASSUME NEW c \in Conn, NEW n \in Name, Register(c, n)
      PROVE  RegistryInv'
  <2>1. /\ pc[c] = "register" /\ ~Taken(c, n)
        /\ reg' = [reg EXCEPT ![n] = c] /\ evicted' = [evicted EXCEPT ![c] = reg[n]]
        /\ sub' = [sub EXCEPT ![c] = n] /\ pc' = [pc EXCEPT ![c] = "setprot"]
        /\ UNCHANGED <<sess, peer>>
    BY <1>5 DEF Register, Goto
  <2>2. reg[n] = None \/ peer[reg[n]] = "stale"
    BY <2>1 DEF Taken
  <2>3. HeldInv' /\ KeepsInv' /\ PeerInv'
    BY <2>1, <2>2
  <2>4. ASSUME NEW e \in Conn, pc'[e] = "run", reg'[sub'[e]] # e
        PROVE  sess'[e] = "closed" \/ \E d \in Conn : Evicting(d, e)'
    <3>1. e # c /\ pc[e] = "run" /\ sub'[e] = sub[e]
      BY <2>1, <2>4
    <3>2. CASE reg[sub[e]] = e
      \* Its name was taken just now: c will close its session.
      <4>1. Evicting(c, e)'
        BY <2>1, <2>4, <3>1, <3>2
      <4> QED BY <4>1
    <3>3. CASE reg[sub[e]] # e
      <4>1. sess[e] = "closed" \/ \E d \in Conn : Evicting(d, e)
        BY <2>4, <3>1, <3>3
      <4>2. ASSUME NEW d \in Conn, Evicting(d, e)
            PROVE  Evicting(d, e)'
        \* d is not stale, so c has not taken the name from it.
        BY <2>1, <2>2, <2>4, <3>1, <4>2, SMTT(30)
      <4> QED BY <2>1, <4>1, <4>2
    <3> QED BY <3>2, <3>3
  <2>5. \A e \in Conn : pc'[e] = "evict" => evicted'[e] \in Conn
    BY <2>1
  <2> HIDE DEF Evicting
  <2>6. EvictInv'
    BY <2>4, <2>5
  <2> QED BY <2>3, <2>6
<1>6. ASSUME NEW c \in Conn, SetProtected(c)
      PROVE  RegistryInv'
  BY <1>6 DEF SetProtected, Goto, hsVars
<1>7. ASSUME NEW c \in Conn, Evict(c)
      PROVE  RegistryInv'
  BY <1>7 DEF Evict, Goto, hsVars
<1>8. ASSUME NEW c \in Conn, WriteAck(c)
      PROVE  RegistryInv'
  <2>1. /\ pc[c] = "ack" /\ UNCHANGED <<sub, evicted, reg, sess, peer>>
        /\ pc' = [pc EXCEPT ![c] = "run"] \/ pc' = [pc EXCEPT ![c] = "ackfail"]
    BY <1>8 DEF WriteAck, Goto, hsVars
  <2>2. sub[c] \in Name /\ reg[sub[c]] = c
    BY <2>1
  <2>3. HeldInv'
    <3>1. /\ \A d \in Conn : pc'[d] \in Holding <=> pc[d] \in Holding
          /\ reg' = reg /\ sub' = sub
      BY <2>1
    <3> QED BY <3>1
  <2>4. PeerInv' /\ KeepsInv'
    BY <2>1, <2>2
  <2>5. ASSUME NEW e \in Conn, e # c, pc'[e] = "run", reg'[sub'[e]] # e
        PROVE  sess'[e] = "closed" \/ \E d \in Conn : Evicting(d, e)'
    <3>1. sess[e] = "closed" \/ \E d \in Conn : Evicting(d, e)
      BY <2>1, <2>5
    <3>2. \A d \in Conn : Evicting(d, e) => Evicting(d, e)'
      BY <2>1
    <3> QED BY <2>1, <3>1, <3>2
  <2>6. \A e \in Conn : pc'[e] = "evict" => evicted'[e] \in Conn
    BY <2>1
  <2> HIDE DEF Evicting
  <2>7. EvictInv'
    BY <2>1, <2>2, <2>5, <2>6
  <2> QED BY <2>3, <2>4, <2>7
<1>9. ASSUME NEW c \in Conn, AckFailed(c)
      PROVE  RegistryInv'
  BY <1>9 DEF AckFailed, Unregister, Goto, hsVars
<1>10. ASSUME NEW c \in Conn, RunReturns(c)
       PROVE  RegistryInv'
  BY <1>10 DEF RunReturns, Goto, hsVars, Elsewhere
<1>11. ASSUME NEW c \in Conn, HandlerEnds(c)
       PROVE  RegistryInv'
  BY <1>11 DEF HandlerEnds, Unregister, Goto, hsVars
<1>12. ASSUME NEW c \in Conn, ClientCloses(c) \/ IdleTimeout(c)
       PROVE  RegistryInv'
  BY <1>12 DEF ClientCloses, IdleTimeout, hsVars
<1>13. ASSUME NEW c \in Conn, ClientVanishes(c) \/ BecomesStale(c)
       PROVE  RegistryInv'
  BY <1>13 DEF ClientVanishes, BecomesStale, hsVars
<1>14. ASSUME \/ \E c \in Conn, n \in Name : RollAgain(c, n)
              \/ \E v \in Viewer : RequestStep(v)
              \/ \E v \in Viewer, n \in ValidName, path \in Path : \E k \in cookies \cup {MadeUp(v)} : Lookup(v, n, path, k)
              \/ \E a \in TokenAsks, id \in EnrollIDs : IssueToken(a, id)
              \/ Tick \/ UNCHANGED vars
       PROVE  UNCHANGED <<pc, sub, evicted, reg, sess, peer>>
  BY <1>14, Zenon
     DEF RollAgain, RequestStep, WaitReady, FAHandle, Admit, Relayed, Lookup, IssueToken,
       Tick, vars, hsVars, Elsewhere, Others
<1> QED
  BY <1>quiet, <1>1, <1>2, <1>3, <1>4, <1>5, <1>6, <1>7, <1>8, <1>9, <1>10, <1>11, <1>12, <1>13,
     <1>14 DEF Next, HandlerStep

\* The registry is empty at first.
LEMMA RegistryInit == Init => RegistryInv
BY NoneAssumption
   DEF Init, RegistryInv, HeldInv, KeepsInv, PeerInv, EvictInv, Evicting, Holding

\* The invariants of the registry hold in every reachable state.
LEMMA RegistryCorrect == Spec => [](TypeOK /\ RegistryInv)
BY TypeInit, TypeStep, RegistryInit, RegistryStep, PTL DEF Spec

\* A tunnel that was acked and whose client is there stays reachable under its name,
\* and a handler that returned holds none, whatever takeovers, failed acks and late
\* calls of Unregister do (Registry.Register, Registry.Unregister).
THEOREM RegistryStaysExact == Spec => []RegistryIsExact
<1>1. TypeOK /\ RegistryInv => RegistryIsExact
  BY DEF RegistryInv, HeldInv, KeepsInv, Holding, RegistryIsExact, TypeOK
<1> QED BY <1>1, RegistryCorrect, PTL

\* A name never has two running tunnels with open sessions: the newcomer closes the
\* session it replaced before it writes its ack.
THEOREM TakeoverClosesTheOld == Spec => []OneOpenSessionPerName
<1>1. ASSUME TypeOK, RegistryInv, NEW c \in Conn, NEW d \in Conn, c # d,
             pc[c] = "run", pc[d] = "run", sub[c] = sub[d]
      PROVE  "closed" \in {sess[c], sess[d]}
  <2>1. CASE reg[sub[c]] = c
    <3>1. ~\E e \in Conn : Evicting(e, d)
      BY <1>1, <2>1 DEF Evicting
    <3> QED BY <1>1, <2>1, <3>1 DEF RegistryInv, EvictInv
  <2>2. CASE reg[sub[c]] = d
    <3>1. ~\E e \in Conn : Evicting(e, c)
      BY <1>1, <2>2 DEF Evicting
    <3> QED BY <1>1, <2>2, <3>1 DEF RegistryInv, EvictInv
  <2>3. CASE reg[sub[c]] \notin {c, d}
    \* Whoever holds the name evicts one of the two at most.
    <3>1. ~\E e, f \in Conn : Evicting(e, c) /\ Evicting(f, d)
      BY <1>1 DEF Evicting
    <3> QED BY <1>1, <2>3, <3>1 DEF RegistryInv, EvictInv
  <2> QED BY <2>1, <2>2, <2>3
<1>2. TypeOK /\ RegistryInv => OneOpenSessionPerName
  BY <1>1 DEF OneOpenSessionPerName
<1> QED BY <1>2, RegistryCorrect, PTL

-----------------------------------------------------------------------------
(* Who may hold a name.                                                    *)

\* What the checks that a handler has passed say about its name.
BoundInv ==
  \A c \in Conn :
    pc[c] \in PastScope \cup {"scope"} /\ ~IsSigned(Cfg, Token(c)) /\ Token(c) \in DOMAIN Cfg.reserved
      => sub[c] = Cfg.reserved[Token(c)]
ScopedInv ==
  \A c \in Conn :
    pc[c] \in PastScope /\ IsSigned(Cfg, Token(c)) /\ Token(c).sub # NoName => sub[c] = Token(c).sub
OwnedInv ==
  \A c \in Conn :
    pc[c] \in PastReserved /\ sub[c] \in DOMAIN Cfg.reservedNames =>
      /\ hello[c].tls
      /\ Token(c).signed /\ Token(c).authentic
      /\ Token(c).id \in Cfg.reservedNames[sub[c]] \ Cfg.revoked

EntitledInv == BoundInv /\ ScopedInv /\ OwnedInv
\* Every step keeps what the checks established, although each of them parses the
\* token anew.
LEMMA EntitledStep ==
  ASSUME TypeOK, EntitledInv, [Next]_vars
  PROVE  EntitledInv'
<1> USE
   DEF TypeOK, EntitledInv, BoundInv, ScopedInv, OwnedInv, PastScope, PastReserved, HandlerPc, Token
<1>pc. pc \in [Conn -> HandlerPc] /\ sub \in [Conn -> Name \cup {NoName}]
  OBVIOUS
\* A handler goes on where the same checks are behind it, or ends.
<1>on. ASSUME NEW c \in Conn, NEW x, pc' = [pc EXCEPT ![c] = x],
              \/ x \in {"check", "name", "ended"}
              \/ pc[c] \in PastReserved,
              UNCHANGED <<sub, hello>>
       PROVE  EntitledInv'
  <2>1. \A d \in Conn : /\ pc'[d] \in PastScope \cup {"scope"} => pc[d] \in PastScope \cup {"scope"}
                        /\ pc'[d] \in PastScope => pc[d] \in PastScope
                        /\ pc'[d] \in PastReserved => pc[d] \in PastReserved
    BY <1>on
  <2> HIDE DEF PastScope, PastReserved
  <2> QED BY <1>on, <2>1
<1>1. ASSUME NEW c \in Conn, ReadHello(c)
      PROVE  EntitledInv'
  <2>1. PICK x \in {"check", "ended"} : pc' = [pc EXCEPT ![c] = x]
    BY <1>1 DEF ReadHello, PassIf, Reject, Goto
  <2>2. sub' = sub /\ \A d \in Conn \ {c} : hello'[d] = hello[d]
    BY <1>1 DEF ReadHello
  <2> QED BY <2>1, <2>2
<1>2. ASSUME NEW c \in Conn, AuthCheck(c)
      PROVE  EntitledInv'
  <2>1. PICK x \in {"name", "ended"} : pc' = [pc EXCEPT ![c] = x]
    BY <1>2 DEF AuthCheck, PassIf, Reject, Goto
  <2> QED BY <1>2, <2>1, <1>on DEF AuthCheck, hsVars
<1>3. ASSUME NEW c \in Conn, ChooseName(c)
      PROVE  EntitledInv'
  <2> DEFINE r == ReservedSubdomain(Cfg, hello[c].token, now)
  <2>1. /\ pc' = [pc EXCEPT ![c] = "scope"] /\ hello' = hello
        /\ sub' = [sub EXCEPT ![c] = IF r # NoName THEN r ELSE hello[c].subdomain]
    BY <1>3 DEF ChooseName, Goto
  <2>2. ASSUME ~IsSigned(Cfg, Token(c)), Token(c) \in DOMAIN Cfg.reserved
        PROVE  sub'[c] = Cfg.reserved[Token(c)]
    BY <2>1, <2>2, ConfigAssumption, NameAssumption DEF ReservedSubdomain, ConfigOK
  <2> QED BY <2>1, <2>2
<1>4. ASSUME NEW c \in Conn, ScopeCheck(c)
      PROVE  EntitledInv'
  <2>1. pc[c] = "scope" /\ UNCHANGED <<sub, hello>>
    BY <1>4 DEF ScopeCheck, hsVars
  <2>2. CASE pc' = [pc EXCEPT ![c] = "ended"]
    BY <2>1, <2>2, <1>on
  <2>3. CASE pc' = [pc EXCEPT ![c] = "reserved"] /\ CheckSubdomain(Cfg, Token(c), sub[c], sub[c] \in ValidName, now)
    <3>1. IsSigned(Cfg, Token(c)) /\ Token(c).sub # NoName => sub[c] = Token(c).sub
      BY <2>3 DEF CheckSubdomain
    <3> QED BY <2>1, <2>3, <3>1
  <2> QED BY <1>4, <2>2, <2>3 DEF ScopeCheck, PassIf, Reject, Goto
<1>5. ASSUME NEW c \in Conn, ReservedCheck(c)
      PROVE  EntitledInv'
  <2>1. pc[c] = "reserved" /\ UNCHANGED <<sub, hello>>
    BY <1>5 DEF ReservedCheck, hsVars
  <2>2. CASE pc' = [pc EXCEPT ![c] = "ended"]
    BY <2>1, <2>2, <1>on
  <2>3. CASE /\ pc' = [pc EXCEPT ![c] = "protect"]
             /\ CheckReserved(Cfg, Token(c), sub[c], hello[c].tls, now) = "ok"
    <3>1. ASSUME sub[c] \in DOMAIN Cfg.reservedNames
          PROVE  /\ hello[c].tls /\ Token(c).signed /\ Token(c).authentic
                 /\ Token(c).id \in Cfg.reservedNames[sub[c]] \ Cfg.revoked
      <4>1. TokenID(Cfg, Token(c), now) \in Cfg.reservedNames[sub[c]] /\ hello[c].tls
        BY <2>3, <3>1 DEF CheckReserved, IsReserved
      <4>2. TokenID(Cfg, Token(c), now) # NoID
        BY <3>1, <4>1, ConfigAssumption DEF ConfigOK
      <4> QED BY <4>1, <4>2 DEF TokenID, IsSigned, Parses
    <3> QED BY <2>1, <2>3, <3>1
  <2> QED BY <1>5, <2>2, <2>3 DEF ReservedCheck, PassIf, Reject, Goto
<1>6. ASSUME NEW c \in Conn, NEW n \in Name, Register(c, n)
      PROVE  EntitledInv'
  <2>1. /\ pc[c] = "register" /\ pc' = [pc EXCEPT ![c] = "setprot"] /\ hello' = hello
        /\ sub' = [sub EXCEPT ![c] = n]
    BY <1>6 DEF Register, Goto
  <2>2. CASE sub[c] # NoName
    <3>1. sub' = sub
      BY <1>6, <2>1, <2>2 DEF Register, Candidate
    <3> QED BY <2>1, <3>1, <1>on
  <2>3. CASE sub[c] = NoName
    \* A drawn name: the token is bound to none, and the name is not reserved.
    <3>1. n \notin DOMAIN Cfg.reservedNames
      BY <1>6, <2>3 DEF Register, IsReserved
    <3>2. ~(~IsSigned(Cfg, Token(c)) /\ Token(c) \in DOMAIN Cfg.reserved)
      BY <2>1, <2>3, ConfigAssumption, NameAssumption DEF ConfigOK
    <3>3. ~(IsSigned(Cfg, Token(c)) /\ Token(c).sub # NoName)
      BY <2>1, <2>3
    <3> QED BY <2>1, <3>1, <3>2, <3>3
  <2> QED BY <2>2, <2>3
<1>7. ASSUME NEW c \in Conn,
             \/ Protect(c) \/ NewSession(c) \/ RegisterFails(c) \/ SetProtected(c) \/ Evict(c)
             \/ WriteAck(c) \/ AckFailed(c) \/ AckFailedClose(c) \/ RunReturns(c) \/ HandlerEnds(c)
      PROVE  EntitledInv'
  <2>1. pc[c] \in PastReserved /\ UNCHANGED <<sub, hello>>
    BY <1>7
       DEF Protect, NewSession, RegisterFails, SetProtected, Evict, WriteAck, AckFailed,
                AckFailedClose, RunReturns, HandlerEnds, hsVars
  <2>2. \E x \in HandlerPc : pc' = [pc EXCEPT ![c] = x]
    BY <1>7
       DEF Protect, NewSession, RegisterFails, SetProtected, Evict, WriteAck, AckFailed,
                AckFailedClose, RunReturns, HandlerEnds, PassIf, Reject, Goto
  <2> QED BY <2>1, <2>2, <1>on
<1>8. ASSUME \/ \E c \in Conn : ClientCloses(c) \/ ClientVanishes(c) \/ BecomesStale(c) \/ IdleTimeout(c)
             \/ \E c \in Conn, n \in Name : RollAgain(c, n)
             \/ \E v \in Viewer : RequestStep(v)
             \/ \E v \in Viewer, n \in ValidName, path \in Path : \E k \in cookies \cup {MadeUp(v)} : Lookup(v, n, path, k)
             \/ \E a \in TokenAsks, id \in EnrollIDs : IssueToken(a, id)
             \/ Tick \/ UNCHANGED vars
      PROVE  EntitledInv'
  <2>1. UNCHANGED <<pc, sub, hello>>
    BY <1>8, Zenon
       DEF ClientCloses, ClientVanishes, BecomesStale, IdleTimeout, RollAgain, RequestStep,
         WaitReady, FAHandle, Admit, Relayed, Lookup, IssueToken, Tick, vars, hsVars, Elsewhere, Others
  <2> QED BY <2>1
<1> QED BY <1>1, <1>2, <1>3, <1>4, <1>5, <1>6, <1>7, <1>8 DEF Next, HandlerStep

\* Whoever holds a name is entitled to it, for every configuration NewAuthenticatorWith
\* accepts and every token: the operator's, self-issued, expired in the handshake.
THEOREM HoldersAreEntitled == Spec => []HolderIsEntitled
<1>1. Init => EntitledInv
  BY DEF Init, EntitledInv, BoundInv, ScopedInv, OwnedInv, PastScope, PastReserved
<1>2. ASSUME TypeOK, RegistryInv, EntitledInv
      PROVE  HolderIsEntitled
  <2>1. ASSUME NEW n \in Name, reg[n] # None
        PROVE  reg[n] \in Conn /\ sub[reg[n]] = n /\ pc[reg[n]] \in PastReserved /\ pc[reg[n]] \in PastScope
    BY <1>2, <2>1, NoneAssumption
       DEF TypeOK, RegistryInv, HeldInv, Holding, PastReserved, PastScope, HandlerPc
  <2>2. ReservedNameIsOwned
    BY <1>2, <2>1 DEF EntitledInv, OwnedInv, ReservedNameIsOwned
  <2>3. ScopedTokenHoldsItsName
    BY <1>2, <2>1 DEF EntitledInv, BoundInv, ScopedInv, ScopedTokenHoldsItsName, IsSigned
  <2> QED BY <2>2, <2>3 DEF HolderIsEntitled
<1> QED BY <1>1, <1>2, EntitledStep, RegistryCorrect, PTL DEF Spec

-----------------------------------------------------------------------------
(* The admission of requests.                                              *)

\* Client.Protected says what the hello asked for from SetProtected on.
ProtectedInv ==
  \A c \in Conn :
    /\ pc[c] \in PastReserved \ {"protect"} =>
         (hello[c].protected => protected[c]) /\ (protected[c] => FAEnabled)
    /\ pc[c] \in PastReserved \ {"protect", "session", "register", "setprot"} =>
         cprot[c] = protected[c]

\* A Client that is ready was acked, or its session is closed for good.
ReadyInv ==
  \A c \in Conn :
    ready[c] =>
      /\ pc[c] \in {"run", "unregister", "ended"}
      /\ first[c] # "nothing" \/ sess[c] = "closed"
      /\ hello[c].protected => cprot[c]
      /\ cprot[c] => FAEnabled

\* A request goes on only to a Client that was ready.
RequestInv ==
  \A v \in Viewer :
    /\ req[v].pc # "new" => req[v].name \in Name /\ req[v].conn \in Conn
    /\ req[v].pc \in {"admit", "proxied"} => ready[req[v].conn]

AdmissionInv == ProtectedInv /\ ReadyInv /\ RequestInv /\ NoFrameBeforeAck

\* Every step of a handler or a request keeps a Client unready until it was acked.
LEMMA AdmissionStep ==
  ASSUME TypeOK, AdmissionInv, [Next]_vars
  PROVE  AdmissionInv'
<1> USE NoneAssumption, NameAssumption, BoundAssumption
<1> USE
   DEF TypeOK, AdmissionInv, ProtectedInv, ReadyInv, RequestInv, NoFrameBeforeAck,
            PastScope, PastReserved, HandlerPc, hsVars, webVars
\* A handler that goes on to its next check, or rejects its client.
<1>check. ASSUME NEW c \in Conn, NEW x \in {"check", "name", "scope", "reserved", "protect", "ended"},
                 pc[c] \in {"accept", "check", "name", "scope", "reserved", "register"},
                 pc' = [pc EXCEPT ![c] = x],
                 \A d \in Conn : first'[d] = first[d] \/ first'[d] = "nack",
                 \A d \in Conn \ {c} : hello'[d] = hello[d],
                 UNCHANGED <<protected, cprot, ready, sess, req>>
          PROVE  AdmissionInv'
  <2>1. ProtectedInv'
    BY <1>check
  <2>2. ReadyInv'
    BY <1>check
  <2>3. RequestInv' /\ NoFrameBeforeAck'
    BY <1>check
  <2> QED BY <2>1, <2>2, <2>3
<1>1. ASSUME NEW c \in Conn,
             \/ ReadHello(c) \/ AuthCheck(c) \/ ChooseName(c) \/ ScopeCheck(c) \/ ReservedCheck(c)
             \/ RegisterFails(c)
      PROVE  AdmissionInv'
  <2>1. /\ pc[c] \in {"accept", "check", "name", "scope", "reserved", "register"}
        /\ \A d \in Conn \ {c} : hello'[d] = hello[d]
        /\ UNCHANGED <<protected, cprot, ready, sess, req>>
    BY <1>1
       DEF ReadHello, AuthCheck, ChooseName, ScopeCheck, ReservedCheck, RegisterFails, Elsewhere
  <2>2. PICK x \in {"check", "name", "scope", "reserved", "protect", "ended"} : pc' = [pc EXCEPT ![c] = x]
    BY <1>1
       DEF ReadHello, AuthCheck, ChooseName, ScopeCheck, ReservedCheck, RegisterFails, PassIf,
                Reject, Goto
  <2>3. \A d \in Conn : first'[d] = first[d] \/ first'[d] = "nack"
    BY <1>1
       DEF ReadHello, AuthCheck, ChooseName, ScopeCheck, ReservedCheck, RegisterFails, PassIf,
                Reject, Wrote
  <2> QED BY <2>1, <2>2, <2>3, <1>check
<1>2. ASSUME NEW c \in Conn, Protect(c)
      PROVE  AdmissionInv'
  BY <1>2 DEF Protect, PassIf, Reject, Wrote, Goto, Elsewhere
<1>3. ASSUME NEW c \in Conn, NewSession(c)
      PROVE  AdmissionInv'
  BY <1>3 DEF NewSession, Goto
<1>4. ASSUME NEW c \in Conn, NEW n \in Name, Register(c, n)
      PROVE  AdmissionInv'
  BY <1>4 DEF Register, Goto
<1>5. ASSUME NEW c \in Conn, SetProtected(c)
      PROVE  AdmissionInv'
  <2>1. /\ pc[c] = "setprot" /\ cprot' = [cprot EXCEPT ![c] = protected[c]]
        /\ pc' = [pc EXCEPT ![c] = "evict"] \/ pc' = [pc EXCEPT ![c] = "ack"]
        /\ UNCHANGED <<protected, hello, first, ready, sess, req>>
    BY <1>5 DEF SetProtected, Goto
  <2>2. ProtectedInv'
    BY <2>1
  <2>3. ~ready[c]
    BY <2>1
  <2>4. \A d \in Conn : ready'[d] => d # c /\ cprot'[d] = cprot[d] /\ pc'[d] = pc[d]
    BY <2>1, <2>3
  <2>5. ReadyInv'
    BY <2>1, <2>4
  <2> QED BY <2>1, <2>2, <2>5
<1>6. ASSUME NEW c \in Conn, Evict(c)
      PROVE  AdmissionInv'
  BY <1>6 DEF Evict, Goto
<1>7. ASSUME NEW c \in Conn, WriteAck(c)
      PROVE  AdmissionInv'
  <2>1. pc[c] = "ack" /\ UNCHANGED <<hello, protected, cprot, sess, req>>
    BY <1>7 DEF WriteAck
  <2>2. CASE /\ first' = [first EXCEPT ![c] = IF @ = "nothing" THEN "ack" ELSE @]
             /\ pc' = [pc EXCEPT ![c] = "run"] /\ ready' = [ready EXCEPT ![c] = TRUE]
    <3>1. ProtectedInv'
      BY <2>1, <2>2
    <3>2. \A d \in Conn : first'[d] # "frame" /\ (first[d] # "nothing" => first'[d] # "nothing")
      BY <2>2
    <3>3. ASSUME NEW d \in Conn, ready'[d]
          PROVE  /\ pc'[d] \in {"run", "unregister", "ended"}
                 /\ first'[d] # "nothing" \/ sess'[d] = "closed"
                 /\ hello'[d].protected => cprot'[d]
                 /\ cprot'[d] => FAEnabled
      <4>1. CASE d = c
        <5>1. cprot[c] = protected[c]
          BY <2>1
        <5>2. (hello[c].protected => protected[c]) /\ (protected[c] => FAEnabled)
          BY <2>1
        <5> QED BY <2>1, <2>2, <4>1, <5>1, <5>2
      <4>2. CASE d # c
        BY <2>1, <2>2, <3>3, <4>2
      <4> QED BY <4>1, <4>2
    <3>4. RequestInv'
      BY <2>1, <2>2
    <3> QED BY <3>1, <3>2, <3>3, <3>4
  <2>3. CASE pc' = [pc EXCEPT ![c] = "ackfail"] /\ UNCHANGED <<first, ready>>
    <3>1. ProtectedInv'
      BY <2>1, <2>3
    <3> QED BY <2>1, <2>3, <3>1
  <2> QED BY <1>7, <2>2, <2>3 DEF WriteAck, Wrote, Goto
<1>8. ASSUME NEW c \in Conn, AckFailedClose(c)
      PROVE  AdmissionInv'
  <2>1. pc[c] = "ackclose" /\ UNCHANGED <<hello, protected, cprot, first, req>>
    BY <1>8 DEF AckFailedClose
  <2>2. CASE sess' = [sess EXCEPT ![c] = "closed"] /\ UNCHANGED <<ready, pc>>
    BY <2>1, <2>2
  <2>3. CASE /\ sess[c] = "closed" /\ ready' = [ready EXCEPT ![c] = TRUE]
             /\ pc' = [pc EXCEPT ![c] = "ended"] /\ UNCHANGED sess
    <3>1. cprot[c] = protected[c] /\ (hello[c].protected => protected[c]) /\ (protected[c] => FAEnabled)
      BY <2>1
    <3>2. ProtectedInv' /\ RequestInv'
      BY <2>1, <2>3
    <3>3. ReadyInv'
      BY <2>1, <2>3, <3>1
    <3> QED BY <2>1, <3>2, <3>3
  <2> QED BY <1>8, <2>2, <2>3 DEF AckFailedClose, Goto
<1>9. ASSUME NEW c \in Conn, AckFailed(c) \/ RunReturns(c) \/ HandlerEnds(c)
      PROVE  AdmissionInv'
  <2>1. CASE AckFailed(c)
    BY <2>1 DEF AckFailed, Goto
  <2>2. CASE RunReturns(c)
    BY <2>2 DEF RunReturns, Goto, Elsewhere
  <2>3. CASE HandlerEnds(c)
    BY <2>3 DEF HandlerEnds, Goto
  <2> QED BY <1>9, <2>1, <2>2, <2>3
<1>10. ASSUME NEW c \in Conn, ClientCloses(c) \/ IdleTimeout(c)
       PROVE  AdmissionInv'
  BY <1>10 DEF ClientCloses, IdleTimeout
<1>11. ASSUME NEW v \in Viewer, WaitReady(v)
       PROVE  AdmissionInv'
  <2>1. UNCHANGED <<pc, hello, protected, cprot, ready, sess, first>>
    BY <1>11 DEF WaitReady, Others
  <2>2. req[v].pc = "wait" /\ req[v].name \in Name /\ req[v].conn \in Conn
    BY <1>11 DEF WaitReady
  <2>3. RequestInv'
    <3>1. CASE ready[req[v].conn] /\ req' = [req EXCEPT ![v].pc = "admit"]
      BY <2>1, <2>2, <3>1 DEF Request
    <3>2. CASE req' = [req EXCEPT ![v] = NoRequest(v)]
      BY <2>1, <3>2 DEF NoRequest
    <3> QED BY <1>11, <3>1, <3>2 DEF WaitReady, Answered
  <2> QED BY <2>1, <2>3
<1>12. ASSUME NEW v \in Viewer, FAHandle(v)
       PROVE  AdmissionInv'
  <2>1. UNCHANGED <<pc, hello, protected, cprot, ready, sess, first>>
    BY <1>12 DEF FAHandle, Others
  <2>2. req' = [req EXCEPT ![v] = NoRequest(v)]
    BY <1>12 DEF FAHandle, Answered
  <2>3. RequestInv'
    BY <2>1, <2>2 DEF NoRequest
  <2> QED BY <2>1, <2>3
<1>13. ASSUME NEW v \in Viewer, Admit(v)
       PROVE  AdmissionInv'
  <2>1. UNCHANGED <<pc, hello, protected, cprot, ready, sess>>
    BY <1>13 DEF Admit, Others
  <2>2. CASE /\ sess[req[v].conn] = "open"
             /\ first' = [first EXCEPT ![req[v].conn] = IF @ = "nothing" THEN "frame" ELSE @]
             /\ req' = [req EXCEPT ![v].pc = "proxied", ![v].user = Identity(req[v])]
    <3>1. req[v].pc = "admit" /\ req[v].conn \in Conn /\ ready[req[v].conn] /\ req[v].name \in Name
      BY <1>13 DEF Admit
    \* The Client is ready and its session open, so the ack was written before.
    <3>2. first[req[v].conn] # "nothing"
      BY <2>2, <3>1
    <3>3. first' = first
      BY <2>2, <3>1, <3>2
    <3>4. RequestInv'
      BY <2>1, <2>2, <3>1 DEF Request
    <3> QED BY <2>1, <3>3, <3>4
  <2>3. CASE req' = [req EXCEPT ![v] = NoRequest(v)] /\ UNCHANGED first
    BY <2>1, <2>3 DEF NoRequest
  <2> QED BY <1>13, <2>2, <2>3 DEF Admit, Wrote, Answered
<1>14. ASSUME NEW v \in Viewer, Relayed(v)
       PROVE  AdmissionInv'
  BY <1>14 DEF Relayed, Others, Answered, NoRequest
<1>15. ASSUME NEW v \in Viewer, NEW n \in ValidName, NEW path \in Path,
              NEW k \in cookies \cup {MadeUp(v)}, Lookup(v, n, path, k)
       PROVE  AdmissionInv'
  BY <1>15 DEF Lookup, Others
<1>16. ASSUME Tick
       PROVE  AdmissionInv'
  BY <1>16 DEF Tick
<1>17. ASSUME \/ \E c \in Conn : ClientVanishes(c) \/ BecomesStale(c)
              \/ \E c \in Conn, n \in Name : RollAgain(c, n)
              \/ \E a \in TokenAsks, id \in EnrollIDs : IssueToken(a, id)
              \/ UNCHANGED vars
       PROVE  AdmissionInv'
  <2>1. UNCHANGED <<pc, hello, protected, cprot, ready, sess, first, req>>
    BY <1>17, Zenon DEF ClientVanishes, BecomesStale, RollAgain, IssueToken, vars, Elsewhere
  <2> QED BY <2>1
<1> QED
  BY <1>1, <1>2, <1>3, <1>4, <1>5, <1>6, <1>7, <1>8, <1>9, <1>10, <1>11, <1>12, <1>13, <1>14, <1>15,
     <1>16, <1>17 DEF Next, HandlerStep, RequestStep

\* The invariants of the admission hold in every reachable state.
LEMMA AdmissionCorrect == Spec => [](TypeOK /\ AdmissionInv)
<1>1. Init => AdmissionInv
  BY NoneAssumption DEF Init, AdmissionInv, ProtectedInv, ReadyInv, RequestInv,
     NoFrameBeforeAck, PastScope, PastReserved, NoRequest
<1> QED BY <1>1, TypeInit, TypeStep, AdmissionStep, PTL DEF Spec

\* No mux frame gets ahead of the ack, for any number of requests that found the
\* Client while its handshake was under way (waitReady, markReady).
THEOREM AckComesFirst == Spec => []NoFrameBeforeAck
<1>1. AdmissionInv => NoFrameBeforeAck
  BY DEF AdmissionInv
<1> QED BY <1>1, AdmissionCorrect, PTL

\* Every session value was signed at most SessionTTL before it ends, and a request
\* that carries the server's signature carries a value it signed.
CookieInv ==
  /\ \A k \in cookies : k.genuine /\ k.exp <= now + SessionTTL
  /\ \A v \in Viewer : req[v].cookie.genuine => req[v].cookie \in cookies

\* A step that changes a request, or signs, or lets the clock go on.
LEMMA RequestChanges ==
  ASSUME [Next]_vars
  PROVE  \/ UNCHANGED <<req, cookies, now>>
         \/ Tick
         \/ \E v \in Viewer :
              \/ WaitReady(v) \/ FAHandle(v) \/ Relayed(v) \/ Admit(v)
              \/ \E n \in ValidName, path \in Path : \E k \in cookies \cup {MadeUp(v)} : Lookup(v, n, path, k)
<1>1. ASSUME NEW c \in Conn,
             \/ HandlerStep(c) \/ ClientCloses(c) \/ ClientVanishes(c) \/ BecomesStale(c)
             \/ IdleTimeout(c)
      PROVE  UNCHANGED <<req, cookies, now>>
  BY <1>1, Zenon
     DEF HandlerStep, ReadHello, AuthCheck, ChooseName, ScopeCheck, ReservedCheck, Protect,
       NewSession, Register, RollAgain, RegisterFails, SetProtected, Evict, WriteAck, AckFailed,
       AckFailedClose, RunReturns, HandlerEnds, ClientCloses, ClientVanishes, BecomesStale, IdleTimeout,
       Elsewhere, webVars
<1>2. ASSUME NEW a \in TokenAsks, NEW id \in EnrollIDs, IssueToken(a, id)
      PROVE  UNCHANGED <<req, cookies, now>>
  BY <1>2 DEF IssueToken
<1>3. ASSUME UNCHANGED vars
      PROVE  UNCHANGED <<req, cookies, now>>
  BY <1>3 DEF vars, webVars
<1> QED BY <1>1, <1>2, <1>3 DEF Next, RequestStep

\* Every step keeps them: only a login signs, and nothing takes a value back.
LEMMA CookieStep ==
  ASSUME TypeOK, CookieInv, [Next]_vars
  PROVE  CookieInv'
<1>1. req \in [Viewer -> Request] /\ cookies \subseteq Cookie /\ now \in Int /\ SessionTTL \in Int
  BY BoundAssumption, TTLAssumption DEF TypeOK
<1>2. CASE UNCHANGED <<req, cookies, now>>
  BY <1>2 DEF CookieInv
<1>3. CASE Tick
  <2>1. req' = req /\ cookies' = cookies /\ now' = now + 1
    BY <1>3 DEF Tick, webVars
  <2>2. \A k \in cookies : k.exp \in Int
    BY <1>1 DEF Cookie
  <2> QED BY <1>1, <2>1, <2>2 DEF CookieInv
<1>4. ASSUME NEW v \in Viewer, WaitReady(v) \/ Relayed(v) \/ Admit(v)
      PROVE  CookieInv'
  <2>1. cookies' = cookies /\ now' = now
    BY <1>4 DEF WaitReady, Relayed, Admit, Others
  <2>2. \A w \in Viewer : req'[w].cookie = req[w].cookie \/ req'[w].cookie = MadeUp(v)
    BY <1>1, <1>4 DEF WaitReady, Relayed, Admit, Answered, NoRequest, Request
  <2> QED BY <2>1, <2>2 DEF CookieInv, MadeUp
<1>5. ASSUME NEW v \in Viewer, FAHandle(v)
      PROVE  CookieInv'
  <2> DEFINE signed == [user |-> v, exp |-> now + SessionTTL, genuine |-> TRUE]
  <2>1. now' = now /\ (cookies' = cookies \/ cookies' = cookies \cup {signed})
    BY <1>5 DEF FAHandle, Others
  <2>2. \A w \in Viewer : req'[w].cookie = req[w].cookie \/ req'[w].cookie = MadeUp(v)
    BY <1>1, <1>5 DEF FAHandle, Answered, NoRequest
  <2>3. signed.genuine /\ signed.exp <= now + SessionTTL
    BY <1>1
  <2>4. \A k \in cookies' : k.genuine /\ k.exp <= now' + SessionTTL
    BY <2>1, <2>3 DEF CookieInv
  <2> QED BY <2>1, <2>2, <2>4 DEF CookieInv, MadeUp
<1>6. ASSUME NEW v \in Viewer, NEW n \in ValidName, NEW path \in Path,
             NEW k \in cookies \cup {MadeUp(v)}, Lookup(v, n, path, k)
      PROVE  CookieInv'
  <2>1. cookies' = cookies /\ now' = now
    BY <1>6 DEF Lookup, Others
  <2>2. \A w \in Viewer : req'[w].cookie = req[w].cookie \/ req'[w].cookie = k
    BY <1>1, <1>6 DEF Lookup
  <2>3. k.genuine => k \in cookies
    BY DEF MadeUp
  <2> QED BY <2>1, <2>2, <2>3 DEF CookieInv
<1> QED BY <1>2, <1>3, <1>4, <1>5, <1>6, RequestChanges

\* The sessions a request may come with, in every reachable state.
LEMMA CookieCorrect == Spec => [](TypeOK /\ CookieInv)
<1>1. Init => CookieInv
  BY DEF Init, CookieInv, NoRequest, MadeUp
<1> QED BY <1>1, TypeInit, TypeStep, CookieStep, PTL DEF Spec

\* A tunnel whose client asked for protection is reached only with the identity of a
\* session the server has signed at most SessionTTL ago, on whatever host and logged
\* out since or not (verifySession), although Client.Protected is set after the
\* Client is published and the session may expire while the request waits.
THEOREM ProtectionHolds == Spec => OptInIsEnforced
<1> DEFINE Reaches(v) == req[v].pc # "proxied" /\ req'[v].pc = "proxied"
\* Only proxyTo lets a request through.
<1>1. ASSUME TypeOK, [Next]_vars, NEW v \in Viewer, Reaches(v)
      PROVE  Admit(v)
  <2>1. req \in [Viewer -> Request] /\ \A w \in Viewer : NoRequest(w).pc = "new"
    BY <1>1 DEF TypeOK, NoRequest
  <2>2. PICK w \in Viewer :
           \/ WaitReady(w) \/ FAHandle(w) \/ Relayed(w) \/ Admit(w)
           \/ \E n \in ValidName, path \in Path : \E k \in cookies \cup {MadeUp(w)} : Lookup(w, n, path, k)
    <3>1. req' # req
      BY <1>1
    <3>2. Tick => req' = req
      BY DEF Tick, webVars
    <3> QED BY <1>1, <3>1, <3>2, RequestChanges
  <2>3. w = v
    BY <1>1, <2>1, <2>2 DEF WaitReady, FAHandle, Relayed, Admit, Lookup, Answered
  <2>4. ~WaitReady(v)
    BY <1>1, <2>1 DEF WaitReady, Answered, Request
  <2>5. ~FAHandle(v) /\ ~Relayed(v)
    BY <1>1, <2>1 DEF FAHandle, Relayed, Answered
  <2>6. ~\E n \in ValidName, path \in Path : \E k \in cookies \cup {MadeUp(v)} : Lookup(v, n, path, k)
    BY <1>1, <2>1 DEF Lookup
  <2> QED BY <2>2, <2>3, <2>4, <2>5, <2>6
<1>2. ASSUME TypeOK, AdmissionInv, CookieInv, NEW v \in Viewer, Admit(v), Reaches(v)
      PROVE  /\ req'[v].user # "viewer"
             /\ hello[req[v].conn].protected =>
                  /\ req'[v].user = "session"
                  /\ req[v].cookie \in cookies
                  /\ req[v].cookie.exp \in now .. now + SessionTTL
  <2>1. /\ req[v].pc = "admit" /\ req[v].conn \in Conn /\ req[v].name \in Name
        /\ ready[req[v].conn]
    BY <1>2 DEF Admit, AdmissionInv, RequestInv
  <2>2. Authorized(v) /\ req'[v].user = Identity(req[v])
    BY <1>2, <2>1 DEF Admit, Answered, NoRequest, TypeOK, Request
  <2>3. hello[req[v].conn].protected => Identity(req[v]) = "session"
    BY <1>2, <2>1 DEF Identity, AdmissionInv, ReadyInv
  <2>4. ASSUME Identity(req[v]) = "session"
        PROVE  /\ req[v].cookie \in cookies
               /\ req[v].cookie.exp \in now .. now + SessionTTL
    <3>1. req[v].cookie.genuine /\ now <= req[v].cookie.exp
      BY <2>2, <2>4 DEF Authorized, ValidSession
    <3>2. req[v].cookie \in cookies /\ req[v].cookie.exp <= now + SessionTTL
      BY <1>2, <3>1 DEF CookieInv
    <3>3. req[v].cookie.exp \in Int /\ now \in Int /\ SessionTTL \in Int
      BY <1>2, TTLAssumption, BoundAssumption DEF TypeOK, Request, Cookie
    <3> QED BY <3>1, <3>2, <3>3
  <2>5. Identity(req[v]) # "viewer"
    BY DEF Identity
  <2> QED BY <2>2, <2>3, <2>4, <2>5
<1>3. TypeOK /\ AdmissionInv /\ CookieInv /\ [Next]_vars =>
        [\A v \in Viewer :
           req[v].pc # "proxied" /\ req'[v].pc = "proxied" =>
             /\ req'[v].user # "viewer"
             /\ hello[req[v].conn].protected =>
                  /\ req'[v].user = "session"
                  /\ req[v].cookie \in cookies
                  /\ req[v].cookie.exp \in now .. now + SessionTTL]_vars
  BY <1>1, <1>2
<1> QED BY <1>3, AdmissionCorrect, CookieCorrect, PTL DEF Spec, OptInIsEnforced

=============================================================================
