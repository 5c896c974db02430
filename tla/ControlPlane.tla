----------------------------- MODULE ControlPlane -----------------------------
(***************************************************************************)
(* The server's control plane: the handler of each control connection      *)
(* (handleControlConn) from the hello to the end of the session, the       *)
(* subdomain registry it shares with the other handlers, the admission of  *)
(* public requests (ServeHTTP up to OpenStream) that read the registry     *)
(* meanwhile, with the sessions of forward-auth, and self-service token    *)
(* issuance.                                                               *)
(*                                                                         *)
(* A handler parses the token again at each check, so the clock may pass   *)
(* the token's expiry between any two of them.  The mux session below is   *)
(* reduced to open or closed; that Stale holds only of a session whose     *)
(* client is gone is what module Heartbeat checks.  Requests for the apex, *)
(* for a host that is no subdomain or for the health check are answered    *)
(* without a look at any of this, and left out.                            *)
(***************************************************************************)
EXTENDS Auth

CONSTANTS Conn,       \* control connections
          Viewer,     \* public requests
          Hellos,     \* the hellos a connection may send
          Name,       \* the subdomains that hellos and tokens mention
          ValidName,  \* those ValidSubdomain accepts
          Generated,  \* the names randomSubdomain may return
          Cfg,        \* the authenticator's configuration
          FAEnabled,  \* a forward-auth provider is configured
          SessionTTL, \* how long a signed session is good for
          TokenAsks,  \* what may be asked of the token endpoint
          EnrollIDs,  \* the identifiers Mint may draw (a bound on their number)
          DefaultTTL, \* defaultEnrollTTL
          MaxTTL,     \* maxEnrollTTL
          MaxRolls,   \* attempts to register: 100 in the code (a bound)
          MaxTime     \* the clock stops here (a bound)

ASSUME ConfigAssumption == ConfigOK(Cfg, ValidName)
ASSUME NameAssumption == Generated \subseteq ValidName /\ ValidName \subseteq Name /\ NoName \notin Name
\* The operator's mint command takes any name, so a token may be bound to an invalid one.
ASSUME HelloAssumption ==
  \A h \in Hellos : /\ h.subdomain \in Name \cup {NoName}
                    /\ h.token.signed => h.token.sub \in Name \cup {NoName}
ASSUME BoundAssumption == MaxRolls \in Nat \ {0} /\ MaxTime \in Nat \ {0} /\ FAEnabled \in BOOLEAN
ASSUME TTLAssumption == {SessionTTL, DefaultTTL, MaxTTL} \subseteq Nat
ASSUME AskAssumption == \A a \in TokenAsks : a.ttl \in Int
\* randomID never draws an identifier that the operator has listed.
ASSUME EnrollAssumption ==
  EnrollIDs \cap UNION {Cfg.reservedNames[n] : n \in DOMAIN Cfg.reservedNames} = {}

None == "none"
ASSUME NoneAssumption == None \notin Conn

VARIABLES
  now,        \* the wall clock
  pc,         \* where the handler of a connection is
  hello,      \* the hello it read
  sub,        \* its local variable sub
  protected,  \* its local variable protected
  tokenID,    \* its local variable tokenID, the Client's TokenID
  rolls,      \* iterations of the register loop so far
  evicted,    \* the connection whose Client it replaced
  reg,        \* Registry.clients: name -> the connection that holds it
  cprot,      \* Client.Protected
  ready,      \* Client.ready is closed
  sess,       \* the mux session: none, open, closed
  peer,       \* the tunnel client: here, gone (silently), stale (as seen by
              \* Session.Stale)
  first,      \* what the server wrote first on the connection
  req,        \* per viewer, its request: the step, the name, the Client, the path,
              \* the session cookie it came with, whose identity its headers carry
  cookies,    \* the session values that signSession has signed so far
  issued      \* the tokens the token endpoint has minted

hsVars == <<hello, sub, protected, tokenID, rolls, evicted>>
webVars == <<req, cookies, issued>>
vars == <<now, pc, hsVars, reg, cprot, ready, sess, peer, first, webVars>>

\* The paths that matter: munnel's own, where a viewer logs in and out, and others.
Path == {"app", "auth", "logout"}

\* A session value: whose it is, when it ends, and if the server signed it.
Cookie == [user : Viewer, exp : Nat, genuine : BOOLEAN]
\* Stands for no cookie, too: verifySession refuses both alike.
MadeUp(v) == [user |-> v, exp |-> MaxTime, genuine |-> FALSE]

Request == [pc : {"new", "wait", "admit", "proxied"},
            name : Name \cup {NoName}, conn : Conn \cup {None},
            path : Path, cookie : Cookie, user : {"viewer", "none", "session"}]

\* The identity headers are the viewer's own until they are stripped.
NoRequest(v) == [pc |-> "new", name |-> NoName, conn |-> None, path |-> "app",
                 cookie |-> MadeUp(v), user |-> "viewer"]

\* What the token endpoint hands out.
EnrollToken == [signed : {TRUE}, authentic : {TRUE}, sub : ValidName \cup {NoName}, exp : Nat,
                id : EnrollIDs, prot : {FALSE}]

\* The hellos of a client that uses a token it was issued.
EnrolledHellos ==
  [version : {TRUE}, token : issued, subdomain : Name \cup {NoName}, protected : {FALSE},
   tls : {TRUE}]
NoHello == [version |-> FALSE, token |-> NoToken, subdomain |-> NoName,
            protected |-> FALSE, tls |-> FALSE]

HandlerPc == {"accept", "check", "name", "scope", "reserved", "protect", "session",
              "register", "setprot", "evict", "ack", "ackfail", "ackclose", "run",
              "unregister", "ended"}

TypeOK ==
  /\ now \in 0 .. MaxTime
  /\ pc \in [Conn -> HandlerPc]
  /\ hello \in [Conn -> Hellos \cup EnrolledHellos \cup {NoHello}]
  /\ sub \in [Conn -> Name \cup {NoName}]
  /\ protected \in [Conn -> BOOLEAN]
  /\ rolls \in [Conn -> 0 .. MaxRolls]
  /\ evicted \in [Conn -> Conn \cup {None}]
  /\ reg \in [Name -> Conn \cup {None}]
  /\ cprot \in [Conn -> BOOLEAN]
  /\ ready \in [Conn -> BOOLEAN]
  /\ sess \in [Conn -> {"none", "open", "closed"}]
  /\ peer \in [Conn -> {"here", "gone", "stale"}]
  /\ first \in [Conn -> {"nothing", "ack", "nack", "frame"}]
  /\ req \in [Viewer -> Request]
  /\ cookies \subseteq Cookie
  /\ issued \subseteq EnrollToken

Init ==
  /\ now = 1
  /\ pc = [c \in Conn |-> "accept"]
  /\ hello = [c \in Conn |-> NoHello]
  /\ sub = [c \in Conn |-> NoName]
  /\ protected = [c \in Conn |-> FALSE]
  /\ tokenID = [c \in Conn |-> NoID]
  /\ rolls = [c \in Conn |-> 0]
  /\ evicted = [c \in Conn |-> None]
  /\ reg = [n \in Name |-> None]
  /\ cprot = [c \in Conn |-> FALSE]
  /\ ready = [c \in Conn |-> FALSE]
  /\ sess = [c \in Conn |-> "none"]
  /\ peer = [c \in Conn |-> "here"]
  /\ first = [c \in Conn |-> "nothing"]
  /\ req = [v \in Viewer |-> NoRequest(v)]
  /\ cookies = {}
  /\ issued = {}

-----------------------------------------------------------------------------
(* The handshake.                                                          *)

Goto(c, where) == pc' = [pc EXCEPT ![c] = where]

\* Something is written on the connection; only the first counts here.
Wrote(c, what) == first' = [first EXCEPT ![c] = IF @ = "nothing" THEN what ELSE @]

\* reject and rejectCode: a negative ack, and the handler returns.
Reject(c) == Wrote(c, "nack") /\ Goto(c, "ended")

\* Pass to the next step if ok, else reject.
PassIf(c, ok, next) ==
  \/ ok /\ Goto(c, next) /\ UNCHANGED first
  \/ ~ok /\ Reject(c)

Elsewhere == <<reg, cprot, ready, sess, peer, webVars, now>>

\* The hello arrives, with the right version or not; or the handshake deadline
\* passes, and the handler returns without a word.
ReadHello(c) ==
  /\ pc[c] = "accept"
  /\ \/ \E m \in Hellos \cup EnrolledHellos :
          hello' = [hello EXCEPT ![c] = m] /\ PassIf(c, m.version, "check")
     \/ Goto(c, "ended") /\ UNCHANGED <<hello, first>>
  /\ UNCHANGED <<sub, protected, tokenID, rolls, evicted, Elsewhere>>

\* Auth.Check.
AuthCheck(c) ==
  /\ pc[c] = "check"
  /\ PassIf(c, Check(Cfg, hello[c].token, now), "name")
  /\ UNCHANGED <<hsVars, Elsewhere>>

\* The name: the token's, if it is bound to one, else the requested one.
ChooseName(c) ==
  LET r == ReservedSubdomain(Cfg, hello[c].token, now) IN
  /\ pc[c] = "name"
  /\ sub' = [sub EXCEPT ![c] = IF r # NoName THEN r ELSE hello[c].subdomain]
  /\ Goto(c, "scope")
  /\ UNCHANGED <<hello, protected, tokenID, rolls, evicted, first, Elsewhere>>

\* Mutant: a token that no longer parses counts as validated before.
ScopeCheckTrusting(c) ==
  /\ pc[c] = "scope"
  /\ PassIf(c, \/ IsSigned(Cfg, hello[c].token) /\ ~Parses(hello[c].token, now)
               \/ CheckSubdomain(Cfg, hello[c].token, sub[c], sub[c] \in ValidName, now),
            "reserved")
  /\ UNCHANGED <<hsVars, Elsewhere>>

\* Auth.CheckSubdomain.
ScopeCheck(c) ==
  /\ pc[c] = "scope"
  /\ PassIf(c, CheckSubdomain(Cfg, hello[c].token, sub[c], sub[c] \in ValidName, now), "reserved")
  /\ UNCHANGED <<hsVars, Elsewhere>>

\* Auth.CheckReserved.
ReservedCheck(c) ==
  /\ pc[c] = "reserved"
  /\ PassIf(c, CheckReserved(Cfg, hello[c].token, sub[c], hello[c].tls, now) = "ok", "protect")
  /\ UNCHANGED <<hsVars, Elsewhere>>

\* Is the tunnel protected, and can this server protect it?
Protect(c) ==
  LET p == hello[c].protected \/ ProtectedByToken(Cfg, hello[c].token, now) IN
  /\ pc[c] = "protect"
  /\ protected' = [protected EXCEPT ![c] = p]
  /\ PassIf(c, p => FAEnabled, "session")
  /\ UNCHANGED <<hello, sub, tokenID, rolls, evicted, Elsewhere>>

\* The session is created and the token's ID noted.
NewSession(c) ==
  /\ pc[c] = "session"
  /\ sess' = [sess EXCEPT ![c] = "open"]
  /\ tokenID' = [tokenID EXCEPT ![c] = TokenID(Cfg, hello[c].token, now)]
  /\ Goto(c, "register")
  /\ UNCHANGED <<hello, sub, protected, rolls, evicted, first, reg, cprot, ready, peer, webVars, now>>

-----------------------------------------------------------------------------
(* The registry.                                                           *)

\* The condition under which Registry.Register refuses a name.
Taken(c, n) ==
  /\ reg[n] # None
  /\ \/ tokenID[c] = NoID
     \/ tokenID[reg[n]] # tokenID[c]
     \/ peer[reg[n]] # "stale"

\* The name to register in this iteration: sub, or one just generated.
Candidate(c, n) == IF sub[c] = NoName THEN n \in Generated ELSE n = sub[c]

\* Registry.Register succeeds; a stale holder of the same token is replaced.
Register(c, n) ==
  /\ pc[c] = "register" /\ rolls[c] < MaxRolls
  /\ Candidate(c, n)
  /\ sub[c] = NoName => ~IsReserved(Cfg, n)
  /\ ~Taken(c, n)
  /\ reg' = [reg EXCEPT ![n] = c]
  /\ evicted' = [evicted EXCEPT ![c] = reg[n]]
  /\ sub' = [sub EXCEPT ![c] = n]
  /\ Goto(c, "setprot")
  /\ UNCHANGED <<hello, protected, tokenID, rolls, first, cprot, ready, sess, peer, webVars, now>>

\* Mutant: the loop runs once too often.
RollAgainOffByOne(c, n) ==
  /\ pc[c] = "register" /\ rolls[c] <= MaxRolls
  /\ sub[c] = NoName
  /\ n \in {m \in Generated : IsReserved(Cfg, m) \/ Taken(c, m)}
  /\ rolls' = [rolls EXCEPT ![c] = @ + 1]
  /\ UNCHANGED <<pc, hello, sub, protected, tokenID, evicted, first, Elsewhere>>

\* A generated name is reserved or taken: roll again.
RollAgain(c, n) ==
  /\ pc[c] = "register" /\ rolls[c] < MaxRolls
  /\ sub[c] = NoName
  /\ n \in {m \in Generated : IsReserved(Cfg, m) \/ Taken(c, m)}
  /\ rolls' = [rolls EXCEPT ![c] = @ + 1]
  /\ UNCHANGED <<pc, hello, sub, protected, tokenID, evicted, first, Elsewhere>>

\* A requested name is taken, or the attempts are used up.
RegisterFails(c) ==
  /\ pc[c] = "register"
  /\ \/ sub[c] # NoName /\ Taken(c, sub[c])
     \/ rolls[c] = MaxRolls
  /\ Reject(c)
  /\ UNCHANGED <<hsVars, Elsewhere>>

\* client.Protected = protected: requests may have found the Client already.
SetProtected(c) ==
  /\ pc[c] = "setprot"
  /\ cprot' = [cprot EXCEPT ![c] = protected[c]]
  /\ Goto(c, IF evicted[c] # None THEN "evict" ELSE "ack")
  /\ UNCHANGED <<hsVars, first, reg, ready, sess, peer, webVars, now>>

\* Mutant: the replaced session is left alone.
NoEvict(c) ==
  /\ pc[c] = "evict"
  /\ Goto(c, "ack")
  /\ UNCHANGED <<hsVars, first, Elsewhere>>

\* The replaced session is closed.
Evict(c) ==
  /\ pc[c] = "evict"
  /\ sess' = [sess EXCEPT ![evicted[c]] = "closed"]
  /\ Goto(c, "ack")
  /\ UNCHANGED <<hsVars, first, reg, cprot, ready, peer, webVars, now>>

\* The ack is written and the Client is ready, or the write fails.
WriteAck(c) ==
  /\ pc[c] = "ack"
  /\ \/ Wrote(c, "ack") /\ Goto(c, "run") /\ ready' = [ready EXCEPT ![c] = TRUE]
     \/ Goto(c, "ackfail") /\ UNCHANGED <<first, ready>>
  /\ UNCHANGED <<hsVars, reg, cprot, sess, peer, webVars, now>>

\* Mutant: a name is released whoever holds it.
UnregisterAny(c) == reg' = [reg EXCEPT ![sub[c]] = None]

\* Registry.Unregister: only if the name is still held by this session.
Unregister(c) == reg' = [reg EXCEPT ![sub[c]] = IF @ = c THEN None ELSE @]

\* The ack failed: the name is released ...
AckFailed(c) ==
  /\ pc[c] = "ackfail"
  /\ Unregister(c)
  /\ Goto(c, "ackclose")
  /\ UNCHANGED <<hsVars, first, cprot, ready, sess, peer, webVars, now>>

\* Mutant: requests are let through before the session is closed.
AckFailedReadyFirst(c) ==
  /\ pc[c] = "ackclose"
  /\ \/ ~ready[c] /\ ready' = [ready EXCEPT ![c] = TRUE] /\ UNCHANGED <<sess, pc>>
     \/ ready[c] /\ sess' = [sess EXCEPT ![c] = "closed"] /\ Goto(c, "ended") /\ UNCHANGED ready
  /\ UNCHANGED <<hsVars, first, reg, cprot, peer, webVars, now>>

\* ... the session closed, and only then are waiting requests let through, to
\* fail (the deferred markReady).
AckFailedClose(c) ==
  /\ pc[c] = "ackclose"
  /\ \/ /\ sess[c] = "open"
        /\ sess' = [sess EXCEPT ![c] = "closed"]
        /\ UNCHANGED <<ready, pc>>
     \/ /\ sess[c] = "closed"
        /\ ready' = [ready EXCEPT ![c] = TRUE]
        /\ Goto(c, "ended")
        /\ UNCHANGED sess
  /\ UNCHANGED <<hsVars, first, reg, cprot, peer, webVars, now>>

\* Session.Run returns once the session is closed.
RunReturns(c) ==
  /\ pc[c] = "run" /\ sess[c] = "closed"
  /\ Goto(c, "unregister")
  /\ UNCHANGED <<hsVars, first, Elsewhere>>

\* Mutant: the handler returns without Unregister.
HandlerEndsKeepsName(c) ==
  /\ pc[c] = "unregister"
  /\ Goto(c, "ended")
  /\ UNCHANGED <<hsVars, first, Elsewhere>>

\* The handler releases its name and returns.
HandlerEnds(c) ==
  /\ pc[c] = "unregister"
  /\ Unregister(c)
  /\ Goto(c, "ended")
  /\ UNCHANGED <<hsVars, first, cprot, ready, sess, peer, webVars, now>>

-----------------------------------------------------------------------------
(* The tunnel clients and the clock.                                       *)

\* The client closes its connection, or a running session sees it break.
ClientCloses(c) ==
  /\ pc[c] = "run" /\ sess[c] = "open"
  /\ sess' = [sess EXCEPT ![c] = "closed"]
  /\ UNCHANGED <<pc, hsVars, first, reg, cprot, ready, peer, webVars, now>>

\* The client vanishes without closing anything ...
ClientVanishes(c) ==
  /\ pc[c] = "run" /\ peer[c] = "here"
  /\ peer' = [peer EXCEPT ![c] = "gone"]
  /\ UNCHANGED <<pc, hsVars, first, reg, cprot, ready, sess, webVars, now>>

\* ... misses its heartbeats ...
BecomesStale(c) ==
  /\ peer[c] = "gone"
  /\ peer' = [peer EXCEPT ![c] = "stale"]
  /\ UNCHANGED <<pc, hsVars, first, reg, cprot, ready, sess, webVars, now>>

\* ... and is given up by the watchdog.
IdleTimeout(c) ==
  /\ pc[c] = "run" /\ peer[c] = "stale" /\ sess[c] = "open"
  /\ sess' = [sess EXCEPT ![c] = "closed"]
  /\ UNCHANGED <<pc, hsVars, first, reg, cprot, ready, peer, webVars, now>>

Tick ==
  /\ now < MaxTime
  /\ now' = now + 1
  /\ UNCHANGED <<pc, hsVars, first, reg, cprot, ready, sess, peer, webVars>>

-----------------------------------------------------------------------------
(* The token endpoint.                                                     *)

\* handleTokenIssue: a token for whoever knows the enrollment password, unless the
\* name is invalid or reserved, or the lifetime is; it is cut to maxEnrollTTL.
\* An ask is [password, sub, ttl], where ttl 0 stands for none given, -1 for a bad one.
IssueToken(a, id) ==
  LET ttl == IF a.ttl = 0 THEN DefaultTTL ELSE a.ttl IN
  /\ a.password /\ Cfg.signing
  /\ a.sub # NoName => a.sub \in ValidName /\ ~IsReserved(Cfg, a.sub)
  /\ ttl > 0
  /\ id \in EnrollIDs \ {t.id : t \in issued}
  /\ issued' = issued \cup {Mint(id, a.sub, now + IF ttl > MaxTTL THEN MaxTTL ELSE ttl)}
  /\ UNCHANGED <<now, pc, hsVars, reg, cprot, ready, sess, peer, first, req, cookies>>

-----------------------------------------------------------------------------
(* Public requests.                                                        *)

Others == <<now, pc, hsVars, reg, cprot, ready, sess, peer, issued>>

\* The request is answered by the server itself.
Answered(v) == req' = [req EXCEPT ![v] = NoRequest(v)]

\* ServeHTTP looks the subdomain up; 502 if no client holds it.  The request may
\* carry any session value ever signed: the server keeps no list of them, and
\* nothing in one names a host.
Lookup(v, n, path, k) ==
  /\ req[v].pc = "new" /\ reg[n] # None
  /\ req' = [req EXCEPT ![v] = [pc |-> "wait", name |-> n, conn |-> reg[n], path |-> path,
                                cookie |-> k, user |-> "viewer"]]
  /\ UNCHANGED <<Others, cookies, first>>

\* waitReady: the handshake finished; or the viewer left or 5 s passed, 502.
WaitReady(v) ==
  /\ req[v].pc = "wait"
  /\ IF ready[req[v].conn] THEN req' = [req EXCEPT ![v].pc = "admit"] ELSE Answered(v)
  /\ UNCHANGED <<Others, cookies, first>>

\* Manager.Handle: a login signs a session value.  A login that fails signs none, and
\* a logout only asks the browser to drop its cookie: the value stays good.
FAHandle(v) ==
  LET r == req[v] IN
  /\ r.pc = "admit" /\ FAEnabled /\ r.path # "app"
  /\ \/ /\ r.path = "auth"
        /\ cookies' = cookies \cup {[user |-> v, exp |-> now + SessionTTL, genuine |-> TRUE]}
     \/ UNCHANGED cookies
  /\ Answered(v)
  /\ UNCHANGED <<Others, first>>

\* Mutant: a session that has expired is accepted.
AnySession(k) == k.genuine

\* verifySession: the signature is the server's and Exp has not passed.
ValidSession(k) == k.genuine /\ now <= k.exp

\* StripIdentityHeaders and then Authorize: whose identity the request carries on,
\* and whether it may go on.
Identity(r) == IF FAEnabled /\ cprot[r.conn] THEN "session" ELSE "none"
Authorized(v) == Identity(req[v]) = "session" => ValidSession(req[v].cookie)

\* proxyTo: OpenStream puts a frame on the connection, unless the session is
\* closed.  An unauthorized request is redirected to the login page.
Admit(v) ==
  LET r == req[v] IN
  /\ r.pc = "admit" /\ (FAEnabled => r.path = "app")
  /\ IF Authorized(v) /\ sess[r.conn] = "open"
     THEN /\ Wrote(r.conn, "frame")
          /\ req' = [req EXCEPT ![v].pc = "proxied", ![v].user = Identity(r)]
     ELSE /\ Answered(v)
          /\ UNCHANGED first
  /\ UNCHANGED <<Others, cookies>>

\* The response is through; the viewer may send another request.
Relayed(v) ==
  /\ req[v].pc = "proxied"
  /\ Answered(v)
  /\ UNCHANGED <<Others, cookies, first>>

-----------------------------------------------------------------------------

HandlerStep(c) ==
  \/ ReadHello(c) \/ AuthCheck(c) \/ ChooseName(c) \/ ScopeCheck(c) \/ ReservedCheck(c)
  \/ Protect(c) \/ NewSession(c)
  \/ \E n \in Name : Register(c, n) \/ RollAgain(c, n)
  \/ RegisterFails(c) \/ SetProtected(c) \/ Evict(c) \/ WriteAck(c)
  \/ AckFailed(c) \/ AckFailedClose(c) \/ RunReturns(c) \/ HandlerEnds(c)

RequestStep(v) == WaitReady(v) \/ FAHandle(v) \/ Admit(v) \/ Relayed(v)

Next ==
  \/ \E c \in Conn : \/ HandlerStep(c) \/ ClientCloses(c) \/ ClientVanishes(c)
                     \/ BecomesStale(c) \/ IdleTimeout(c)
  \/ \E v \in Viewer :
       \/ RequestStep(v)
       \/ \E n \in ValidName, path \in Path, k \in cookies \cup {MadeUp(v)} : Lookup(v, n, path, k)
  \/ \E a \in TokenAsks, id \in EnrollIDs : IssueToken(a, id)
  \/ Tick

Spec == Init /\ [][Next]_vars

\* Handlers and requests run, and a client that vanished is noticed.
Fairness ==
  /\ \A c \in Conn : WF_vars(HandlerStep(c)) /\ WF_vars(BecomesStale(c)) /\ WF_vars(IdleTimeout(c))
  /\ \A v \in Viewer : WF_vars(RequestStep(v))

FairSpec == Spec /\ Fairness

-----------------------------------------------------------------------------
(* Properties.                                                             *)

Token(c) == hello[c].token

\* The registry is exact.  A tunnel whose client is there and was acked stays
\* reachable under its name: no other connection, token or late Unregister takes
\* it; and a handler that has returned, on whichever path, holds no name.
RegistryIsExact ==
  \A c \in Conn :
    /\ pc[c] = "run" /\ sess[c] = "open" /\ peer[c] = "here" => reg[sub[c]] = c
    /\ pc[c] = "ended" => \A n \in Name : reg[n] # c

\* A name has one tunnel: once the newcomer of a takeover is acked, the session
\* it replaced is closed, so no request can still be sent into it.
OneOpenSessionPerName ==
  \A c, d \in Conn :
    pc[c] = "run" /\ pc[d] = "run" /\ sub[c] = sub[d] /\ c # d
      => "closed" \in {sess[c], sess[d]}

\* The ack is the first thing a tunnel client reads: no mux frame gets ahead of
\* it, although requests find the Client before the ack is written, and none is
\* written on a connection whose ack failed.
NoFrameBeforeAck == \A c \in Conn : first[c] # "frame"

\* A reserved name is only ever held by one of its token IDs, unrevoked and
\* authentic, over TLS ...
ReservedNameIsOwned ==
  \A n \in Name \cap DOMAIN Cfg.reservedNames :
    reg[n] # None =>
      LET tok == Token(reg[n]) IN
      /\ hello[reg[n]].tls
      /\ tok.signed /\ tok.authentic
      /\ tok.id \in Cfg.reservedNames[n] \ Cfg.revoked

\* ... and a token bound to a name holds that name and no other.
ScopedTokenHoldsItsName ==
  \A n \in Name :
    reg[n] # None =>
      LET tok == Token(reg[n]) IN
      /\ IsSigned(Cfg, tok) /\ tok.sub # NoName => n = tok.sub
      /\ ~tok.signed /\ tok \in DOMAIN Cfg.reserved => n = Cfg.reserved[tok]

\* Whoever holds a name is entitled to it: whether it was asked for, came with the
\* token, was taken over or drawn by chance, with a token of the operator or a
\* self-issued one, and even when the token expires in the middle of the handshake.
HolderIsEntitled == ReservedNameIsOwned /\ ScopedTokenHoldsItsName

\* A request reaches a tunnel whose client asked for protection only with the
\* identity of a session that the server has signed at most SessionTTL ago, on
\* whatever host and logged out since or not; and it never reaches any tunnel with
\* an identity the viewer made up.  Client.Protected is set after the Client is
\* published, and the session may expire while the request waits.
OptInIsEnforced ==
  [][\A v \in Viewer :
       req[v].pc # "proxied" /\ req'[v].pc = "proxied" =>
         /\ req'[v].user # "viewer"
         /\ hello[req[v].conn].protected =>
              /\ req'[v].user = "session"
              /\ req[v].cookie \in cookies
              /\ req[v].cookie.exp \in now .. now + SessionTTL]_vars

\* What the prot claim's comment says: "Prot mandates forward-auth on the tunnel
\* this token opens. The holder cannot disable it."
MandateIsEnforced ==
  \A v \in Viewer :
    req[v].pc = "proxied" /\ IsSigned(Cfg, Token(req[v].conn)) /\ Token(req[v].conn).prot
      => req[v].user = "session"

\* The name of a session that ended comes free or goes to another one.
ClosedSessionFreesItsName ==
  \A c \in Conn : sess[c] = "closed" ~> \A n \in Name : reg[n] # c

=============================================================================
