------------------------------ MODULE Inspection ------------------------------
(***************************************************************************)
(* The client's inspector: the ring of captured exchanges (Store), the     *)
(* fan-out of new ones to the open tabs (Hub), and the goroutines that     *)
(* feed both: request handlers (OnRecord in cmd/client) and replays        *)
(* (serveReplay).  Tabs come, stop reading, and go.                        *)
(*                                                                         *)
(* A record is its ID, the request it captures (method, path and body) and *)
(* whether a replay made it: such a record has no request headers.         *)
(* Answers and times are left out.                                         *)
(***************************************************************************)
EXTENDS Integers, Sequences, FiniteSets, SequencesExt

CONSTANTS Worker,     \* goroutines that add records
          Tab,        \* inspector tabs
          Request,    \* the requests that may be captured
          Truncated,  \* the ones whose body exceeds the capture limit
          Escaped,    \* the ones whose path has escaped characters, as in /a%20b
          Cap,        \* capacity of the ring: 200 in the code
          MaxRecords  \* records in all (a bound)

ASSUME CapAssumption == Cap \in Nat \ {0}
ASSUME MaxRecordsAssumption == MaxRecords \in Nat
ASSUME TruncatedAssumption == Truncated \subseteq Request /\ Escaped \subseteq Request

None == "none"
ASSUME NoneAssumption == None \notin Worker

VARIABLES
  seq,    \* Store.seq
  buf,    \* Store.buf
  head,   \* Store.head: the next index to write
  n,      \* Store.n: the number of live entries
  w,      \* per worker: where it is, its record, and for a replay the record
          \* the tab shows under the ID it asked for and what is sent
  conns,  \* Hub.conns
  mu,     \* Hub.mu: the worker that broadcasts, if any
  todo,   \* the tabs its broadcast has still to write to
  dead,   \* the tabs to which it could not
  tab,    \* ServeWS: off, upgraded, reading, leaving
  slow,   \* tabs that have stopped reading
  feed,   \* the records written to a tab since it was registered
  due     \* the records broadcast since then, in order

storeVars == <<seq, buf, head, n>>
hubVars == <<conns, mu, todo, dead>>
tabVars == <<tab, slow, feed, due>>
vars == <<storeVars, w, hubVars, tabVars>>

Record == [id : 0 .. MaxRecords, req : Request, replayed : BOOLEAN]
Nil == [id |-> 0]  \* an entry of buf that holds no record

\* What a replay sends to the local service: a captured request, its path as it was
\* captured or with its escapes escaped once more, and with its headers or without.
Sent == [req : Request, path : {"captured", "escaped again"}, headers : BOOLEAN]
Ask == [shown : Record, sent : Sent]
NoAsk == [shown |-> Nil]

WorkerState == [pc : {"idle", "replaying", "add", "store", "cast", "casting"},
                rec : Record \cup {Nil}, ask : Ask \cup {NoAsk}]

TypeOK ==
  /\ seq \in 0 .. MaxRecords
  /\ buf \in [0 .. Cap - 1 -> Record \cup {Nil}]
  /\ head \in 0 .. Cap - 1
  /\ n \in 0 .. Cap
  /\ w \in [Worker -> WorkerState]
  /\ conns \subseteq Tab /\ todo \subseteq conns /\ dead \subseteq conns
  /\ mu \in Worker \cup {None}
  /\ tab \in [Tab -> {"off", "upgraded", "reading", "leaving"}]
  /\ slow \subseteq Tab
  /\ feed \in [Tab -> Seq(Record)] /\ due \in [Tab -> Seq(Record)]

Idle == [pc |-> "idle", rec |-> Nil, ask |-> NoAsk]

Init ==
  /\ seq = 0 /\ buf = [i \in 0 .. Cap - 1 |-> Nil] /\ head = 0 /\ n = 0
  /\ w = [k \in Worker |-> Idle]
  /\ conns = {} /\ mu = None /\ todo = {} /\ dead = {}
  /\ tab = [t \in Tab |-> "off"] /\ slow = {}
  /\ feed = [t \in Tab |-> <<>>] /\ due = [t \in Tab |-> <<>>]

-----------------------------------------------------------------------------
(* Store.                                                                  *)

\* Mutant: the index is one too high.
ListOffByOne == [i \in 1 .. n |-> buf[(head - i + 1) % Cap]]

\* List: newest first.
List == [i \in 1 .. n |-> buf[(head - i + Cap) % Cap]]

\* Get goes through the same entries and returns the first with that ID, or Nil.
Get(id) ==
  LET hits == {i \in 1 .. n : List[i].id = id}
  IN IF hits = {} THEN Nil ELSE List[Min(hits)]

\* Add, up to the lock: the ID is assigned ...
AssignID(k) ==
  /\ w[k].pc = "add"
  /\ seq' = seq + 1
  /\ w' = [w EXCEPT ![k].rec.id = seq + 1, ![k].pc = "store"]
  /\ UNCHANGED <<buf, head, n, hubVars, tabVars>>

\* Mutant: a full ring does not stop counting.
StoreOverflows(k) ==
  /\ w[k].pc = "store"
  /\ buf' = [buf EXCEPT ![head] = w[k].rec]
  /\ head' = (head + 1) % Cap
  /\ n' = IF n <= Cap THEN n + 1 ELSE n
  /\ w' = [w EXCEPT ![k].pc = "cast"]
  /\ UNCHANGED <<seq, hubVars, tabVars>>

\* ... and under the lock: the record takes the place of the oldest one.
Store(k) ==
  /\ w[k].pc = "store"
  /\ buf' = [buf EXCEPT ![head] = w[k].rec]
  /\ head' = (head + 1) % Cap
  /\ n' = IF n < Cap THEN n + 1 ELSE n
  /\ w' = [w EXCEPT ![k].pc = "cast"]
  /\ UNCHANGED <<seq, hubVars, tabVars>>

\* Mutant: IDs start again.
ClearRestartsIDs ==
  /\ n > 0
  /\ buf' = [i \in 0 .. Cap - 1 |-> Nil] /\ head' = 0 /\ n' = 0 /\ seq' = 0
  /\ UNCHANGED <<w, hubVars, tabVars>>

\* Clear (serveClear); IDs keep increasing.
Clear ==
  /\ n > 0
  /\ buf' = [i \in 0 .. Cap - 1 |-> Nil] /\ head' = 0 /\ n' = 0
  /\ UNCHANGED <<seq, w, hubVars, tabVars>>

-----------------------------------------------------------------------------
(* The goroutines that add records.                                        *)

\* The workers that will add a record which has no ID yet.
Pending == {k \in Worker : w[k].pc \in {"replaying", "add"}}
Room == seq + Cardinality(Pending) < MaxRecords

\* A request was served; OnRecord adds its record and broadcasts it.
Capture(k, q) ==
  /\ w[k].pc = "idle" /\ Room
  /\ w' = [w EXCEPT ![k] = [pc |-> "add", ask |-> NoAsk,
                            rec |-> [id |-> 0, req |-> q, replayed |-> FALSE]]]
  /\ UNCHANGED <<storeVars, hubVars, tabVars>>

\* Replay of src: its RequestURI, which is escaped, becomes the URL's Path, which
\* is escaped when it is sent; the headers are those src has.
Replay(src) ==
  [req |-> src.req, path |-> IF src.req \in Escaped THEN "escaped again" ELSE "captured",
   headers |-> ~src.replayed]

\* serveReplay for a record r that a tab shows: Get, and Replay sends the request
\* to the local service, unless the record is gone or was truncated.
AskReplay(k, r) ==
  LET src == Get(r.id) IN
  /\ w[k].pc = "idle" /\ Room
  /\ src # Nil /\ src.req \notin Truncated
  /\ w' = [w EXCEPT ![k] = [pc |-> "replaying", ask |-> [shown |-> r, sent |-> Replay(src)],
                            rec |-> [id |-> 0, req |-> src.req, replayed |-> TRUE]]]
  /\ UNCHANGED <<storeVars, hubVars, tabVars>>

\* The local service answers, or cannot be reached; Add comes next.
ReplayDone(k) ==
  /\ w[k].pc = "replaying"
  /\ w' = [w EXCEPT ![k].pc = "add"]
  /\ UNCHANGED <<storeVars, hubVars, tabVars>>

-----------------------------------------------------------------------------
(* Hub.                                                                    *)

\* broadcast takes Hub.mu and goes through the tabs registered now.
CastBegin(k) ==
  /\ w[k].pc = "cast" /\ mu = None
  /\ mu' = k /\ todo' = conns /\ dead' = {}
  /\ due' = [t \in Tab |-> IF t \in conns THEN Append(due[t], w[k].rec) ELSE due[t]]
  /\ w' = [w EXCEPT ![k].pc = "casting"]
  /\ UNCHANGED <<storeVars, conns, tab, slow, feed>>

\* Mutant: WriteMessage has no deadline.
CastWriteNoDeadline(t) ==
  /\ t \in todo /\ t \notin slow
  /\ todo' = todo \ {t}
  /\ feed' = [feed EXCEPT ![t] = Append(@, w[mu].rec)]
  /\ UNCHANGED <<storeVars, w, conns, mu, dead, tab, slow, due>>

\* WriteMessage: a tab that does not read, or is gone, may take one more
\* message; else the write fails, at its deadline if not before.
CastWrite(t) ==
  /\ t \in todo
  /\ todo' = todo \ {t}
  /\ \/ feed' = [feed EXCEPT ![t] = Append(@, w[mu].rec)] /\ UNCHANGED dead
     \/ /\ t \in slow \/ tab[t] = "leaving"
        /\ dead' = dead \cup {t}
        /\ UNCHANGED feed
  /\ UNCHANGED <<storeVars, w, conns, mu, tab, slow, due>>

\* Mutant: a tab that missed a record is kept.
CastEndKeepsAll(k) ==
  /\ w[k].pc = "casting" /\ mu = k /\ todo = {}
  /\ mu' = None /\ dead' = {}
  /\ w' = [w EXCEPT ![k] = Idle]
  /\ UNCHANGED <<storeVars, conns, todo, tabVars>>

\* The tabs that failed are dropped and closed, which ends their ServeWS.
CastEnd(k) ==
  /\ w[k].pc = "casting" /\ mu = k /\ todo = {}
  /\ conns' = conns \ dead
  /\ tab' = [t \in Tab |-> IF t \in dead THEN "leaving" ELSE tab[t]]
  /\ mu' = None /\ dead' = {}
  /\ w' = [w EXCEPT ![k] = Idle]
  /\ UNCHANGED <<storeVars, todo, slow, feed, due>>

\* ServeWS: the connection is upgraded ...
Upgrade(t) ==
  /\ tab[t] = "off"
  /\ tab' = [tab EXCEPT ![t] = "upgraded"]
  /\ UNCHANGED <<storeVars, w, hubVars, slow, feed, due>>

\* ... and registered under Hub.mu.
Register(t) ==
  /\ tab[t] = "upgraded" /\ mu = None
  /\ tab' = [tab EXCEPT ![t] = "reading"]
  /\ conns' = conns \cup {t}
  /\ UNCHANGED <<storeVars, w, mu, todo, dead, slow, feed, due>>

\* ReadMessage fails: the tab has gone.
TabLeaves(t) ==
  /\ tab[t] = "reading"
  /\ tab' = [tab EXCEPT ![t] = "leaving"]
  /\ UNCHANGED <<storeVars, w, hubVars, slow, feed, due>>

\* The tab stops reading, silently.
TabStalls(t) ==
  /\ tab[t] = "reading" /\ t \notin slow
  /\ slow' = slow \cup {t}
  /\ UNCHANGED <<storeVars, w, hubVars, tab, feed, due>>

\* The deferred function of ServeWS, under Hub.mu.
Unregister(t) ==
  /\ tab[t] = "leaving" /\ mu = None
  /\ conns' = conns \ {t}
  /\ tab' = [tab EXCEPT ![t] = "off"]
  /\ slow' = slow \ {t}
  /\ feed' = [feed EXCEPT ![t] = <<>>] /\ due' = [due EXCEPT ![t] = <<>>]
  /\ UNCHANGED <<storeVars, w, mu, todo, dead>>

-----------------------------------------------------------------------------

Shown == UNION {ToSet(feed[t]) : t \in Tab}

\* What a worker does by itself once it has a record.
WorkerStep(k) ==
  \/ AssignID(k) \/ Store(k) \/ CastBegin(k) \/ CastEnd(k)
  \/ mu = k /\ \E t \in Tab : CastWrite(t)

Next ==
  \/ \E k \in Worker :
       \/ WorkerStep(k) \/ ReplayDone(k)
       \/ \E q \in Request : Capture(k, q)
       \/ \E r \in Shown : AskReplay(k, r)
  \/ \E t \in Tab : Upgrade(t) \/ Register(t) \/ TabLeaves(t) \/ TabStalls(t) \/ Unregister(t)
  \/ Clear

Spec == Init /\ [][Next]_vars

\* Workers and ServeWS run.  Weak fairness is enough for the waits on Hub.mu, of
\* which there are as many as records.
Fairness ==
  /\ \A k \in Worker : WF_vars(WorkerStep(k))
  /\ \A t \in Tab : WF_vars(Register(t)) /\ WF_vars(Unregister(t))

FairSpec == Spec /\ Fairness

-----------------------------------------------------------------------------

Log == INSTANCE BoundedLog WITH Entry <- Record, Capacity <- Cap, log <- Reverse(List)

\* The ring is a bounded log: whatever head and n are, and however often it was
\* filled and cleared, List has the latest Cap records stored since the last
\* Clear, newest first.
StoreIsBoundedLog == Log!Spec

\* A registered tab has missed nothing: its feed is every record broadcast since
\* it was registered, in the one order in which all the tabs get them.  A tab that
\* could not be written to is dropped, never skipped.
FeedHasNoGaps ==
  \A t \in conns \ dead : feed[t] = IF t \in todo THEN Front(due[t]) ELSE due[t]

\* A replay sends the request of the record that the tab shows under its ID, and
\* the replay is recorded as that request, although the ring has moved on and may
\* have been cleared since.  What is sent differs from what is shown in two ways
\* only: an escaped path, and the headers the record of a replay does not have.
ReplaySendsWhatIsShown ==
  \A k \in Worker :
    w[k].pc = "replaying" =>
      LET shown == w[k].ask.shown
          sent == w[k].ask.sent
      IN /\ {sent.req, w[k].rec.req} = {shown.req}
         /\ sent.path = "captured" \/ shown.req \in Escaped
         /\ sent.headers \/ shown.replayed

\* A tab that is open when a record has been stored gets to see it or is dropped,
\* although another tab may stop reading in the middle of a broadcast, and so the
\* handler of the request is not held up for ever either.
EveryRecordIsShown ==
  \A id \in 1 .. MaxRecords, t \in Tab :
    t \in conns /\ (\E k \in Worker : w[k].pc = "cast" /\ w[k].rec.id = id) ~>
      t \notin conns \/ \E i \in 1 .. Len(feed[t]) : feed[t][i].id = id
=============================================================================
