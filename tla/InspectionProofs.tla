--------------------------- MODULE InspectionProofs ---------------------------
(***************************************************************************)
(* Proofs about Inspection, for any workers, tabs and requests, any        *)
(* capacity of the ring and any number of records.                         *)
(***************************************************************************)
EXTENDS Inspection, FiniteSetTheorems, WellFoundedInduction, TLAPS

-----------------------------------------------------------------------------
(* Types.                                                                  *)

\* A worker that is not idle has a record, the one that broadcasts holds Hub.mu,
\* and the bound on records covers those still to be numbered.
WorkInv ==
  /\ \A k \in Worker : /\ w[k].pc # "idle" => w[k].rec \in Record
                       /\ w[k].pc = "casting" <=> mu = k
  /\ mu = None => todo = {} /\ dead = {}
  /\ IsFiniteSet(Pending) /\ seq + Cardinality(Pending) <= MaxRecords

\* The actions of a worker, and all the others.
LEMMA NextCases ==
  ASSUME Next
  PROVE  \/ \E k \in Worker : \/ AssignID(k) \/ Store(k) \/ CastBegin(k) \/ CastEnd(k)
                              \/ ReplayDone(k)
                              \/ \E q \in Request : Capture(k, q)
                              \/ \E r \in Shown : AskReplay(k, r)
         \/ \E t \in Tab : \/ CastWrite(t) /\ mu \in Worker
                           \/ Upgrade(t) \/ Register(t) \/ TabLeaves(t) \/ TabStalls(t)
                           \/ Unregister(t)
         \/ Clear
BY DEF Next, WorkerStep

\* Numbers and records.
LEMMA Basics ==
  /\ Cap \in Nat \ {0} /\ MaxRecords \in Nat /\ 0 \in 0 .. MaxRecords
  /\ Nil \notin Record /\ None \notin Worker
  /\ \A r \in Record : r.id \in 0 .. MaxRecords /\ r.req \in Request /\ r.replayed \in BOOLEAN
<1>1. Nil \notin Record
  <2>1. "req" \notin DOMAIN Nil /\ \A r \in Record : "req" \in DOMAIN r
    BY DEF Nil, Record
  <2> QED BY <2>1
<1> QED BY <1>1, CapAssumption, MaxRecordsAssumption, NoneAssumption DEF Record

\* A set of numbers that is not empty has a least one.
LEMMA LeastNumber ==
  ASSUME NEW T \in SUBSET Nat, T # {}
  PROVE  Min(T) \in T
<1> DEFINE R == OpToRel(<, Nat)
<1>1. IsWellFoundedOn(R, Nat)
  BY NatLessThanWellFounded
<1>2. \A x, y \in Nat : <<y, x>> \in R <=> y < x
  BY DEF OpToRel
<1> HIDE DEF R
<1>3. PICK x \in T : \A y \in T : ~(<<y, x>> \in R)
  BY <1>1, WFMin
<1>4. ASSUME NEW y \in T
      PROVE  x <= y
  <2>1. x \in Nat /\ y \in Nat
    OBVIOUS
  <2>2. ~(y < x)
    BY <1>2, <1>3, <2>1
  <2> QED BY <2>1, <2>2
<1> QED BY <1>4 DEF Min

\* The i-th of the entries that List and Get go through.
At(i) == (head - i + Cap) % Cap

\* What it is without the remainder.
LEMMA AtIndex ==
  ASSUME NEW c \in Nat \ {0}, NEW a \in 0 .. c - 1, NEW i \in 1 .. c
  PROVE  (a - i + c) % c = IF i <= a THEN a - i ELSE a - i + c
BY SMTT(30)

\* List has n elements, all of them entries of the ring.
LEMMA ListEntries ==
  ASSUME TypeOK
  PROVE  \A i \in 1 .. n : At(i) \in 0 .. Cap - 1 /\ List[i] = buf[At(i)]
<1>1. /\ Cap \in Nat \ {0} /\ head \in 0 .. Cap - 1 /\ n \in 0 .. Cap
  BY Basics DEF TypeOK
<1>2. ASSUME NEW i \in 1 .. n
      PROVE  At(i) \in 0 .. Cap - 1
  <2>1. i \in 1 .. Cap
    BY <1>1
  <2>2. At(i) = IF i <= head THEN head - i ELSE head - i + Cap
    BY <1>1, <2>1, AtIndex DEF At
  <2> QED BY <1>1, <2>1, <2>2
<1> QED BY <1>2 DEF List, At

\* What Get finds is an entry of the ring with the ID asked for.
LEMMA GetFinds ==
  ASSUME TypeOK, NEW id, Get(id) # Nil
  PROVE  \E i \in 0 .. Cap - 1 : Get(id) = buf[i] /\ buf[i].id = id
<1> DEFINE hits == {i \in 1 .. n : List[i].id = id}
<1>1. hits # {} /\ Get(id) = List[Min(hits)]
  BY DEF Get
<1>2. hits \in SUBSET Nat
  BY Basics DEF TypeOK
<1>3. Min(hits) \in hits
  BY <1>1, <1>2, LeastNumber
<1> QED BY <1>1, <1>3, ListEntries

\* Changing one worker keeps the type of all.
LEMMA WorkerType ==
  ASSUME TypeOK, NEW k \in Worker, NEW x \in WorkerState
  PROVE  [w EXCEPT ![k] = x] \in [Worker -> WorkerState]
BY DEF TypeOK

\* A worker goes on to another place.
LEMMA GotoType ==
  ASSUME TypeOK, NEW k \in Worker,
         NEW c \in {"idle", "replaying", "add", "store", "cast", "casting"}
  PROVE  [w EXCEPT ![k].pc = c]
           = [w EXCEPT ![k] = [pc |-> c, rec |-> w[k].rec, ask |-> w[k].ask]]
<1>1. w[k] \in WorkerState
  BY DEF TypeOK
<1>2. [w[k] EXCEPT !.pc = c] = [pc |-> c, rec |-> w[k].rec, ask |-> w[k].ask]
  BY <1>1 DEF WorkerState
<1> QED BY <1>2

\* Add gives the record the next ID.
LEMMA AssignedType ==
  ASSUME TypeOK, WorkInv, NEW k \in Worker, AssignID(k)
  PROVE  /\ w' = [w EXCEPT ![k] = [pc |-> "store", ask |-> w[k].ask,
                                   rec |-> [id |-> seq + 1, req |-> w[k].rec.req, replayed |-> w[k].rec.replayed]]]
         /\ w[k].rec \in Record
<1>1. w[k] \in WorkerState /\ w[k].rec \in Record /\ w[k].pc = "add"
  BY DEF TypeOK, WorkInv, AssignID
<1>2. w' = [w EXCEPT ![k] = [w[k] EXCEPT !.rec = [w[k].rec EXCEPT !.id = seq + 1], !.pc = "store"]]
  BY DEF AssignID
<1>3. [w[k].rec EXCEPT !.id = seq + 1] = [id |-> seq + 1, req |-> w[k].rec.req, replayed |-> w[k].rec.replayed]
  BY <1>1 DEF Record
<1>4. ASSUME NEW r
      PROVE  [w[k] EXCEPT !.rec = r, !.pc = "store"]
               = [pc |-> "store", ask |-> w[k].ask, rec |-> r]
  <2>1. PICK s \in WorkerState : s = w[k]
    BY <1>1
  <2>2. PICK c, d, e : s = [pc |-> c, rec |-> d, ask |-> e]
    BY DEF WorkerState
  <2>3. [s EXCEPT !.rec = r] = [pc |-> c, rec |-> r, ask |-> e]
    BY <2>2
  <2>4. [[pc |-> c, rec |-> r, ask |-> e] EXCEPT !.pc = "store"]
          = [pc |-> "store", rec |-> r, ask |-> e]
    OBVIOUS
  <2>5. [s EXCEPT !.rec = r, !.pc = "store"] = [[s EXCEPT !.rec = r] EXCEPT !.pc = "store"]
    OBVIOUS
  <2> QED BY <2>1, <2>2, <2>3, <2>4, <2>5
<1> QED BY <1>1, <1>2, <1>3, <1>4

\* What the workers that wait for an ID are after a step of worker k.
LEMMA PendingStep ==
  ASSUME TypeOK, WorkInv, NEW k \in Worker, NEW x \in WorkerState, w' = [w EXCEPT ![k] = x]
  PROVE  /\ Pending' = IF x.pc \in {"replaying", "add"} THEN Pending \cup {k} ELSE Pending \ {k}
         /\ IsFiniteSet(Pending)' /\ Cardinality(Pending) \in Nat /\ Cardinality(Pending)' \in Nat
         /\ x.pc \in {"replaying", "add"} =>
              Cardinality(Pending)' = IF k \in Pending THEN Cardinality(Pending)
                                                       ELSE Cardinality(Pending) + 1
         /\ x.pc \notin {"replaying", "add"} =>
              Cardinality(Pending)' = IF k \in Pending THEN Cardinality(Pending) - 1
                                                       ELSE Cardinality(Pending)
<1>1. \A j \in Worker : w'[j] = IF j = k THEN x ELSE w[j]
  BY DEF TypeOK
<1>2. Pending' = IF x.pc \in {"replaying", "add"} THEN Pending \cup {k} ELSE Pending \ {k}
  BY <1>1 DEF Pending
<1>3. IsFiniteSet(Pending) /\ Cardinality(Pending) \in Nat
  BY FS_CardinalityType DEF WorkInv
<1> HIDE DEF Pending
<1>4. /\ IsFiniteSet(Pending \cup {k}) /\ IsFiniteSet(Pending \ {k})
      /\ Cardinality(Pending \cup {k}) \in Nat /\ Cardinality(Pending \ {k}) \in Nat
  BY <1>3, FS_AddElement, FS_RemoveElement, FS_CardinalityType
<1>5. CASE x.pc \in {"replaying", "add"}
  BY <1>2, <1>3, <1>4, <1>5, FS_AddElement
<1>6. CASE x.pc \notin {"replaying", "add"}
  BY <1>2, <1>3, <1>4, <1>6, FS_RemoveElement
<1> QED BY <1>2, <1>3, <1>5, <1>6

\* What a step of worker k makes of WorkInv, in the parts that are about workers.
LEMMA WorkersKept ==
  ASSUME TypeOK, WorkInv, NEW k \in Worker, NEW x \in WorkerState, w' = [w EXCEPT ![k] = x],
         x.pc # "idle" => x.rec \in Record,
         \A j \in Worker \ {k} : mu' = j <=> mu = j,
         x.pc = "casting" <=> mu' = k
  PROVE  \A j \in Worker : /\ w'[j].pc # "idle" => w'[j].rec \in Record
                           /\ w'[j].pc = "casting" <=> mu' = j
<1>1. \A j \in Worker : w'[j] = IF j = k THEN x ELSE w[j]
  BY DEF TypeOK
<1>2. w'[k] = x /\ \A j \in Worker \ {k} : w'[j] = w[j]
  BY <1>1
<1> QED BY <1>2 DEF WorkInv

\* Every action keeps the types and WorkInv.
LEMMA TypeStep == TypeOK /\ WorkInv /\ [Next]_vars => TypeOK' /\ WorkInv'
<1> SUFFICES ASSUME TypeOK, WorkInv, [Next]_vars
             PROVE  TypeOK' /\ WorkInv'
  OBVIOUS
<1> USE Basics
<1>0. \A k \in Worker : w[k] \in WorkerState
  BY DEF TypeOK
<1>1. ASSUME NEW k \in Worker, AssignID(k)
      PROVE  TypeOK' /\ WorkInv'
  <2> DEFINE x == [pc |-> "store", ask |-> w[k].ask,
                   rec |-> [id |-> seq + 1, req |-> w[k].rec.req, replayed |-> w[k].rec.replayed]]
  <2>1. w' = [w EXCEPT ![k] = x] /\ w[k].rec \in Record /\ w[k].pc = "add" /\ k \in Pending
    BY <1>1, AssignedType DEF AssignID, Pending
  <2>2. IsFiniteSet(Pending) /\ Cardinality(Pending) \in Nat \ {0}
    BY <2>1, FS_CardinalityType, FS_EmptySet DEF WorkInv
  <2>3. seq \in Nat /\ seq + 1 <= MaxRecords
    <3>1. seq + Cardinality(Pending) <= MaxRecords /\ seq \in Nat
      BY DEF TypeOK, WorkInv
    <3> QED BY <2>2, <3>1
  <2>4. x.rec \in Record /\ x \in WorkerState
    BY <1>0, <2>1, <2>3 DEF Record, WorkerState
  <2>5. Cardinality(Pending)' = Cardinality(Pending) - 1 /\ IsFiniteSet(Pending)'
    BY <2>1, <2>4, PendingStep
  <2>6. seq' = seq + 1 /\ UNCHANGED <<buf, head, n, hubVars, tabVars>>
    BY <1>1 DEF AssignID
  <2>7. TypeOK'
    BY <2>1, <2>3, <2>4, <2>6, WorkerType DEF TypeOK, hubVars, tabVars
  <2>8. seq' + Cardinality(Pending)' <= MaxRecords
    <3>1. seq + Cardinality(Pending) <= MaxRecords
      BY DEF WorkInv
    <3> QED BY <2>2, <2>3, <2>5, <2>6, <3>1
  <2>9. \A j \in Worker : /\ w'[j].pc # "idle" => w'[j].rec \in Record
                          /\ w'[j].pc = "casting" <=> mu' = j
    <3>1. x.pc = "casting" <=> mu' = k
      BY <2>1, <2>6 DEF WorkInv, hubVars
    <3> QED BY <2>1, <2>4, <2>6, <3>1, WorkersKept DEF hubVars
  <2> QED BY <2>5, <2>6, <2>7, <2>8, <2>9 DEF WorkInv, hubVars
<1>2. ASSUME NEW k \in Worker, NEW c, NEW d,
             /\ w[k].pc = c /\ w' = [w EXCEPT ![k].pc = d]
             /\ <<c, d>> \in {<<"store", "cast">>, <<"replaying", "add">>}
             /\ UNCHANGED <<seq, hubVars>>
      PROVE  /\ w' \in [Worker -> WorkerState] /\ WorkInv'
  <2> DEFINE x == [pc |-> d, rec |-> w[k].rec, ask |-> w[k].ask]
  <2>1. /\ w' = [w EXCEPT ![k] = x] /\ w[k].rec \in Record
        /\ c \notin {"casting", "idle"} /\ d \notin {"casting", "idle"}
        /\ c \in {"replaying", "add"} <=> d \in {"replaying", "add"}
    BY <1>2, GotoType DEF WorkInv
  <2>2. x \in WorkerState
    BY <1>0, <1>2 DEF WorkerState
  <2>3. w' \in [Worker -> WorkerState]
    BY <2>1, <2>2, WorkerType
  <2>4. \A j \in Worker : /\ w'[j].pc # "idle" => w'[j].rec \in Record
                          /\ w'[j].pc = "casting" <=> mu' = j
    <3>1. x.pc = "casting" <=> mu' = k
      BY <1>2, <2>1 DEF WorkInv, hubVars
    <3> QED BY <1>2, <2>1, <2>2, <3>1, WorkersKept DEF hubVars
  <2>5. Pending' = Pending
    BY <1>2, <2>1, <2>2, PendingStep DEF Pending
  <2> QED BY <1>2, <2>3, <2>4, <2>5 DEF WorkInv, hubVars
<1>3. ASSUME NEW k \in Worker, Store(k)
      PROVE  TypeOK' /\ WorkInv'
  <2>1. w' \in [Worker -> WorkerState] /\ WorkInv'
    BY <1>2, <1>3 DEF Store
  <2>2. w[k].rec \in Record
    BY <1>3 DEF Store, WorkInv
  <2>3. buf' \in [0 .. Cap - 1 -> Record \cup {Nil}]
    BY <1>3, <2>2 DEF Store, TypeOK
  <2>4. n' \in 0 .. Cap
    BY <1>3 DEF Store, TypeOK
  <2>5. head' \in 0 .. Cap - 1
    BY <1>3 DEF Store, TypeOK
  <2> QED BY <1>3, <2>1, <2>3, <2>4, <2>5 DEF Store, TypeOK, hubVars, tabVars
<1>4. ASSUME NEW k \in Worker, ReplayDone(k)
      PROVE  TypeOK' /\ WorkInv'
  <2>1. w' \in [Worker -> WorkerState] /\ WorkInv'
    BY <1>2, <1>4 DEF ReplayDone, storeVars
  <2> QED BY <1>4, <2>1 DEF ReplayDone, TypeOK, storeVars, hubVars, tabVars
<1>5. ASSUME NEW k \in Worker, NEW x \in WorkerState, w[k].pc = "idle", Room,
             w' = [w EXCEPT ![k] = x], x.pc \in {"replaying", "add"}, x.rec \in Record,
             UNCHANGED <<storeVars, hubVars, tabVars>>
      PROVE  TypeOK' /\ WorkInv'
  <2>1. w' \in [Worker -> WorkerState]
    BY <1>5, WorkerType
  <2>2. k \notin Pending
    BY <1>5 DEF Pending
  <2>3. /\ Cardinality(Pending)' = Cardinality(Pending) + 1 /\ IsFiniteSet(Pending)'
        /\ Cardinality(Pending) \in Nat
    BY <1>5, <2>2, PendingStep
  <2>4. seq' + Cardinality(Pending)' <= MaxRecords
    <3>1. seq + Cardinality(Pending) < MaxRecords /\ seq \in Nat /\ seq' = seq
      BY <1>5 DEF Room, TypeOK, storeVars
    <3> QED BY <2>3, <3>1
  <2>5. \A j \in Worker : /\ w'[j].pc # "idle" => w'[j].rec \in Record
                          /\ w'[j].pc = "casting" <=> mu' = j
    <3>1. x.pc = "casting" <=> mu' = k
      BY <1>5 DEF WorkInv, hubVars
    <3> QED BY <1>5, <3>1, WorkersKept DEF hubVars
  <2> QED BY <1>5, <2>1, <2>3, <2>4, <2>5 DEF TypeOK, WorkInv, storeVars, hubVars, tabVars
<1>6. ASSUME NEW k \in Worker, NEW q \in Request, Capture(k, q)
      PROVE  TypeOK' /\ WorkInv'
  <2> DEFINE x == [pc |-> "add", ask |-> NoAsk, rec |-> [id |-> 0, req |-> q, replayed |-> FALSE]]
  <2>1. x \in WorkerState /\ x.rec \in Record
    BY DEF WorkerState, Record
  <2> QED BY <1>5, <1>6, <2>1 DEF Capture
<1>7. ASSUME NEW k \in Worker, NEW r \in Shown, AskReplay(k, r)
      PROVE  TypeOK' /\ WorkInv'
  <2> DEFINE x == [pc |-> "replaying", ask |-> [shown |-> r, sent |-> Replay(Get(r.id))],
                   rec |-> [id |-> 0, req |-> Get(r.id).req, replayed |-> TRUE]]
  <2>1. Get(r.id) \in Record
    <3>1. Get(r.id) # Nil
      BY <1>7 DEF AskReplay
    <3>2. PICK i \in 0 .. Cap - 1 : Get(r.id) = buf[i]
      BY <3>1, GetFinds
    <3> QED BY <3>1, <3>2 DEF TypeOK
  <2>2. r \in Record
    <3>1. PICK t \in Tab : r \in ToSet(feed[t])
      BY DEF Shown
    <3>2. feed[t] \in Seq(Record)
      BY DEF TypeOK
    <3> QED BY <3>1, <3>2 DEF ToSet
  <2>3. Replay(Get(r.id)) \in Sent
    <3>1. Get(r.id).req \in Request
      BY <2>1
    <3> QED BY <3>1 DEF Replay, Sent
  <2>4. x.ask \in Ask /\ x.rec \in Record
    <3>1. x.rec \in Record
      BY <2>1 DEF Record
    <3> QED BY <2>2, <2>3, <3>1 DEF Ask
  <2>5. x \in WorkerState
    BY <2>4 DEF WorkerState
  <2> QED BY <1>5, <1>7, <2>4, <2>5 DEF AskReplay
<1>8. ASSUME NEW k \in Worker, CastBegin(k)
      PROVE  TypeOK' /\ WorkInv'
  <2> DEFINE x == [pc |-> "casting", rec |-> w[k].rec, ask |-> w[k].ask]
  <2>1. /\ w' = [w EXCEPT ![k] = x] /\ w[k].rec \in Record /\ w[k].pc = "cast"
        /\ mu = None /\ mu' = k /\ todo' = conns /\ dead' = {}
        /\ UNCHANGED <<storeVars, conns, tab, slow, feed>>
    BY <1>8, GotoType DEF CastBegin, WorkInv
  <2>2. x \in WorkerState /\ x.pc = "casting" /\ x.rec \in Record
    BY <1>0, <2>1 DEF WorkerState
  <2>3. due' \in [Tab -> Seq(Record)]
    <3>1. \A t \in Tab : due[t] \in Seq(Record) /\ Append(due[t], w[k].rec) \in Seq(Record)
      BY <2>1 DEF TypeOK
    <3> QED BY <1>8, <3>1 DEF CastBegin
  <2>4. TypeOK'
    BY <2>1, <2>2, <2>3, WorkerType DEF TypeOK, storeVars
  <2>5. \A j \in Worker : /\ w'[j].pc # "idle" => w'[j].rec \in Record
                          /\ w'[j].pc = "casting" <=> mu' = j
    BY <2>1, <2>2, WorkersKept
  <2>6. Pending' = Pending
    BY <2>1, <2>2, PendingStep DEF Pending
  <2> QED BY <2>1, <2>4, <2>5, <2>6 DEF WorkInv, storeVars
<1>9. ASSUME NEW k \in Worker, CastEnd(k)
      PROVE  TypeOK' /\ WorkInv'
  <2>1. /\ w' = [w EXCEPT ![k] = Idle] /\ w[k].pc = "casting" /\ mu = k /\ mu' = None
        /\ todo = {} /\ todo' = {} /\ dead' = {} /\ conns' = conns \ dead
        /\ tab' \in [Tab -> {"off", "upgraded", "reading", "leaving"}]
        /\ UNCHANGED <<storeVars, slow, feed, due>>
    BY <1>9 DEF CastEnd, TypeOK
  <2>2. Idle \in WorkerState /\ Idle.pc = "idle"
    BY DEF Idle, WorkerState
  <2>3. TypeOK'
    BY <2>1, <2>2, WorkerType DEF TypeOK, storeVars
  <2>4. \A j \in Worker : /\ w'[j].pc # "idle" => w'[j].rec \in Record
                          /\ w'[j].pc = "casting" <=> mu' = j
    BY <2>1, <2>2, WorkersKept
  <2>5. Pending' = Pending
    BY <2>1, <2>2, PendingStep DEF Pending
  <2> QED BY <2>1, <2>3, <2>4, <2>5 DEF WorkInv, storeVars
<1>10. ASSUME NEW t \in Tab, CastWrite(t), mu \in Worker
       PROVE  TypeOK' /\ WorkInv'
  <2>1. w[mu].rec \in Record
    BY <1>10 DEF WorkInv
  <2>2. /\ t \in todo /\ todo' = todo \ {t} /\ UNCHANGED <<storeVars, w, conns, mu, tab, slow, due>>
        /\ dead' = dead \/ dead' = dead \cup {t}
        /\ feed' = feed \/ feed' = [feed EXCEPT ![t] = Append(feed[t], w[mu].rec)]
    BY <1>10 DEF CastWrite
  <2>3. feed' \in [Tab -> Seq(Record)]
    <3>1. feed[t] \in Seq(Record) /\ Append(feed[t], w[mu].rec) \in Seq(Record)
      BY <2>1 DEF TypeOK
    <3> QED BY <2>2, <3>1 DEF TypeOK
  <2>4. TypeOK'
    BY <2>2, <2>3 DEF TypeOK, storeVars
  <2> QED BY <1>10, <2>2, <2>4 DEF WorkInv, Pending, storeVars
<1>11. ASSUME NEW t \in Tab, Upgrade(t) \/ TabLeaves(t) \/ TabStalls(t)
       PROVE  TypeOK' /\ WorkInv'
  <2>1. /\ tab' \in [Tab -> {"off", "upgraded", "reading", "leaving"}] /\ slow' \subseteq Tab
        /\ UNCHANGED <<storeVars, w, hubVars, feed, due>>
    BY <1>11 DEF Upgrade, TabLeaves, TabStalls, TypeOK
  <2> QED BY <2>1 DEF TypeOK, WorkInv, Pending, storeVars, hubVars
<1>12. ASSUME NEW t \in Tab, Register(t)
       PROVE  TypeOK' /\ WorkInv'
  <2>1. /\ tab' \in [Tab -> {"off", "upgraded", "reading", "leaving"}]
        /\ conns' = conns \cup {t} /\ UNCHANGED <<storeVars, w, mu, todo, dead, slow, feed, due>>
    BY <1>12 DEF Register, TypeOK
  <2> QED BY <2>1 DEF TypeOK, WorkInv, Pending, storeVars
<1>13. ASSUME NEW t \in Tab, Unregister(t)
       PROVE  TypeOK' /\ WorkInv'
  <2>1. /\ tab' \in [Tab -> {"off", "upgraded", "reading", "leaving"}] /\ slow' \subseteq Tab
        /\ conns' = conns \ {t} /\ mu = None /\ UNCHANGED <<storeVars, w, mu, todo, dead>>
    BY <1>13 DEF Unregister, TypeOK
  <2>2. feed' \in [Tab -> Seq(Record)] /\ due' \in [Tab -> Seq(Record)]
    <3>1. <<>> \in Seq(Record)
      OBVIOUS
    <3> QED BY <1>13, <3>1 DEF Unregister, TypeOK
  <2>3. todo = {} /\ dead = {}
    BY <2>1 DEF WorkInv
  <2> QED BY <2>1, <2>2, <2>3 DEF TypeOK, WorkInv, Pending, storeVars
<1>14. CASE Clear
  <2>1. /\ buf' \in [0 .. Cap - 1 -> Record \cup {Nil}] /\ head' = 0 /\ n' = 0
        /\ UNCHANGED <<seq, w, hubVars, tabVars>>
    BY <1>14 DEF Clear
  <2> QED BY <2>1 DEF TypeOK, WorkInv, Pending, hubVars, tabVars
<1>15. CASE UNCHANGED vars
  BY <1>15 DEF TypeOK, WorkInv, Pending, vars, storeVars, hubVars, tabVars
<1> QED BY <1>1, <1>3, <1>4, <1>6, <1>7, <1>8, <1>9, <1>10, <1>11, <1>12, <1>13, <1>14, <1>15,
           NextCases

\* Nothing is captured, shown or under way at the start.
LEMMA TypeStart == Init => TypeOK /\ WorkInv
<1> SUFFICES ASSUME Init
             PROVE  TypeOK /\ WorkInv
  OBVIOUS
<1>1. Idle \in WorkerState /\ Idle.pc = "idle"
  BY DEF Idle, WorkerState
<1>2. \A k \in Worker : w[k] = Idle
  BY DEF Init
<1>3. Pending = {}
  BY <1>1, <1>2 DEF Pending
<1>4. IsFiniteSet(Pending) /\ seq + Cardinality(Pending) <= MaxRecords
  BY <1>3, FS_EmptySet, Basics DEF Init
<1>5. TypeOK
  BY <1>1, Basics DEF Init, TypeOK
<1>6. \A k \in Worker : w[k].pc = "idle" /\ mu # k
  BY <1>1, <1>2, Basics DEF Init
<1> QED BY <1>4, <1>5, <1>6 DEF Init, WorkInv

\* Every reachable state of the inspector has the types TypeOK gives: head and n stay
\* within the ring, a broadcast reaches registered tabs only, and what the tabs were
\* shown are records.
THEOREM TypeCorrect == Spec => []TypeOK
BY TypeStart, TypeStep, PTL DEF Spec

-----------------------------------------------------------------------------
(* The feed of a tab.                                                      *)

\* A tab that is not registered yet has got nothing and missed nothing, one that
\* the broadcast has still to write to lacks the record it is about, and one it
\* could not write to is not written to again.
FeedInv ==
  /\ todo \cap dead = {}
  /\ \A t \in Tab : tab[t] \in {"off", "upgraded"} =>
       t \notin conns /\ feed[t] = <<>> /\ due[t] = <<>>
  /\ \A t \in todo : due[t] = Append(feed[t], w[mu].rec)
  /\ \A t \in conns \ (todo \cup dead) : feed[t] = due[t]

\* All but the last of a sequence that was appended to.
LEMMA FrontOfAppend ==
  ASSUME NEW S, NEW s \in Seq(S), NEW x \in S
  PROVE  Front(Append(s, x)) = s
<1>1. Append(s, x) \in Seq(S) /\ Len(Append(s, x)) = Len(s) + 1 /\ Len(s) \in Nat
  OBVIOUS
<1>2. Front(Append(s, x)) = SubSeq(Append(s, x), 1, Len(s))
  BY <1>1 DEF Front
<1> QED BY <1>1, <1>2

\* Steps that leave the Hub, the tabs' feeds and the broadcast record alone.
LEMMA FeedUntouched ==
  ASSUME TypeOK, WorkInv, FeedInv, UNCHANGED <<hubVars, feed, due>>,
         \A k \in Worker : w[k].pc = "casting" => w'[k].rec = w[k].rec,
         \A t \in Tab : tab'[t] \in {"off", "upgraded"} => tab[t] \in {"off", "upgraded"}
  PROVE  FeedInv'
<1>1. ASSUME todo # {}
      PROVE  w'[mu].rec = w[mu].rec
  BY <1>1 DEF TypeOK, WorkInv
<1>2. /\ todo' = todo /\ dead' = dead /\ conns' = conns /\ mu' = mu /\ feed' = feed /\ due' = due
  BY DEF hubVars
<1> QED BY <1>1, <1>2 DEF FeedInv

\* Every action keeps FeedInv.
LEMMA FeedStep == TypeOK /\ WorkInv /\ FeedInv /\ [Next]_vars => FeedInv'
<1> SUFFICES ASSUME TypeOK, WorkInv, FeedInv, [Next]_vars
             PROVE  FeedInv'
  OBVIOUS
<1>0. /\ todo \subseteq conns /\ dead \subseteq conns /\ conns \subseteq Tab
      /\ \A t \in Tab : feed[t] \in Seq(Record) /\ due[t] \in Seq(Record)
  BY DEF TypeOK
<1>1. ASSUME NEW k \in Worker, w[k].pc # "casting", NEW x, w' = [w EXCEPT ![k] = x],
             UNCHANGED <<hubVars, tabVars>>
      PROVE  FeedInv'
  <2>1. \A j \in Worker \ {k} : w'[j] = w[j]
    BY <1>1 DEF TypeOK
  <2>2. \A j \in Worker : w[j].pc = "casting" => w'[j].rec = w[j].rec
    BY <1>1, <2>1
  <2> QED BY <1>1, <2>2, FeedUntouched DEF tabVars
<1>2. ASSUME NEW k \in Worker, AssignID(k)
      PROVE  FeedInv'
  BY <1>1, <1>2, AssignedType DEF AssignID
<1>3. ASSUME NEW k \in Worker, Store(k) \/ ReplayDone(k)
      PROVE  FeedInv'
  <2>1. \E x : w' = [w EXCEPT ![k] = x]
    BY <1>3, GotoType DEF Store, ReplayDone
  <2> QED BY <1>1, <1>3, <2>1 DEF Store, ReplayDone
<1>4. ASSUME NEW k \in Worker, NEW q, Capture(k, q)
      PROVE  FeedInv'
  BY <1>1, <1>4 DEF Capture
<1>5. ASSUME NEW k \in Worker, NEW r, AskReplay(k, r)
      PROVE  FeedInv'
  BY <1>1, <1>5 DEF AskReplay
<1>6. ASSUME NEW k \in Worker, CastBegin(k)
      PROVE  FeedInv'
  <2>1. /\ mu = None /\ mu' = k /\ todo' = conns /\ dead' = {} /\ todo = {} /\ dead = {}
        /\ UNCHANGED <<conns, tab, feed>>
    BY <1>6 DEF CastBegin, WorkInv
  <2>2. w'[k].rec = w[k].rec
    BY <1>6, GotoType DEF CastBegin, TypeOK
  <2>3. \A t \in Tab : due'[t] = IF t \in conns THEN Append(due[t], w[k].rec) ELSE due[t]
    BY <1>6 DEF CastBegin
  <2>4. \A t \in conns : feed[t] = due[t]
    BY <2>1 DEF FeedInv
  <2> QED BY <1>0, <2>1, <2>2, <2>3, <2>4 DEF FeedInv
<1>7. ASSUME NEW k \in Worker, CastEnd(k)
      PROVE  FeedInv'
  <2>1. /\ todo = {} /\ todo' = {} /\ dead' = {} /\ conns' = conns \ dead
        /\ UNCHANGED <<feed, due>>
        /\ \A t \in Tab : tab'[t] = IF t \in dead THEN "leaving" ELSE tab[t]
    BY <1>7 DEF CastEnd
  <2> QED BY <2>1 DEF FeedInv
<1>8. ASSUME NEW t \in Tab, CastWrite(t)
      PROVE  FeedInv'
  <2>1. /\ t \in todo /\ todo' = todo \ {t} /\ UNCHANGED <<w, conns, mu, tab, due>>
    BY <1>8 DEF CastWrite
  <2>2. CASE feed' = [feed EXCEPT ![t] = Append(feed[t], w[mu].rec)] /\ dead' = dead
    <3>1. \A u \in Tab : feed'[u] = IF u = t THEN Append(feed[t], w[mu].rec) ELSE feed[u]
      BY <2>2 DEF TypeOK
    <3>2. /\ todo' \cap dead' = {} /\ feed'[t] = due[t]
          /\ \A u \in Tab \ {t} : feed'[u] = feed[u]
      BY <2>1, <2>2, <3>1 DEF FeedInv
    <3>3. t \in conns /\ tab[t] \notin {"off", "upgraded"}
      BY <1>0, <2>1 DEF FeedInv
    <3> QED BY <1>0, <2>1, <2>2, <3>2, <3>3 DEF FeedInv
  <2>3. CASE feed' = feed /\ dead' = dead \cup {t}
    BY <1>0, <2>1, <2>3 DEF FeedInv
  <2> QED BY <1>8, <2>2, <2>3 DEF CastWrite
<1>9. ASSUME NEW t \in Tab, Upgrade(t) \/ TabLeaves(t) \/ TabStalls(t)
      PROVE  FeedInv'
  <2>1. /\ UNCHANGED <<w, hubVars, feed, due>>
        /\ \A u \in Tab : tab'[u] \in {"off", "upgraded"} => tab[u] \in {"off", "upgraded"}
    BY <1>9 DEF Upgrade, TabLeaves, TabStalls, TypeOK
  <2> QED BY <2>1, FeedUntouched
<1>10. ASSUME NEW t \in Tab, Register(t)
       PROVE  FeedInv'
  <2>1. /\ conns' = conns \cup {t} /\ UNCHANGED <<w, mu, todo, dead, feed, due>>
        /\ tab[t] = "upgraded" /\ \A u \in Tab : tab'[u] = IF u = t THEN "reading" ELSE tab[u]
    BY <1>10 DEF Register, TypeOK
  <2>2. feed[t] = <<>> /\ due[t] = <<>>
    BY <2>1 DEF FeedInv
  <2> QED BY <1>0, <2>1, <2>2 DEF FeedInv
<1>11. ASSUME NEW t \in Tab, Unregister(t)
       PROVE  FeedInv'
  <2>1. /\ conns' = conns \ {t} /\ mu = None /\ UNCHANGED <<w, mu, todo, dead>>
        /\ \A u \in Tab : /\ tab'[u] = IF u = t THEN "off" ELSE tab[u]
                          /\ feed'[u] = IF u = t THEN <<>> ELSE feed[u]
                          /\ due'[u] = IF u = t THEN <<>> ELSE due[u]
    BY <1>11 DEF Unregister, TypeOK
  <2>2. todo = {} /\ dead = {}
    BY <2>1 DEF WorkInv
  <2> QED BY <1>0, <2>1, <2>2 DEF FeedInv
<1>12. CASE Clear
  BY <1>12, FeedUntouched DEF Clear, tabVars
<1>13. CASE UNCHANGED vars
  BY <1>13, FeedUntouched DEF vars, tabVars
<1> QED BY <1>2, <1>3, <1>4, <1>5, <1>6, <1>7, <1>8, <1>9, <1>10, <1>11, <1>12, <1>13, NextCases

\* A registered tab has missed no record that was broadcast since it was registered,
\* whatever tabs stall, leave and come in the middle of a broadcast.
THEOREM FeedsAreComplete == Spec => []FeedHasNoGaps
<1>1. Init => FeedInv
  BY DEF Init, FeedInv
<1>2. TypeOK /\ WorkInv /\ FeedInv => FeedHasNoGaps
  <2> SUFFICES ASSUME TypeOK, WorkInv, FeedInv, NEW t \in conns \ dead
               PROVE  feed[t] = IF t \in todo THEN Front(due[t]) ELSE due[t]
    BY DEF FeedHasNoGaps
  <2>1. CASE t \in todo
    <3>1. w[mu].rec \in Record /\ feed[t] \in Seq(Record) /\ due[t] = Append(feed[t], w[mu].rec)
      BY <2>1 DEF TypeOK, WorkInv, FeedInv
    <3> QED BY <2>1, <3>1, FrontOfAppend
  <2> QED BY <2>1 DEF FeedInv
<1> QED BY <1>1, <1>2, TypeStart, TypeStep, FeedStep, PTL DEF Spec

-----------------------------------------------------------------------------
(* IDs and replays.                                                        *)

\* The records that have an ID: in the ring, in a feed or with a worker.
Known ==
  ({buf[i] : i \in 0 .. Cap - 1} \ {Nil}) \cup Shown
    \cup {w[k].rec : k \in {j \in Worker : w[j].pc \in {"store", "cast", "casting"}}}

\* An ID was handed out once: wherever it turns up, it stands for the same record.
NameInv ==
  /\ \A r \in Known : r \in Record /\ r.id \in 1 .. seq
  /\ \A r, s \in Known : r.id = s.id => r = s

\* What it takes to be a known record.
LEMMA KnownRecord ==
  ASSUME NEW r
  PROVE  r \in Known <=> \/ r # Nil /\ \E i \in 0 .. Cap - 1 : r = buf[i]
                         \/ \E t \in Tab : r \in ToSet(feed[t])
                         \/ \E k \in Worker : /\ w[k].pc \in {"store", "cast", "casting"}
                                              /\ r = w[k].rec
BY DEF Known, Shown

\* A step that hands out no ID keeps the names, since it only moves records about.
LEMMA NamesKept ==
  ASSUME NameInv, seq' = seq, Known' \subseteq Known
  PROVE  NameInv'
BY DEF NameInv

\* A worker's step makes no other record known than its own.
LEMMA KnownStep ==
  ASSUME TypeOK, NEW k \in Worker, NEW x, w' = [w EXCEPT ![k] = x], UNCHANGED <<buf, feed>>,
         NEW r \in Known'
  PROVE  r \in Known \/ (x.pc \in {"store", "cast", "casting"} /\ r = x.rec)
<1>1. w'[k] = x /\ \A j \in Worker \ {k} : w'[j] = w[j]
  BY DEF TypeOK
<1>2. \/ r # Nil /\ \E i \in 0 .. Cap - 1 : r = buf'[i]
      \/ \E t \in Tab : r \in ToSet(feed'[t])
      \/ \E j \in Worker : w'[j].pc \in {"store", "cast", "casting"} /\ r = w'[j].rec
  BY DEF Known, Shown
<1>3. CASE r # Nil /\ \E i \in 0 .. Cap - 1 : r = buf'[i]
  BY <1>3 DEF Known
<1>4. CASE \E t \in Tab : r \in ToSet(feed'[t])
  BY <1>4 DEF Known, Shown
<1>5. ASSUME NEW j \in Worker, w'[j].pc \in {"store", "cast", "casting"}, r = w'[j].rec
      PROVE  r \in Known \/ (x.pc \in {"store", "cast", "casting"} /\ r = x.rec)
  <2>1. CASE j = k
    BY <1>1, <1>5, <2>1
  <2>2. CASE j # k
    <3>1. w[j].pc \in {"store", "cast", "casting"} /\ r = w[j].rec
      BY <1>1, <1>5, <2>2
    <3> QED BY <3>1 DEF Known
  <2> QED BY <2>1, <2>2
<1> QED BY <1>2, <1>3, <1>4, <1>5

\* The elements of a sequence that was appended to.
LEMMA ElementsOfAppend ==
  ASSUME NEW S, NEW s \in Seq(S), NEW x \in S
  PROVE  ToSet(Append(s, x)) = ToSet(s) \cup {x}
<1>1. Append(s, x) \in Seq(S) /\ Len(Append(s, x)) = Len(s) + 1 /\ Len(s) \in Nat
  OBVIOUS
<1>2. \A i \in 1 .. Len(s) + 1 : Append(s, x)[i] = IF i = Len(s) + 1 THEN x ELSE s[i]
  OBVIOUS
<1> QED BY <1>1, <1>2 DEF ToSet

\* What a worker that replays sends and records, against what the tab shows.
Repeats(x) ==
  /\ {x.ask.sent.req, x.rec.req} = {x.ask.shown.req}
  /\ x.ask.sent.path = "captured" \/ x.ask.shown.req \in Escaped
  /\ x.ask.sent.headers \/ x.ask.shown.replayed

\* Every action keeps NameInv, and a replay asks for what is shown.
LEMMA NameStep ==
  TypeOK /\ WorkInv /\ NameInv /\ ReplaySendsWhatIsShown /\ [Next]_vars
    => NameInv' /\ ReplaySendsWhatIsShown'
<1> SUFFICES ASSUME TypeOK, WorkInv, NameInv, ReplaySendsWhatIsShown, [Next]_vars
             PROVE  NameInv' /\ ReplaySendsWhatIsShown'
  OBVIOUS
<1>1. ASSUME NEW k \in Worker, NEW x, w' = [w EXCEPT ![k] = x],
             x.pc = "replaying" => Repeats(x)
      PROVE  ReplaySendsWhatIsShown'
  <2>1. w'[k] = x /\ \A j \in Worker \ {k} : w'[j] = w[j]
    BY <1>1 DEF TypeOK
  <2>2. \A j \in Worker : w[j].pc = "replaying" => Repeats(w[j])
    BY DEF ReplaySendsWhatIsShown, Repeats
  <2>3. \A j \in Worker : w'[j].pc = "replaying" => Repeats(w'[j])
    BY <1>1, <2>1, <2>2
  <2> QED BY <2>3 DEF ReplaySendsWhatIsShown, Repeats
<1>2. ASSUME NEW k \in Worker, NEW x, w' = [w EXCEPT ![k] = x],
             x.pc \in {"store", "cast", "casting"} => x.rec \in Known,
             UNCHANGED <<seq, buf, feed>>
      PROVE  NameInv'
  <2>1. Known' \subseteq Known
    BY <1>2, KnownStep
  <2> QED BY <1>2, <2>1, NamesKept
<1>3. ASSUME w' = w, seq' = seq, Known' \subseteq Known
      PROVE  NameInv' /\ ReplaySendsWhatIsShown'
  BY <1>3, NamesKept DEF ReplaySendsWhatIsShown
<1>4. ASSUME NEW k \in Worker, AssignID(k)
      PROVE  NameInv' /\ ReplaySendsWhatIsShown'
  <2> DEFINE r == [id |-> seq + 1, req |-> w[k].rec.req, replayed |-> w[k].rec.replayed]
             x == [pc |-> "store", ask |-> w[k].ask, rec |-> r]
  <2>1. w' = [w EXCEPT ![k] = x] /\ w[k].rec \in Record /\ seq' = seq + 1 /\ UNCHANGED <<buf, feed>>
    BY <1>4, AssignedType DEF AssignID, tabVars
  <2>2. ReplaySendsWhatIsShown'
    BY <1>1, <2>1
  <2>3. TypeOK'
    BY TypeStep
  <2>4. seq \in Nat /\ r \in Record
    BY <2>1, <2>3, Basics DEF TypeOK, Record
  <2>5. \A s \in Known' : s \in Known \/ s = r
    <3>1. x.rec = r
      OBVIOUS
    <3> HIDE DEF x, r
    <3> QED BY <2>1, <3>1, KnownStep
  <2>6. \A s \in Known : s \in Record /\ s.id \in 1 .. seq
    BY DEF NameInv
  <2>7. \A s \in Known' : s \in Record /\ s.id \in 1 .. seq'
    BY <2>1, <2>4, <2>5, <2>6
  <2>8. \A s \in Known : s.id # r.id
    BY <2>4, <2>6
  <2>9. ASSUME NEW s \in Known', NEW u \in Known', s.id = u.id
        PROVE  s = u
    BY <2>5, <2>8, <2>9 DEF NameInv
  <2> QED BY <2>2, <2>7, <2>9 DEF NameInv
<1>5. ASSUME NEW k \in Worker, NEW c \in {"add", "cast", "casting"}, w' = [w EXCEPT ![k].pc = c]
      PROVE  ReplaySendsWhatIsShown'
  <2> DEFINE x == [pc |-> c, rec |-> w[k].rec, ask |-> w[k].ask]
  <2>1. w' = [w EXCEPT ![k] = x] /\ x.pc # "replaying"
    BY <1>5, GotoType
  <2> QED BY <1>1, <2>1
<1>6. ASSUME NEW k \in Worker, Store(k)
      PROVE  NameInv' /\ ReplaySendsWhatIsShown'
  <2>1. ReplaySendsWhatIsShown'
    BY <1>5, <1>6 DEF Store
  <2>2. w[k].rec \in Known /\ w[k].pc = "store"
    BY <1>6, KnownRecord DEF Store
  <2>3. /\ w'[k].rec = w[k].rec /\ \A j \in Worker \ {k} : w'[j] = w[j]
        /\ feed' = feed /\ seq' = seq
        /\ \A i \in 0 .. Cap - 1 : buf'[i] = IF i = head THEN w[k].rec ELSE buf[i]
    BY <1>6, GotoType DEF Store, TypeOK, tabVars
  <2>4. ASSUME NEW r \in Known'
        PROVE  r \in Known
    <3>1. \/ r # Nil /\ \E i \in 0 .. Cap - 1 : r = buf'[i]
          \/ \E t \in Tab : r \in ToSet(feed'[t])
          \/ \E j \in Worker : w'[j].pc \in {"store", "cast", "casting"} /\ r = w'[j].rec
      BY DEF Known, Shown
    <3> QED BY <2>2, <2>3, <3>1, KnownRecord
  <2>5. NameInv'
    BY <2>3, <2>4, NamesKept
  <2> QED BY <2>1, <2>5
<1>7. ASSUME NEW k \in Worker, ReplayDone(k)
      PROVE  NameInv' /\ ReplaySendsWhatIsShown'
  <2> DEFINE x == [pc |-> "add", rec |-> w[k].rec, ask |-> w[k].ask]
  <2>1. w' = [w EXCEPT ![k] = x] /\ UNCHANGED <<seq, buf, feed>>
    BY <1>7, GotoType DEF ReplayDone, storeVars, tabVars
  <2> QED BY <1>1, <1>2, <2>1
<1>8. ASSUME NEW k \in Worker, NEW q, Capture(k, q)
      PROVE  NameInv' /\ ReplaySendsWhatIsShown'
  <2> DEFINE x == [pc |-> "add", ask |-> NoAsk, rec |-> [id |-> 0, req |-> q, replayed |-> FALSE]]
  <2>1. w' = [w EXCEPT ![k] = x] /\ UNCHANGED <<seq, buf, feed>>
    BY <1>8 DEF Capture, storeVars, tabVars
  <2> QED BY <1>1, <1>2, <2>1
<1>9. ASSUME NEW k \in Worker, NEW r \in Shown, AskReplay(k, r)
      PROVE  NameInv' /\ ReplaySendsWhatIsShown'
  <2> DEFINE x == [pc |-> "replaying", ask |-> [shown |-> r, sent |-> Replay(Get(r.id))],
                   rec |-> [id |-> 0, req |-> Get(r.id).req, replayed |-> TRUE]]
  <2>1. w' = [w EXCEPT ![k] = x] /\ UNCHANGED <<seq, buf, feed>> /\ Get(r.id) # Nil
    BY <1>9 DEF AskReplay, storeVars, tabVars
  <2>2. PICK i \in 0 .. Cap - 1 : Get(r.id) = buf[i] /\ buf[i].id = r.id
    BY <2>1, GetFinds
  <2>3. buf[i] \in Known /\ r \in Known
    BY <2>1, <2>2 DEF Known
  <2>4. Get(r.id) = r
    BY <2>2, <2>3 DEF NameInv
  <2>5. Repeats(x)
    <3>1. x.ask.sent = Replay(r) /\ x.ask.shown = r /\ x.rec.req = r.req
      BY <2>4
    <3>2. r.replayed \in BOOLEAN
      BY <2>3, Basics DEF NameInv
    <3>3. /\ Replay(r).req = r.req /\ Replay(r).headers = ~r.replayed
          /\ Replay(r).path = "captured" \/ r.req \in Escaped
      BY DEF Replay
    <3> QED BY <3>1, <3>2, <3>3 DEF Repeats
  <2> HIDE DEF Get
  <2> QED BY <1>1, <1>2, <2>1, <2>5
<1>10. ASSUME NEW k \in Worker, CastBegin(k)
       PROVE  NameInv' /\ ReplaySendsWhatIsShown'
  <2> DEFINE x == [pc |-> "casting", rec |-> w[k].rec, ask |-> w[k].ask]
  <2>1. w' = [w EXCEPT ![k] = x] /\ UNCHANGED <<seq, buf, feed>> /\ w[k].pc = "cast"
    BY <1>10, GotoType DEF CastBegin, storeVars, tabVars
  <2>2. w[k].rec \in Known
    BY <2>1, KnownRecord
  <2> QED BY <1>1, <1>2, <2>1, <2>2
<1>11. ASSUME NEW k \in Worker, CastEnd(k)
       PROVE  NameInv' /\ ReplaySendsWhatIsShown'
  <2>1. w' = [w EXCEPT ![k] = Idle] /\ UNCHANGED <<seq, buf, feed>> /\ Idle.pc = "idle"
    BY <1>11 DEF CastEnd, Idle, storeVars
  <2> QED BY <1>1, <1>2, <2>1
<1>12. ASSUME NEW t \in Tab, CastWrite(t), mu \in Worker
       PROVE  NameInv' /\ ReplaySendsWhatIsShown'
  <2>1. w' = w /\ seq' = seq /\ buf' = buf
    BY <1>12 DEF CastWrite, storeVars
  <2>2. w[mu].rec \in Record /\ w[mu].pc = "casting" /\ w[mu].rec \in Known
    BY <1>12, KnownRecord DEF WorkInv
  <2>3. \A u \in Tab : ToSet(feed'[u]) \subseteq ToSet(feed[u]) \cup {w[mu].rec}
    <3>1. \A u \in Tab : /\ feed'[u] \in {feed[u], Append(feed[u], w[mu].rec)}
                         /\ feed[u] \in Seq(Record)
      BY <1>12 DEF CastWrite, TypeOK
    <3>2. ASSUME NEW u \in Tab
          PROVE  ToSet(Append(feed[u], w[mu].rec)) = ToSet(feed[u]) \cup {w[mu].rec}
      BY <2>2, <3>1, ElementsOfAppend
    <3> QED BY <3>1, <3>2
  <2>4. ASSUME NEW r \in Known'
        PROVE  r \in Known
    <3>1. \/ r # Nil /\ \E i \in 0 .. Cap - 1 : r = buf'[i]
          \/ \E u \in Tab : r \in ToSet(feed'[u])
          \/ \E j \in Worker : w'[j].pc \in {"store", "cast", "casting"} /\ r = w'[j].rec
      BY DEF Known, Shown
    <3> QED BY <2>1, <2>2, <2>3, <3>1, KnownRecord
  <2> QED BY <1>3, <2>1, <2>4
<1>13. ASSUME NEW t \in Tab, Upgrade(t) \/ Register(t) \/ TabLeaves(t) \/ TabStalls(t)
       PROVE  NameInv' /\ ReplaySendsWhatIsShown'
  <2>1. UNCHANGED <<storeVars, w, feed>>
    BY <1>13 DEF Upgrade, Register, TabLeaves, TabStalls
  <2>2. Known' = Known
    BY <2>1 DEF Known, Shown, storeVars
  <2> QED BY <1>3, <2>1, <2>2 DEF storeVars
<1>14. ASSUME NEW t \in Tab, Unregister(t)
       PROVE  NameInv' /\ ReplaySendsWhatIsShown'
  <2>1. UNCHANGED <<storeVars, w>> /\ \A u \in Tab : feed'[u] \in {feed[u], <<>>}
    BY <1>14 DEF Unregister, TypeOK
  <2>2. ToSet(<<>>) = {}
    BY DEF ToSet
  <2>3. \A u \in Tab : ToSet(feed'[u]) \subseteq ToSet(feed[u])
    BY <2>1, <2>2
  <2>4. Known' \subseteq Known
    <3>1. Shown' \subseteq Shown
      BY <2>3 DEF Shown
    <3> QED BY <2>1, <3>1 DEF Known, storeVars
  <2> QED BY <1>3, <2>1, <2>4 DEF storeVars
<1>15. CASE Clear
  <2>1. /\ w' = w /\ seq' = seq /\ feed' = feed /\ \A i \in 0 .. Cap - 1 : buf'[i] = Nil
    BY <1>15 DEF Clear, tabVars
  <2>2. Known' \subseteq Known
    BY <2>1 DEF Known, Shown
  <2> QED BY <1>3, <2>1, <2>2
<1>16. CASE UNCHANGED vars
  <2>1. UNCHANGED <<storeVars, w, feed>>
    BY <1>16 DEF vars, tabVars
  <2>2. Known' = Known
    BY <2>1 DEF Known, Shown, storeVars
  <2> QED BY <1>3, <2>1, <2>2 DEF storeVars
<1> QED BY <1>4, <1>6, <1>7, <1>8, <1>9, <1>10, <1>11, <1>12, <1>13, <1>14, <1>15, <1>16, NextCases

\* A replay sends, and records, the request of the record the tab shows under its ID,
\* changed only where serveReplay and Replay do so (an escaped path, the headers of a
\* replay's own record): the ring may have moved on and been cleared, but what Get
\* finds under an ID is the record shown.
THEOREM ReplaysRepeat == Spec => []ReplaySendsWhatIsShown
<1>1. Init => NameInv /\ ReplaySendsWhatIsShown
  <2> SUFFICES ASSUME Init
               PROVE  NameInv /\ ReplaySendsWhatIsShown
    OBVIOUS
  <2>1. \A k \in Worker : w[k].pc = "idle"
    BY DEF Init, Idle
  <2>2. ToSet(<<>>) = {}
    BY DEF ToSet
  <2>3. \A r : r \notin Known
    BY <2>1, <2>2, KnownRecord DEF Init
  <2> QED BY <2>1, <2>3 DEF NameInv, ReplaySendsWhatIsShown
<1> QED BY <1>1, TypeStart, TypeStep, NameStep, PTL DEF Spec

-----------------------------------------------------------------------------
(* The ring as a bounded log.                                              *)

\* The entries in reverse order.
LEMMA Reversed ==
  ASSUME NEW S, NEW m \in Nat, NEW l \in [1 .. m -> S]
  PROVE  /\ Reverse(l) \in Seq(S) /\ Len(Reverse(l)) = m
         /\ \A i \in 1 .. m : Reverse(l)[i] = l[m - i + 1]
<1>1. l \in Seq(S) /\ Len(l) = m
  OBVIOUS
<1>2. Reverse(l) = [i \in 1 .. m |-> l[m - i + 1]]
  BY <1>1 DEF Reverse
<1>3. \A i \in 1 .. m : l[m - i + 1] \in S
  OBVIOUS
<1>4. ASSUME NEW r, r = [i \in 1 .. m |-> l[m - i + 1]]
      PROVE  r \in Seq(S) /\ Len(r) = m /\ \A i \in 1 .. m : r[i] = l[m - i + 1]
  <2>1. r \in [1 .. m -> S]
    BY <1>3, <1>4
  <2>2. r \in Seq(S) /\ Len(r) = m
    BY <2>1
  <2> QED BY <1>4, <2>2
<1> QED BY <1>2, <1>4

\* The m entries of a ring b of size c, up to a.
LEMMA RingEntries ==
  ASSUME NEW S, NEW c \in Nat \ {0}, NEW b \in [0 .. c - 1 -> S], NEW a \in 0 .. c - 1,
         NEW m \in 0 .. c
  PROVE  [i \in 1 .. m |-> b[(a - i + c) % c]] \in [1 .. m -> S]
<1>1. ASSUME NEW i \in 1 .. m
      PROVE  b[(a - i + c) % c] \in S
  <2>1. i \in 1 .. c
    OBVIOUS
  <2>2. (a - i + c) % c \in 0 .. c - 1
    BY <2>1, AtIndex
  <2> QED BY <2>2
<1> QED BY <1>1

\* The index after a, around the ring, and the indices before it.
LEMMA NextIndex ==
  ASSUME NEW c \in Nat \ {0}, NEW a \in 0 .. c - 1
  PROVE  /\ (a + 1) % c = IF a + 1 = c THEN 0 ELSE a + 1
         /\ (a + 1) % c \in 0 .. c - 1
<1>1. CASE a + 1 = c
  <2>1. c % c = 0
    OBVIOUS
  <2> QED BY <1>1, <2>1
<1>2. CASE a + 1 # c
  <2>1. a + 1 \in 0 .. c - 1
    BY <1>2
  <2>2. (a + 1) % c = a + 1
    BY <2>1
  <2> QED BY <1>2, <2>1, <2>2
<1> QED BY <1>1, <1>2

\* Store puts the record in front of what List had, of which the oldest entry falls
\* out if the ring was full.
LEMMA StoreShifts ==
  ASSUME TypeOK, WorkInv, NEW k \in Worker, Store(k)
  PROVE  /\ n' = IF n < Cap THEN n + 1 ELSE n
         /\ List'[1] = w[k].rec
         /\ \A j \in 2 .. n' : List'[j] = List[j - 1]
<1>0. /\ Cap \in Nat \ {0} /\ head \in 0 .. Cap - 1 /\ n \in 0 .. Cap /\ head \in Nat /\ n \in Nat
      /\ head' = (head + 1) % Cap /\ n' = IF n < Cap THEN n + 1 ELSE n
      /\ \A i \in 0 .. Cap - 1 : buf'[i] = IF i = head THEN w[k].rec ELSE buf[i]
  BY Basics DEF TypeOK, Store
<1>1. TypeOK'
  BY TypeStep DEF Next, WorkerStep
<1>2. /\ head' = IF head + 1 = Cap THEN 0 ELSE head + 1
      /\ head' \in 0 .. Cap - 1
  BY <1>0, NextIndex
<1>3. n' \in 1 .. Cap
  BY <1>0
<1>4. \A i \in 1 .. n' : List'[i] = buf'[(head' - i + Cap) % Cap]
  BY DEF List
<1>5. \A i \in 1 .. n : List[i] = buf[(head - i + Cap) % Cap]
  BY DEF List
<1>6. \A i \in 1 .. Cap :
        /\ (head' - i + Cap) % Cap = IF i <= head' THEN head' - i ELSE head' - i + Cap
        /\ (head - i + Cap) % Cap = IF i <= head THEN head - i ELSE head - i + Cap
  BY <1>0, <1>2, AtIndex
<1>7. List'[1] = w[k].rec
  <2>1. 1 \in 1 .. n' /\ 1 \in 1 .. Cap
    BY <1>0, <1>3
  <2>2. (head' - 1 + Cap) % Cap = head
    BY <1>0, <1>2, <1>6, <2>1
  <2> QED BY <1>0, <1>4, <2>1, <2>2
<1>8. ASSUME NEW j \in 2 .. n'
      PROVE  List'[j] = List[j - 1]
  <2>1. /\ j \in Nat /\ j \in 1 .. n' /\ j \in 1 .. Cap
        /\ j - 1 \in 1 .. n /\ j - 1 \in 1 .. Cap /\ j - 1 < Cap
    BY <1>0, <1>3
  <2>2. PICK i \in 1 .. Cap : i = j - 1 /\ i < Cap /\ j = i + 1
    BY <2>1
  <2>3. (head - i + Cap) % Cap = IF i <= head THEN head - i ELSE head - i + Cap
    BY <1>6
  <2>4. (head' - j + Cap) % Cap = IF j <= head' THEN head' - j ELSE head' - j + Cap
    BY <1>6, <2>1
  <2>5. PICK a \in Int : a = (head - i + Cap) % Cap
    BY <1>0, <2>3
  <2>6. a \in 0 .. Cap - 1 /\ a # head
    BY <1>0, <2>2, <2>3, <2>5
  <2>7. (head' - j + Cap) % Cap = a
    BY <1>0, <1>2, <2>2, <2>3, <2>4, <2>5
  <2> QED BY <1>0, <1>4, <1>5, <2>1, <2>2, <2>5, <2>6, <2>7
<1> QED BY <1>0, <1>7, <1>8

\* Store adds the record to the log.
LEMMA StoreAdds ==
  ASSUME TypeOK, WorkInv, NEW k \in Worker, Store(k)
  PROVE  Log!Add(w[k].rec)
<1> DEFINE L == Reverse(List)
           M == Append(L, w[k].rec)
<1>0. w[k].rec \in Record /\ Cap \in Nat \ {0} /\ n \in 0 .. Cap
  BY Basics DEF WorkInv, Store, TypeOK
<1>1. /\ L \in Seq(Record \cup {Nil}) /\ Len(L) = n /\ n \in Nat
      /\ \A i \in 1 .. n : L[i] = List[n - i + 1]
  <2>1. n \in Nat /\ List \in [1 .. n -> Record \cup {Nil}]
    BY <1>0, RingEntries DEF TypeOK, List
  <2> HIDE DEF List
  <2> QED BY <2>1, Reversed
<1>2. TypeOK'
  BY TypeStep DEF Next, WorkerStep
<1>3. /\ L' \in Seq(Record \cup {Nil}) /\ Len(L') = n' /\ n' \in Nat
      /\ \A i \in 1 .. n' : L'[i] = List'[n' - i + 1]
  <2>1. n' \in Nat /\ List' \in [1 .. n' -> Record \cup {Nil}]
    <3>1. PICK b, a, m : b = buf' /\ a = head' /\ m = n'
      OBVIOUS
    <3>2. /\ b \in [0 .. Cap - 1 -> Record \cup {Nil}] /\ a \in 0 .. Cap - 1 /\ m \in 0 .. Cap
          /\ m \in Nat
      BY <1>2, <3>1 DEF TypeOK
    <3>3. [i \in 1 .. m |-> b[(a - i + Cap) % Cap]] \in [1 .. m -> Record \cup {Nil}]
      BY <1>0, <3>2, RingEntries
    <3>4. List' = [i \in 1 .. m |-> b[(a - i + Cap) % Cap]]
      BY <3>1 DEF List
    <3> QED BY <3>1, <3>2, <3>3, <3>4
  <2>2. PICK l, m : l = List' /\ m = n'
    OBVIOUS
  <2>3. /\ Reverse(l) \in Seq(Record \cup {Nil}) /\ Len(Reverse(l)) = m
        /\ \A i \in 1 .. m : Reverse(l)[i] = l[m - i + 1]
    BY <2>1, <2>2, Reversed
  <2>4. L' = Reverse(l)
    BY <2>2
  <2> HIDE DEF L
  <2> QED BY <2>1, <2>2, <2>3, <2>4
<1>4. /\ n' = IF n < Cap THEN n + 1 ELSE n
      /\ List'[1] = w[k].rec
      /\ \A j \in 2 .. n' : List'[j] = List[j - 1]
  BY StoreShifts
<1> HIDE DEF L
<1>5. M \in Seq(Record \cup {Nil}) /\ Len(M) = n + 1
  BY <1>0, <1>1
<1>6. \A i \in 1 .. n + 1 : M[i] = IF i = n + 1 THEN w[k].rec ELSE L[i]
  BY <1>1
<1> HIDE DEF M
<1>7. L' = Log!Latest(M)
  <2>1. CASE n < Cap
    <3>1. n' = n + 1 /\ \A i \in 1 .. n' : L'[i] = M[i]
      <4>1. n' = n + 1
        BY <1>4, <2>1
      <4>2. ASSUME NEW i \in 1 .. n
            PROVE  L'[i] = M[i]
        <5>1. n' - i + 1 \in 2 .. n' /\ i \in 1 .. n' /\ (n' - i + 1) - 1 = n - i + 1 /\ i # n + 1
          BY <1>1, <4>1
        <5>2. L'[i] = List'[n' - i + 1] /\ List'[n' - i + 1] = List[n - i + 1]
          <6>1. PICK j \in 2 .. n' : j = n' - i + 1 /\ j - 1 = n - i + 1
            BY <5>1
          <6>2. List'[j] = List[j - 1]
            BY <1>4
          <6>3. L'[i] = List'[n' - i + 1]
            BY <1>3, <5>1
          <6> QED BY <6>1, <6>2, <6>3
        <5>3. i \in 1 .. n + 1
          BY <1>1
        <5>4. M[i] = L[i]
          BY <1>6, <5>1, <5>3
        <5>5. L[i] = List[n - i + 1]
          BY <1>1
        <5> QED BY <5>2, <5>4, <5>5
      <4>3. L'[n'] = M[n']
        <5>1. n' \in 1 .. n' /\ n' - n' + 1 = 1
          BY <1>1, <4>1
        <5> QED BY <1>3, <1>4, <1>6, <4>1, <5>1
      <4> QED BY <1>1, <4>1, <4>2, <4>3
    <3>2. Log!Latest(M) = SubSeq(M, 1, n + 1)
      BY <1>0, <1>1, <1>5, <2>1 DEF Log!Latest
    <3>3. SubSeq(M, 1, n + 1) = M
      BY <1>1, <1>5
    <3>4. L' = M
      BY <1>3, <1>5, <3>1
    <3> QED BY <3>2, <3>3, <3>4
  <2>2. CASE n = Cap
    <3>1. n' = n /\ \A i \in 1 .. n : L'[i] = M[i + 1]
      <4>1. n' = n /\ n \in Nat \ {0}
        BY <1>0, <1>4, <2>2
      <4>2. ASSUME NEW i \in 1 .. n, i # n
            PROVE  L'[i] = M[i + 1]
        <5>1. /\ n - i + 1 \in 2 .. n /\ (n - i + 1) - 1 = n - (i + 1) + 1
              /\ i + 1 \in 1 .. n /\ i + 1 # n + 1
          BY <4>1, <4>2
        <5>2. L'[i] = List'[n - i + 1] /\ List'[n - i + 1] = List[n - (i + 1) + 1]
          <6>1. PICK j \in 2 .. n : j = n - i + 1 /\ j - 1 = n - (i + 1) + 1
            BY <5>1
          <6>2. List'[j] = List[j - 1]
            BY <1>4, <4>1
          <6>3. L'[i] = List'[n - i + 1]
            BY <1>3, <4>1
          <6> QED BY <6>1, <6>2, <6>3
        <5>3. i + 1 \in 1 .. n + 1
          BY <4>1
        <5>4. M[i + 1] = L[i + 1]
          BY <1>6, <5>1, <5>3
        <5>5. L[i + 1] = List[n - (i + 1) + 1]
          BY <1>1, <5>1
        <5> QED BY <5>2, <5>4, <5>5
      <4>3. L'[n] = M[n + 1]
        <5>1. n \in 1 .. n /\ n + 1 \in 1 .. n + 1 /\ n - n + 1 = 1
          BY <4>1
        <5>2. L'[n] = List'[1] /\ M[n + 1] = w[k].rec
          BY <1>3, <1>6, <4>1, <5>1
        <5> QED BY <1>4, <5>2
      <4> QED BY <4>1, <4>2, <4>3
    <3>2. Log!Latest(M) = SubSeq(M, 2, n + 1)
      <4>1. Len(M) > Cap /\ Len(M) - Cap + 1 = 2 /\ Len(M) = n + 1
        BY <1>0, <1>1, <1>5, <2>2
      <4> QED BY <4>1 DEF Log!Latest
    <3>3. /\ SubSeq(M, 2, n + 1) \in Seq(Record \cup {Nil}) /\ Len(SubSeq(M, 2, n + 1)) = n
          /\ \A i \in 1 .. n : SubSeq(M, 2, n + 1)[i] = M[i + 1]
      BY <1>1, <1>5
    <3>4. L' = SubSeq(M, 2, n + 1)
      BY <1>3, <3>1, <3>3
    <3> QED BY <3>2, <3>4
  <2> QED BY <1>0, <2>1, <2>2
<1> QED BY <1>7 DEF Log!Add, L, M

\* A step that leaves the ring alone leaves the log alone.
LEMMA RingUntouched ==
  ASSUME UNCHANGED <<buf, head, n>>
  PROVE  Reverse(List)' = Reverse(List)
BY DEF List

\* List of an empty ring.
LEMMA EmptyRing ==
  ASSUME NEW l, l = [i \in 1 .. 0 |-> buf[(head - i + Cap) % Cap]]
  PROVE  Reverse(l) = <<>>
<1>1. l = <<>>
  OBVIOUS
<1> QED BY <1>1 DEF Reverse

\* The Store implements the bounded log: through any number of laps around the ring
\* and any Clear between the assignment of an ID and its record's turn, List has the
\* latest Cap records stored since the last Clear, newest first.
THEOREM RingIsBoundedLog == Spec => StoreIsBoundedLog
<1>1. Init => Log!Init
  BY EmptyRing DEF Init, List, Log!Init
<1>2. TypeOK /\ WorkInv /\ [Next]_vars => [Log!Next]_(Reverse(List))
  <2> SUFFICES ASSUME TypeOK, WorkInv, [Next]_vars
               PROVE  Log!Next \/ Reverse(List)' = Reverse(List)
    OBVIOUS
  <2>1. ASSUME NEW k \in Worker, Store(k)
        PROVE  Log!Next
    <3>1. w[k].rec \in Record
      BY <2>1 DEF WorkInv, Store
    <3> QED BY <2>1, <3>1, StoreAdds DEF Log!Next
  <2>2. CASE Clear
    <3>1. List' = <<>>
      BY <2>2 DEF Clear, List
    <3>2. Reverse(List)' = <<>>
      BY <3>1 DEF Reverse
    <3> QED BY <3>1, <3>2 DEF Log!Next, Log!Clear
  <2>3. ASSUME NEW k \in Worker,
               \/ AssignID(k) \/ CastBegin(k) \/ CastEnd(k) \/ ReplayDone(k)
               \/ \E q \in Request : Capture(k, q)
               \/ \E r \in Shown : AskReplay(k, r)
        PROVE  UNCHANGED <<buf, head, n>>
    BY <2>3 DEF AssignID, CastBegin, CastEnd, ReplayDone, Capture, AskReplay, storeVars
  <2>4. ASSUME NEW t \in Tab,
               \/ CastWrite(t) \/ Upgrade(t) \/ Register(t) \/ TabLeaves(t) \/ TabStalls(t)
               \/ Unregister(t)
        PROVE  UNCHANGED <<buf, head, n>>
    BY <2>4 DEF CastWrite, Upgrade, Register, TabLeaves, TabStalls, Unregister, storeVars
  <2>5. CASE UNCHANGED vars
    BY <2>5, RingUntouched DEF vars, storeVars
  <2>6. CASE Next
    BY <2>1, <2>2, <2>3, <2>4, <2>6, NextCases, RingUntouched
  <2> QED BY <2>5, <2>6
<1> QED BY <1>1, <1>2, TypeStart, TypeStep, PTL DEF Spec, StoreIsBoundedLog, Log!Spec
=============================================================================
