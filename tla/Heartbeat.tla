------------------------------ MODULE Heartbeat ------------------------------
(***************************************************************************)
(* Liveness of a mux session: the pinger and the watchdog that             *)
(* startHeartbeat runs at each end, the silence clock they share with the  *)
(* read loop, and Stale, on which the server's registry decides whether a  *)
(* reconnecting client may take its name over.                             *)
(*                                                                         *)
(* Time is discrete.  Durations are kept as ages that a Tick increases and *)
(* that saturate where the code can no longer tell them apart, so the      *)
(* model needs no bound on time.  Time passes only when no goroutine that  *)
(* could run is waiting to (Settled): the processor is never late by a     *)
(* whole tick, while the network may hold bytes back for up to Delay ticks *)
(* and a slow stream reader may stall the read loop for any time.          *)
(*                                                                         *)
(* What travels is abstracted to segments: a PING or a PONG frame, a small *)
(* DATA frame, or one of the parts of a large DATA frame, of which the     *)
(* last completes it.                                                      *)
(***************************************************************************)
EXTENDS Integers, Sequences

CONSTANTS Ping,     \* Session.PingInterval, in ticks
          Idle,     \* Session.IdleTimeout, in ticks
          Delay,    \* how long the network may take over a segment
          Window,   \* segments the connection holds before a writer blocks
          BigParts, \* segments of a large DATA frame
          Talkers   \* the ends that send DATA (a bound)

Side == {"server", "client"}
Peer(p) == IF p = "server" THEN "client" ELSE "server"

\* The watchdog's ticker: max(idle/4, 1ms).
CheckEvery == IF Idle \div 4 > 1 THEN Idle \div 4 ELSE 1

ASSUME PingAssumption == Ping \in Nat \ {0}
\* A live peer is heard of every Ping + Delay ticks, within the idle timeout
\* and within the one and a half intervals of Stale.
ASSUME TimingAssumption ==
  /\ Delay \in Nat /\ Idle \in Nat
  /\ Ping + Delay <= Idle
  /\ Delay <= Ping \div 2
ASSUME WindowAssumption == Window \in Nat \ {0} /\ BigParts \in Nat \ {0}
ASSUME TalkersAssumption == Talkers \subseteq Side

VARIABLES
  silence,  \* Session.silence(): ticks since lastRecv
  stalled,  \* Session.stalled
  loop,     \* the read loop: read, push (in pushData), mark, clear
  wd,       \* the watchdog: wait, or armed (it saw stalled = false)
  wdAge,    \* ticks since the watchdog's ticker fired
  pingAge,  \* ticks since the pinger's ticker fired
  pingDue,  \* a tick waits in the pinger's ticker channel
  pong,     \* Session.pongs holds a payload
  big,      \* parts of a large DATA frame still to write; Session.wmu is held
  wire,     \* wire[p]: segments p wrote that its peer has not read
  transit,  \* ticks the first segment of wire[p] has been held back
  state,    \* open, or idle: closed by the watchdog
  cut       \* the path is gone, and neither socket reports it

vars == <<silence, stalled, loop, wd, wdAge, pingAge, pingDue, pong, big, wire,
          transit, state, cut>>

MaxSilence == Idle + CheckEvery + 1   \* nothing compares beyond this
Segment == {"PING", "PONG", "DATA", "PART", "LAST"}

TypeOK ==
  /\ silence \in [Side -> 0 .. MaxSilence]
  /\ stalled \in [Side -> BOOLEAN]
  /\ loop \in [Side -> {"read", "push", "mark", "clear"}]
  /\ wd \in [Side -> {"wait", "armed"}]
  /\ wdAge \in [Side -> 0 .. CheckEvery]
  /\ pingAge \in [Side -> 0 .. Ping - 1]
  /\ pingDue \in [Side -> BOOLEAN]
  /\ pong \in [Side -> BOOLEAN]
  /\ big \in [Side -> 0 .. BigParts]
  /\ wire \in [Side -> Seq(Segment)]
  /\ \A p \in Side : Len(wire[p]) <= Window
  /\ transit \in [Side -> 0 .. Delay]
  /\ state \in [Side -> {"open", "idle"}]
  /\ cut \in BOOLEAN

\* Run marks the session alive and starts the heartbeat.
Init ==
  /\ silence = [p \in Side |-> 0]
  /\ stalled = [p \in Side |-> FALSE]
  /\ loop = [p \in Side |-> "read"]
  /\ wd = [p \in Side |-> "wait"]
  /\ wdAge = [p \in Side |-> 0]
  /\ pingAge = [p \in Side |-> 0]
  /\ pingDue = [p \in Side |-> FALSE]
  /\ pong = [p \in Side |-> FALSE]
  /\ big = [p \in Side |-> 0]
  /\ wire = [p \in Side |-> <<>>]
  /\ transit = [p \in Side |-> 0]
  /\ state = [p \in Side |-> "open"]
  /\ cut = FALSE

Open(p) == state[p] = "open"

\* Mutant: Stale does not look at stalled.
StaleIgnoresStall(p) == silence[p] > Ping + Ping \div 2

\* Session.Stale: a stalled read loop is never stale.
Stale(p) == ~stalled[p] /\ silence[p] > Ping + Ping \div 2

-----------------------------------------------------------------------------
(* Writing.  Session.wmu is held while a large frame is being written.     *)

Room(p) == Open(p) /\ Len(wire[p]) < Window
Put(p, seg) == wire' = [wire EXCEPT ![p] = Append(@, seg)]

\* The pinger takes a tick and writes a PING.
SendPing(p) ==
  /\ pingDue[p] /\ big[p] = 0 /\ Room(p)
  /\ Put(p, "PING")
  /\ pingDue' = [pingDue EXCEPT ![p] = FALSE]
  /\ UNCHANGED <<silence, stalled, loop, wd, wdAge, pingAge, pong, big, transit, state, cut>>

\* The pinger takes the pending payload and writes a PONG.
SendPong(p) ==
  /\ pong[p] /\ big[p] = 0 /\ Room(p)
  /\ Put(p, "PONG")
  /\ pong' = [pong EXCEPT ![p] = FALSE]
  /\ UNCHANGED <<silence, stalled, loop, wd, wdAge, pingAge, pingDue, big, transit, state, cut>>

\* A stream writes a small DATA frame.
SendData(p) ==
  /\ p \in Talkers /\ big[p] = 0 /\ Room(p)
  /\ Put(p, "DATA")
  /\ UNCHANGED <<silence, stalled, loop, wd, wdAge, pingAge, pingDue, pong, big, transit,
                 state, cut>>

\* A stream starts to write a large DATA frame.
StartBig(p) ==
  /\ p \in Talkers /\ big[p] = 0 /\ Open(p)
  /\ big' = [big EXCEPT ![p] = BigParts]
  /\ UNCHANGED <<silence, stalled, loop, wd, wdAge, pingAge, pingDue, pong, wire, transit,
                 state, cut>>

\* Mutant: a part is written although the socket has no room for it.
SendPartNoRoom(p) ==
  /\ big[p] > 0 /\ Open(p)
  /\ Put(p, IF big[p] = 1 THEN "LAST" ELSE "PART")
  /\ big' = [big EXCEPT ![p] = @ - 1]
  /\ UNCHANGED <<silence, stalled, loop, wd, wdAge, pingAge, pingDue, pong, transit, state, cut>>

\* The socket takes the next part of a large frame.
SendPart(p) ==
  /\ big[p] > 0 /\ Room(p)
  /\ Put(p, IF big[p] = 1 THEN "LAST" ELSE "PART")
  /\ big' = [big EXCEPT ![p] = @ - 1]
  /\ UNCHANGED <<silence, stalled, loop, wd, wdAge, pingAge, pingDue, pong, transit, state, cut>>

-----------------------------------------------------------------------------
(* The read loop.                                                          *)

\* liveReader.Read returns bytes: it marks the session alive, and readLoop acts
\* on the frame that is now complete.  A PING leaves a payload for the pinger
\* unless one is pending; DATA enters pushData with stalled set.
Recv(p) ==
  LET seg == Head(wire[Peer(p)]) IN
  /\ Open(p) /\ loop[p] = "read" /\ ~cut
  /\ wire[Peer(p)] # <<>>
  /\ wire' = [wire EXCEPT ![Peer(p)] = Tail(@)]
  /\ transit' = [transit EXCEPT ![Peer(p)] = 0]
  /\ silence' = [silence EXCEPT ![p] = 0]
  /\ pong' = [pong EXCEPT ![p] = @ \/ seg = "PING"]
  /\ IF seg \in {"DATA", "LAST"}
     THEN /\ stalled' = [stalled EXCEPT ![p] = TRUE]
          /\ loop' = [loop EXCEPT ![p] = "push"]
     ELSE UNCHANGED <<stalled, loop>>
  /\ UNCHANGED <<wd, wdAge, pingAge, pingDue, big, state, cut>>

\* pushData returns, now or after any stall: it is up to the stream's reader.
PushReturns(p) ==
  /\ loop[p] = "push"
  /\ loop' = [loop EXCEPT ![p] = "mark"]
  /\ UNCHANGED <<silence, stalled, wd, wdAge, pingAge, pingDue, pong, big, wire, transit,
                 state, cut>>

\* Mutant: stalled is cleared although the silence clock was not restarted.
ClearWithoutMark(p) ==
  /\ loop[p] = "mark"
  /\ stalled' = [stalled EXCEPT ![p] = FALSE]
  /\ loop' = [loop EXCEPT ![p] = "clear"]
  /\ UNCHANGED <<silence, wd, wdAge, pingAge, pingDue, pong, big, wire, transit, state, cut>>

\* markRecv after pushData.
MarkAfterPush(p) ==
  /\ loop[p] = "mark"
  /\ silence' = [silence EXCEPT ![p] = 0]
  /\ loop' = [loop EXCEPT ![p] = "clear"]
  /\ UNCHANGED <<stalled, wd, wdAge, pingAge, pingDue, pong, big, wire, transit, state, cut>>

\* stalled is cleared after the silence clock was restarted.
ClearStalled(p) ==
  /\ loop[p] = "clear"
  /\ stalled' = [stalled EXCEPT ![p] = FALSE]
  /\ loop' = [loop EXCEPT ![p] = "read"]
  /\ UNCHANGED <<silence, wd, wdAge, pingAge, pingDue, pong, big, wire, transit, state, cut>>

-----------------------------------------------------------------------------
(* The watchdog: its two loads are two steps.                              *)

\* The ticker fired: read stalled, and wait for the next tick if it is set.
WatchStalled(p) ==
  /\ Open(p) /\ wd[p] = "wait" /\ wdAge[p] = CheckEvery
  /\ wdAge' = [wdAge EXCEPT ![p] = 0]
  /\ wd' = [wd EXCEPT ![p] = IF stalled[p] THEN "wait" ELSE "armed"]
  /\ UNCHANGED <<silence, stalled, loop, pingAge, pingDue, pong, big, wire, transit, state, cut>>

\* Mutant: the watchdog compares with twice the timeout.
WatchSilenceLate(p) ==
  /\ Open(p) /\ wd[p] = "armed"
  /\ wd' = [wd EXCEPT ![p] = "wait"]
  /\ state' = [state EXCEPT ![p] = IF silence[p] > 2 * Idle THEN "idle" ELSE @]
  /\ UNCHANGED <<silence, stalled, loop, wdAge, pingAge, pingDue, pong, big, wire, transit, cut>>

\* Compare the silence with the idle timeout, and close the session or go on.
WatchSilence(p) ==
  /\ Open(p) /\ wd[p] = "armed"
  /\ wd' = [wd EXCEPT ![p] = "wait"]
  /\ state' = [state EXCEPT ![p] = IF silence[p] > Idle THEN "idle" ELSE @]
  /\ UNCHANGED <<silence, stalled, loop, wdAge, pingAge, pingDue, pong, big, wire, transit, cut>>

-----------------------------------------------------------------------------
(* The environment.                                                        *)

\* The path disappears: a laptop goes to sleep, a NAT forgets the mapping.
Cut ==
  /\ ~cut
  /\ cut' = TRUE
  /\ UNCHANGED <<silence, stalled, loop, wd, wdAge, pingAge, pingDue, pong, big, wire,
                 transit, state>>

\* No goroutine of p is about to take a step.
Settled(p) ==
  Open(p) =>
    /\ loop[p] \in {"read", "push"}
    /\ wd[p] = "wait" /\ wdAge[p] < CheckEvery
    /\ Room(p) => big[p] = 0 /\ ~pingDue[p] /\ ~pong[p]
    /\ loop[p] = "read" /\ ~cut /\ wire[Peer(p)] # <<>> => transit[Peer(p)] < Delay

\* Time passes by one tick at both ends.
Tick ==
  /\ \A p \in Side : Settled(p)
  /\ silence' = [p \in Side |-> IF silence[p] < MaxSilence THEN silence[p] + 1 ELSE MaxSilence]
  /\ wdAge' = [p \in Side |-> IF Open(p) THEN wdAge[p] + 1 ELSE wdAge[p]]
  /\ pingAge' = [p \in Side |-> (pingAge[p] + 1) % Ping]
  /\ pingDue' = [p \in Side |-> pingDue[p] \/ pingAge[p] + 1 = Ping]
  /\ transit' = [p \in Side |-> IF wire[p] # <<>> /\ transit[p] < Delay
                                THEN transit[p] + 1 ELSE transit[p]]
  /\ UNCHANGED <<stalled, loop, wd, pong, big, wire, state, cut>>

-----------------------------------------------------------------------------

LoopStep(p) == Recv(p) \/ MarkAfterPush(p) \/ ClearStalled(p)
PingerStep(p) == SendPing(p) \/ SendPong(p)
WatchdogStep(p) == WatchStalled(p) \/ WatchSilence(p)

Next ==
  \/ \E p \in Side :
       \/ LoopStep(p) \/ PingerStep(p) \/ WatchdogStep(p)
       \/ SendData(p) \/ StartBig(p) \/ SendPart(p) \/ PushReturns(p)
  \/ Cut
  \/ Tick

\* Goroutines run and time goes on; nothing makes a stream reader read.
Fairness ==
  /\ WF_vars(Tick)
  /\ \A p \in Side : /\ WF_vars(LoopStep(p)) /\ WF_vars(PingerStep(p))
                     /\ WF_vars(WatchdogStep(p)) /\ WF_vars(SendPart(p))

Spec == Init /\ [][Next]_vars /\ Fairness

-----------------------------------------------------------------------------

\* The watchdog never closes a session whose peer is there: neither a stall of
\* our own read loop, nor a frame that takes longer than the timeout to arrive,
\* nor a peer that is itself blocked on us counts as silence.
NoFalseIdleClose == \A p \in Side : state[p] = "idle" => cut

\* Stale never reports a peer that is there, so nothing but a session that is
\* really gone can be evicted.
StaleMeansGone == \A p \in Side : Open(p) /\ Stale(p) => cut

\* A silent peer is noticed in time: unless its read loop is stalled, an open
\* session has never been silent for longer than the timeout and one check.
SilenceIsBounded ==
  \A p \in Side : Open(p) /\ ~stalled[p] => silence[p] <= Idle + CheckEvery

\* A session that lost its peer ends, unless one of its own readers keeps the
\* read loop stalled.
LostPeerIsNoticed ==
  \A p \in Side : cut ~> ~Open(p) \/ stalled[p]
=============================================================================
