----------------------------- MODULE SyncProofs -----------------------------
(***************************************************************************)
(* Theorems about the scheduler, for every finite set of peers, every      *)
(* chain length, page size, window, number of marks and set of false       *)
(* claims.                                                                 *)
(*                                                                         *)
(* A handler is a composition of the machine's methods, so the invariant   *)
(* is split by how long it holds.  Sound holds of every record in between, *)
(* and each method has a lemma that keeps it; Shown is lost inside a       *)
(* handler and restored by its tail (Tails).  The tables agree because a   *)
(* closed connection is told to the loop before it is cleared; synced is   *)
(* applied because what moves the chain queues a chain-moved; an honest    *)
(* peer is not blamed because its page, once taken, reaches its claim; and *)
(* the gate's rise is followed through a handler as a relation between     *)
(* the records it passes through (Waited, Waits).                          *)
(***************************************************************************)
EXTENDS SyncMachine, SumProofs, SequenceTheorems

\* The machine's record: a value of each field.
Machines ==
  [claims : [Peers -> Claims \cup {None}], order : Seq(Peers), marks : Seq(Peers),
   outbound : SUBSET Outbound, hOpen : SUBSET Peers, bOpen : SUBSET Peers,
   inFlight : [Ids -> Peers \cup {None}], omitted : [Peers -> SUBSET Ids],
   settled : BOOLEAN, phase : {"idle", "syncing", "synced"},
   acted : SUBSET Peers, held : [Peers -> Claims \cup {None}], penalised : SUBSET Peers,
   hRun : [Peers -> HeaderRuns \cup {None}], bRun : [Peers -> BlockRuns \cup {None}],
   queue : Seq(Events), connected : SUBSET Peers, closing : SUBSET Peers, banned : SUBSET Peers,
   best : 0 .. Top, applied : 0 .. Top, staged : SUBSET Ids, S : 0 .. Top]

\* A record of these types, with no peer twice among the claims (a Map's keys) or the marks.
Typed(s) ==
  /\ s \in Machines
  /\ IsInjective(s.order) /\ IsInjective(s.marks)
  /\ s.applied <= s.best /\ s.staged \subseteq s.applied + 1 .. s.best

\* NothingHungUp, of any record the machine passes through: what is open or in flight has a
\* run, and a connected peer's run is open.
Runs(s) ==
  /\ \A p \in Peers : p \in s.hOpen => s.hRun[p] # None
  /\ \A p \in Peers : p \in s.bOpen => s.bRun[p] # None
  /\ \A i \in Ids : s.inFlight[i] # None =>
       s.bRun[s.inFlight[i]] # None /\ i \in s.bRun[s.inFlight[i]].ids
  /\ \A p \in s.connected : /\ s.hRun[p] # None => p \in s.hOpen
                            /\ s.bRun[p] # None => p \in s.bOpen

\* An event of a peer names it; its disconnect comes after its connection closed.
EventSound(s, e) ==
  /\ e.type \in {"peer-active", "peer-disconnect", "sync-info", "need-headers"} => e.peer \in Peers
  /\ e.type = "peer-disconnect" => e.peer \notin s.connected
  /\ e.type = "sync-info" => e.claim # None

\* Every event the loop has still to take is sound.
EventsSound(s) == \A i \in DOMAIN s.queue : EventSound(s, s.queue[i])

\* The loop has still to hear that p's connection closed.
Told(s, p) == \E i \in DOMAIN s.queue : s.queue[i].type = "peer-disconnect" /\ s.queue[i].peer = p

\* Nothing is kept of p.
Cleared(s, p) ==
  /\ s.claims[p] = None /\ s.held[p] = None
  /\ p \notin s.outbound /\ p \notin s.hOpen /\ p \notin s.bOpen
  /\ \A i \in Ids : s.inFlight[i] # p

\* GoneLeavesNothing, before the loop is idle: a closed connection is still to be told, or
\* telling it has cleared the peer.
Left(s) ==
  \A p \in Peers \ s.connected :
    Told(s, p) \/ (Cleared(s, p) /\ (p \in s.closing \/ s.omitted[p] = {}))

\* No connection is both open and closing, and a block run that has its answer is of a peer
\* the host still knows.
JudgedKnown(s) ==
  /\ s.connected \cap s.closing = {}
  /\ \A p \in Peers : s.bRun[p] # None /\ s.bRun[p].at # "asked" => p \in s.connected \cup s.closing

\* What every record the machine passes through satisfies.
Well(s) == Typed(s) /\ Runs(s) /\ EventsSound(s) /\ Left(s) /\ JudgedKnown(s)

\* A claim an honest peer may have made: of a height it had.
Own(claim, tip) == claim = None \/ \E h \in 0 .. tip : claim = TipAt(h)

\* A header run of an honest peer: its answer, once taken, is in the node's best chain, and
\* reaches the claim unless the page was full.
HonestRun(r, tip, best) ==
  /\ Own(r.claim, tip)
  /\ r.at = "judged" /\ r.verdict = "taken" =>
       /\ r.upto <= best
       /\ Short(r) /\ r.claim # None => r.upto >= r.claim.tipHeight

\* Only liars are penalised; what is kept of an honest peer is its own.
Honest(s, tips) ==
  /\ s.penalised \subseteq Liars
  /\ \A p \in Peers \ Liars :
       /\ Own(s.claims[p], tips[p]) /\ Own(s.held[p], tips[p])
       /\ s.hRun[p] # None => HonestRun(s.hRun[p], tips[p], s.best)
       /\ \A i \in DOMAIN s.queue : s.queue[i].peer = p => Own(s.queue[i].claim, tips[p])

\* A phase that reads synced is true, or about to be looked at: a chain-moved is queued.
Applied(s) == s.phase = "synced" => FullyApplied(s) \/ \E i \in DOMAIN s.queue : s.queue[i] = ChainMovedEvent

\* StateShowsPeers, of a record: a phase other than syncing has nothing open.
Shows(s) == s.phase # "syncing" => s.hOpen = {} /\ s.bOpen = {}

\* No request for headers is queued.
Needless(s) == \A i \in DOMAIN s.queue : s.queue[i].type # "need-headers"

\* What the environment has spent of its bounds.
Spendings == [infos : Nat, needs : Nat, faults : Nat, aborts : Nat, drops : Nat]

\* What holds of every record inside a handler, given the honest tips.
Sound(s, tips) == Well(s) /\ Honest(s, tips) /\ (MaxNeeds = 0 => Needless(s))

\* What a handler must have restored when it returns.
Shown(s) == Applied(s) /\ (MaxNeeds = 0 => Shows(s))

\* The inductive invariant.
IInv ==
  /\ Sound(m, peerTip) /\ Shown(m)
  /\ boot \in BOOLEAN /\ peerTip \in [Peers -> 0 .. Top] /\ used \in Spendings

\* From s to t nothing has changed but blocks, marks, the phase, the window and the queue.
Same(s, t) ==
  /\ t.claims = s.claims /\ t.order = s.order /\ t.outbound = s.outbound /\ t.hOpen = s.hOpen
  /\ t.settled = s.settled /\ t.acted = s.acted /\ t.held = s.held
  /\ t.penalised = s.penalised /\ t.hRun = s.hRun /\ t.connected = s.connected
  /\ t.closing = s.closing /\ t.banned = s.banned /\ t.best = s.best

\* From s to t the queue has only had chain-moved events added.
Heard(s, t) ==
  /\ Len(s.queue) <= Len(t.queue)
  /\ \A i \in DOMAIN s.queue : t.queue[i] = s.queue[i]
  /\ \A i \in DOMAIN t.queue : i \notin DOMAIN s.queue => t.queue[i] = ChainMovedEvent

\* From s to t no open run has lost its mark, and the gate rose only if each open outbound
\* run is marked.
Waited(s, t) ==
  /\ \A p \in s.hOpen : Marked(s, p) => Marked(t, p)
  /\ t.S > s.S => \A p \in s.hOpen : Marked(t, p) \/ p \notin s.outbound

\* From s to t a handler's tail has run: phase, gate and pump.
Steady(s, t) ==
  /\ Same(s, t) /\ Heard(s, t) /\ Waited(s, t)
  /\ \A p \in Peers : s.bRun[p] # None => t.bRun[p] = s.bRun[p]
  /\ Applied(s) => Applied(t)
  /\ Shows(s) => Shows(t)

-----------------------------------------------------------------------------
(* One tail step after another is a tail step. *)
LEMMA SteadyTrans ==
  ASSUME NEW s, NEW t, NEW u, Typed(s), Typed(t), Typed(u), Steady(s, t), Steady(t, u)
  PROVE  Steady(s, u)
<1>1. Same(s, u)
  BY DEF Steady, Same
<1>2. Heard(s, u)
  <2>1. DOMAIN s.queue = 1 .. Len(s.queue) /\ DOMAIN t.queue = 1 .. Len(t.queue) /\ DOMAIN u.queue = 1 .. Len(u.queue)
        /\ Len(s.queue) \in Nat /\ Len(t.queue) \in Nat /\ Len(u.queue) \in Nat
    BY DEF Typed, Machines
  <2> QED BY <2>1 DEF Steady, Heard
<1>3. Waited(s, u)
  <2>1. s.S \in Int /\ t.S \in Int /\ u.S \in Int
    BY DEF Typed, Machines
  <2> QED BY <2>1 DEF Steady, Waited, Same
<1>4. \A p \in Peers : s.bRun[p] # None => u.bRun[p] = s.bRun[p]
  BY DEF Steady
<1> QED BY <1>1, <1>2, <1>3, <1>4 DEF Steady

(* Setting the phase and the marks keeps the types. *)
LEMMA PhaseFields ==
  ASSUME NEW s, Typed(s), NEW ph \in {"idle", "syncing", "synced"}, NEW mk \in Seq(Peers), IsInjective(mk)
  PROVE  Typed([s EXCEPT !.phase = ph, !.marks = mk])
  BY DEF Typed, Machines

(* Setting the phase and the marks keeps what Well says. *)
LEMMA WellPhase ==
  ASSUME NEW s, Well(s), NEW ph \in {"idle", "syncing", "synced"}, NEW mk \in Seq(Peers), IsInjective(mk)
  PROVE  Well([s EXCEPT !.phase = ph, !.marks = mk])
<1> DEFINE t == [s EXCEPT !.phase = ph, !.marks = mk]
<1>1. Typed(t)
  BY PhaseFields DEF Well
<1>2. /\ t.hOpen = s.hOpen /\ t.hRun = s.hRun /\ t.bOpen = s.bOpen /\ t.bRun = s.bRun
      /\ t.inFlight = s.inFlight /\ t.connected = s.connected /\ t.queue = s.queue
      /\ t.claims = s.claims /\ t.held = s.held /\ t.outbound = s.outbound /\ t.closing = s.closing
      /\ t.omitted = s.omitted
  BY DEF Well, Typed, Machines
<1> HIDE DEF t
<1>3. Runs(t)
  BY <1>2 DEF Well, Runs
<1>4. EventsSound(t) /\ Left(t) /\ JudgedKnown(t)
  BY <1>2 DEF Well, EventsSound, EventSound, Left, Told, Cleared, JudgedKnown
<1> QED BY <1>1, <1>3, <1>4 DEF Well, t
-----------------------------------------------------------------------------
(* A tail may do nothing. *)
LEMMA SteadyRefl == ASSUME NEW s, Typed(s) PROVE Steady(s, s)
<1>1. Len(s.queue) \in Nat /\ DOMAIN s.queue = 1 .. Len(s.queue) /\ s.S \in Int
  BY DEF Typed, Machines
<1> QED BY <1>1 DEF Steady, Same, Heard, Waited

(* recomputePhase is a tail step, and the phase it leaves is the true one. *)
LEMMA RecomputeSteady ==
  ASSUME NEW s, Well(s)
  PROVE  LET t == RecomputePhase(s)
         IN Well(t) /\ Steady(s, t) /\ Applied(t) /\ Shows(t) /\ t.inFlight = s.inFlight
              /\ t.omitted = s.omitted /\ t.bRun = s.bRun /\ t.S = s.S
<1> DEFINE next == ComputePhase(s)
           mk == IF next = "synced" /\ s.phase # "synced" THEN <<>> ELSE s.marks
           t == [s EXCEPT !.phase = next, !.marks = mk]
<1>1. RecomputePhase(s) = t
  <2>1. s.marks = s.marks
    OBVIOUS
  <2> QED BY DEF RecomputePhase
<1>2. next \in {"idle", "syncing", "synced"}
  BY DEF ComputePhase
<1>3. /\ s.hOpen # {} \/ s.bOpen # {} => next = "syncing"
      /\ ~FullyApplied(s) => next = "syncing"
  BY DEF ComputePhase
<1>4. mk \in Seq(Peers) /\ IsInjective(mk)
  <2>1. s.marks \in Seq(Peers) /\ IsInjective(s.marks)
    BY DEF Well, Typed, Machines
  <2>2. IsInjective(<<>>)
    BY DEF IsInjective
  <2> QED BY <2>1, <2>2
<1> HIDE DEF next
<1>5. mk = s.marks \/ next = "synced"
  OBVIOUS
<1> HIDE DEF mk
<1>6. Well(t)
  BY <1>2, <1>4, WellPhase
<1>7. /\ Same(s, t) /\ t.queue = s.queue /\ t.phase = next /\ t.marks = mk
      /\ t.bOpen = s.bOpen /\ t.applied = s.applied /\ t.bRun = s.bRun /\ t.S = s.S
      /\ t.inFlight = s.inFlight /\ t.omitted = s.omitted
  BY DEF Well, Typed, Machines, Same
<1> HIDE DEF t
<1>8. Applied(t) /\ Shows(t)
  BY <1>3, <1>7 DEF Applied, Shows, FullyApplied, Same
<1>9. Heard(s, t)
  BY <1>7 DEF Heard, Well, Typed, Machines
<1>10. Waited(s, t)
  BY <1>3, <1>5, <1>7 DEF Waited, Marked, Well, Typed, Machines
<1> QED BY <1>1, <1>6, <1>7, <1>8, <1>9, <1>10 DEF Steady

(* Announcing a move of the chain changes the queue alone, which then holds a chain-moved. *)
LEMMA ChainMovedSteady ==
  ASSUME NEW s, Typed(s)
  PROVE  LET t == ChainMoved(s)
         IN /\ Typed(t) /\ Same(s, t) /\ Heard(s, t)
            /\ t = [s EXCEPT !.queue = t.queue]
            /\ \E i \in DOMAIN t.queue : t.queue[i] = ChainMovedEvent
<1>1. s.queue \in Seq(Events) /\ ChainMovedEvent \in Events
  BY DEF Typed, Machines, ChainMovedEvent, Event, Events, EventTypes
<1>2. CASE s.queue # <<>> /\ Last(s.queue) = ChainMovedEvent
  <2>1. ChainMoved(s) = s
    BY <1>2 DEF ChainMoved
  <2>2. Len(s.queue) \in DOMAIN s.queue
    BY <1>1, <1>2
  <2>3. s = [s EXCEPT !.queue = s.queue]
    BY DEF Typed, Machines
  <2> QED BY <1>1, <1>2, <2>1, <2>2, <2>3 DEF Same, Heard, Last
<1>3. CASE ~ (s.queue # <<>> /\ Last(s.queue) = ChainMovedEvent)
  <2> DEFINE q == Append(s.queue, ChainMovedEvent)
             t == [s EXCEPT !.queue = q]
  <2>1. ChainMoved(s) = t
    BY <1>3 DEF ChainMoved
  <2>2. /\ q \in Seq(Events) /\ Len(q) = Len(s.queue) + 1 /\ q[Len(s.queue) + 1] = ChainMovedEvent
        /\ \A i \in DOMAIN s.queue : q[i] = s.queue[i]
        /\ DOMAIN s.queue = 1 .. Len(s.queue) /\ DOMAIN q = 1 .. Len(s.queue) + 1 /\ Len(s.queue) \in Nat
    BY <1>1
  <2> HIDE DEF q
  <2>3. Typed(t) /\ Same(s, t) /\ t.queue = q
    BY <2>2 DEF Typed, Machines, Same
  <2>4. Heard(s, t)
    BY <2>2, <2>3 DEF Heard
  <2>5. \E i \in DOMAIN t.queue : t.queue[i] = ChainMovedEvent
    BY <2>2, <2>3
  <2>6. t = [s EXCEPT !.queue = t.queue]
    BY <2>3
  <2> QED BY <2>1, <2>3, <2>4, <2>5, <2>6
<1> QED BY <1>2, <1>3

\* What Well says besides the types depends on these fields, and on the queue as it is heard.
LEMMA WellHeard ==
  ASSUME NEW s, NEW t, Well(s), Typed(t), Same(s, t), Heard(s, t),
         t.bRun = s.bRun, t.bOpen = s.bOpen, t.inFlight = s.inFlight, t.omitted = s.omitted
  PROVE  Well(t)
<1>1. Runs(t) /\ JudgedKnown(t)
  BY DEF Well, Runs, JudgedKnown, Same
<1>2. EventsSound(t)
  <2> SUFFICES ASSUME NEW i \in DOMAIN t.queue PROVE EventSound(t, t.queue[i])
    BY DEF EventsSound
  <2>1. CASE i \in DOMAIN s.queue
    BY <2>1 DEF Well, EventsSound, EventSound, Same, Heard
  <2>2. CASE i \notin DOMAIN s.queue
    <3>1. t.queue[i].type = "chain-moved"
      BY <2>2 DEF Heard, ChainMovedEvent, Event
    <3> QED BY <3>1 DEF EventSound
  <2> QED BY <2>1, <2>2
<1>3. Left(t)
  <2> SUFFICES ASSUME NEW p \in Peers \ t.connected
               PROVE  Told(t, p) \/ (Cleared(t, p) /\ (p \in t.closing \/ t.omitted[p] = {}))
    BY DEF Left
  <2>1. p \in Peers \ s.connected
    BY DEF Same
  <2>2. CASE Told(s, p)
    <3>1. DOMAIN s.queue \subseteq DOMAIN t.queue
      BY DEF Well, Typed, Machines, Heard
    <3> QED BY <2>2, <3>1 DEF Told, Heard
  <2>3. CASE ~ Told(s, p)
    BY <2>1, <2>3 DEF Well, Left, Cleared, Same
  <2> QED BY <2>2, <2>3
<1> QED BY <1>1, <1>2, <1>3 DEF Well

(* The greatest of some naturals below a bound. *)
LEMMA MaxOf ==
  ASSUME NEW T, T \subseteq Nat, T # {}, NEW n \in Nat, \A y \in T : y <= n
  PROVE  Max(T) \in T /\ \A y \in T : y <= Max(T)
<1> DEFINE bounds == {k \in Nat : \A y \in T : y <= k}
<1>1. bounds \subseteq Nat /\ n \in bounds
  OBVIOUS
<1>2. Min(bounds) \in bounds /\ \A k \in bounds : Min(bounds) <= k
  <2> HIDE DEF bounds
  <2> QED BY <1>1, MinOf
<1>3. PICK k \in bounds : \A l \in bounds : k <= l
  BY <1>2
<1>4. k \in T
  <2> SUFFICES ASSUME k \notin T PROVE FALSE
    OBVIOUS
  <2>1. PICK y \in T : TRUE
    OBVIOUS
  <2>2. k - 1 \in bounds
    BY <2>1
  <2> QED BY <2>2, <1>3
<1> QED BY <1>3, <1>4 DEF Max

(* The intake's drain changes what is applied and staged, and announces it if it did. *)
LEMMA DrainSteady ==
  ASSUME NEW s, Well(s)
  PROVE  LET t == Drain(s)
         IN /\ Well(t) /\ Same(s, t) /\ Heard(s, t)
            /\ t.bRun = s.bRun /\ t.bOpen = s.bOpen /\ t.marks = s.marks /\ t.S = s.S /\ t.phase = s.phase
            /\ t.staged \subseteq s.staged
            /\ Applied(s) => Applied(t)
<1> DEFINE W == Max({s.applied, Window(s)})
           T == {a \in s.applied .. s.best : a <= W /\ s.applied + 1 .. a \subseteq s.staged}
           next == Max(T)
           moved == [s EXCEPT !.applied = next, !.staged = @ \ (1 .. next)]
<1>1. s.applied \in Nat /\ s.best \in Nat /\ s.S \in Nat /\ s.applied <= s.best /\ MaxReorgDepth \in Nat /\ Top \in Nat /\ s.best <= Top
  BY SizeAssumption DEF Well, Typed, Machines
<1>2. W \in Int /\ s.applied <= W
  <2> DEFINE V == {s.applied, Window(s)}
  <2>1. Window(s) \in Nat /\ V \subseteq Nat /\ V # {} /\ s.applied \in V
    BY <1>1 DEF Window
  <2>2. \A y \in V : y <= s.applied + Window(s)
    BY <1>1, <2>1
  <2>3. s.applied + Window(s) \in Nat
    BY <1>1, <2>1
  <2> HIDE DEF V
  <2>4. Max(V) \in V /\ \A y \in V : y <= Max(V)
    BY <2>1, <2>2, <2>3, MaxOf
  <2> QED BY <2>1, <2>4 DEF V
<1> HIDE DEF W
<1>3. next \in s.applied .. s.best
  <2>1. T \subseteq Nat /\ s.applied \in T /\ \A y \in T : y <= s.best
    BY <1>1, <1>2
  <2> HIDE DEF T
  <2>2. next \in T
    BY <1>1, <2>1, MaxOf
  <2> QED BY <2>2 DEF T
<1>4. Drain(s) = IF next = s.applied THEN s ELSE ChainMoved(moved)
  BY DEF Drain, W
<1> HIDE DEF next
<1>5. CASE next = s.applied
  <2>1. Drain(s) = s
    BY <1>4, <1>5
  <2>2. Heard(s, s)
    BY DEF Heard, Well, Typed, Machines
  <2> QED BY <2>1, <2>2 DEF Same, Well
<1>6. CASE next # s.applied
  <2>1. Typed(moved)
    <3>1. next \in 0 .. Top /\ next <= s.best
      BY <1>1, <1>3
    <3>2. s.staged \ (1 .. next) \subseteq next + 1 .. s.best /\ s.staged \ (1 .. next) \subseteq Ids
      BY <1>1, <1>3 DEF Well, Typed, Machines, Ids
    <3>3. s \in Machines /\ moved = [s EXCEPT !.applied = next, !.staged = s.staged \ (1 .. next)]
      BY DEF Well, Typed
    <3> DEFINE left == s.staged \ (1 .. next)
    <3> HIDE DEF left, moved
    <3>4. moved \in Machines /\ moved.order = s.order /\ moved.marks = s.marks /\ moved.applied = next
          /\ moved.best = s.best /\ moved.staged = left
      BY <3>1, <3>2, <3>3 DEF Machines, left
    <3> QED BY <3>1, <3>2, <3>4 DEF Well, Typed, left
  <2>2. /\ moved.bRun = s.bRun /\ moved.bOpen = s.bOpen /\ moved.marks = s.marks /\ moved.S = s.S
        /\ moved.phase = s.phase /\ moved.staged \subseteq s.staged /\ moved.queue = s.queue /\ Same(s, moved)
        /\ moved.inFlight = s.inFlight /\ moved.omitted = s.omitted
    BY DEF Well, Typed, Machines, Same
  <2> HIDE DEF moved
  <2>3. Heard(s, moved)
    BY <2>2 DEF Well, Heard, Typed, Machines
  <2>4. Well(moved)
    BY <2>1, <2>2, <2>3, WellHeard
  <2> DEFINE t == ChainMoved(moved)
  <2>5. /\ Typed(t) /\ Same(moved, t) /\ Heard(moved, t) /\ t = [moved EXCEPT !.queue = t.queue]
        /\ \E i \in DOMAIN t.queue : t.queue[i] = ChainMovedEvent
    BY <2>1, ChainMovedSteady
  <2> HIDE DEF t
  <2>6. /\ t.bRun = moved.bRun /\ t.bOpen = moved.bOpen /\ t.inFlight = moved.inFlight /\ t.omitted = moved.omitted
        /\ t.marks = moved.marks /\ t.S = moved.S /\ t.phase = moved.phase /\ t.staged = moved.staged
    BY <2>1, <2>5 DEF Typed, Machines
  <2>7. Well(t)
    BY <2>4, <2>5, <2>6, WellHeard
  <2>8. Same(s, t) /\ Heard(s, t)
    BY <2>2, <2>5 DEF Same, Heard
  <2>9. Applied(t)
    BY <2>5 DEF Applied
  <2>10. Drain(s) = t
    BY <1>4, <1>6 DEF t
  <2> QED BY <2>2, <2>6, <2>7, <2>8, <2>9, <2>10
<1> QED BY <1>5, <1>6

(* evaluateGate is a tail step: it raises the window only when nothing is waited for. *)
LEMMA GateSteady ==
  ASSUME NEW s, Well(s)
  PROVE  LET t == EvaluateGate(s)
         IN Well(t) /\ Steady(s, t) /\ t.bRun = s.bRun /\ t.marks = s.marks
<1>1. CASE ~ GateHolds(s)
  BY <1>1, SteadyRefl DEF EvaluateGate, Well
<1>2. CASE GateHolds(s)
  <2> DEFINE raised == [s EXCEPT !.S = s.best]
             t == EvaluateGate(s)
  <2>1. t = IF s.best <= s.S THEN raised ELSE Drain(raised)
    BY <1>2 DEF EvaluateGate, GateHeld
  <2>2. Typed(raised)
    BY DEF Well, Typed, Machines
  <2>3. /\ raised.bRun = s.bRun /\ raised.bOpen = s.bOpen /\ raised.marks = s.marks
        /\ raised.phase = s.phase /\ raised.queue = s.queue /\ Same(s, raised)
        /\ raised.inFlight = s.inFlight /\ raised.omitted = s.omitted /\ raised.applied = s.applied
    BY DEF Well, Typed, Machines, Same
  <2> HIDE DEF raised
  <2>4. Heard(s, raised)
    BY <2>3 DEF Well, Heard, Typed, Machines
  <2>5. Well(raised)
    BY <2>2, <2>3, <2>4, WellHeard
  <2>6. Applied(s) => Applied(raised)
    BY <2>3 DEF Applied, FullyApplied, Same
  <2>7. /\ Well(t) /\ Same(s, t) /\ Heard(s, t) /\ t.bRun = s.bRun /\ t.bOpen = s.bOpen
        /\ t.marks = s.marks /\ t.phase = s.phase
        /\ Applied(s) => Applied(t)
    <3>1. CASE s.best <= s.S
      BY <2>1, <2>3, <2>4, <2>5, <2>6, <3>1
    <3>2. CASE ~ (s.best <= s.S)
      <4>1. t = Drain(raised)
        BY <2>1, <3>2
      <4> HIDE DEF t
      <4>2. /\ Well(t) /\ Same(raised, t) /\ Heard(raised, t) /\ t.bRun = raised.bRun /\ t.bOpen = raised.bOpen
            /\ t.marks = raised.marks /\ t.phase = raised.phase
            /\ Applied(raised) => Applied(t)
        BY <2>5, <4>1, DrainSteady
      <4>3. Same(s, t) /\ Heard(s, t)
        BY <2>3, <4>2 DEF Same, Heard
      <4> QED BY <2>3, <2>6, <4>2, <4>3
    <3> QED BY <3>1, <3>2
  <2> HIDE DEF t
  <2>8. Waited(s, t)
    BY <1>2, <2>7 DEF Waited, GateHolds, Marked, Same
  <2>9. Shows(s) => Shows(t)
    BY <2>7 DEF Shows, Same
  <2> QED BY <2>7, <2>8, <2>9 DEF Steady, t
<1> QED BY <1>1, <1>2

(* Freeing ids a peer has in flight is a tail step, and frees those alone. *)
LEMMA FreeSteady ==
  ASSUME NEW s, Well(s), NEW p, NEW ids
  PROVE  LET t == FreeIds(s, p, ids)
         IN Well(t) /\ Steady(s, t) /\ t.bRun = s.bRun /\ t.marks = s.marks /\ t.bOpen = s.bOpen
              /\ t.phase = s.phase /\ t.applied = s.applied /\ t.S = s.S
              /\ \A i \in Ids : t.inFlight[i] = IF i \in ids /\ s.inFlight[i] = p THEN None ELSE s.inFlight[i]
<1> DEFINE f == [i \in Ids |-> IF i \in ids /\ s.inFlight[i] = p THEN None ELSE s.inFlight[i]]
           t == [s EXCEPT !.inFlight = f]
<1>1. FreeIds(s, p, ids) = t
  BY DEF FreeIds
<1>2. f \in [Ids -> Peers \cup {None}] /\ \A i \in Ids : f[i] = IF i \in ids /\ s.inFlight[i] = p THEN None ELSE s.inFlight[i]
  BY DEF Well, Typed, Machines
<1> HIDE DEF f
<1>3. /\ Same(s, t) /\ t.queue = s.queue /\ t.marks = s.marks /\ t.S = s.S /\ t.bRun = s.bRun
      /\ t.bOpen = s.bOpen /\ t.phase = s.phase /\ t.applied = s.applied /\ t.omitted = s.omitted
      /\ t.inFlight = f
  BY DEF Well, Typed, Machines, Same
<1>4. Typed(t)
  BY <1>2 DEF Well, Typed, Machines
<1> HIDE DEF t
<1>5. Runs(t)
  BY <1>2, <1>3 DEF Well, Runs, Same
<1>6. EventsSound(t) /\ JudgedKnown(t)
  BY <1>3 DEF Well, EventsSound, EventSound, JudgedKnown, Same
<1>7. Left(t)
  <2> SUFFICES ASSUME NEW q \in Peers \ s.connected
               PROVE  Told(t, q) \/ (Cleared(t, q) /\ (q \in t.closing \/ t.omitted[q] = {}))
    BY <1>3 DEF Left, Same
  <2>1. Told(s, q) \/ (Cleared(s, q) /\ (q \in s.closing \/ s.omitted[q] = {}))
    BY DEF Well, Left
  <2>2. Told(s, q) => Told(t, q)
    BY <1>3 DEF Told
  <2>3. q # None
    BY NoneAssumption
  <2>4. Cleared(s, q) => Cleared(t, q)
    BY <1>2, <1>3, <2>3 DEF Cleared, Same
  <2> QED BY <1>3, <2>1, <2>2, <2>4 DEF Same
<1>8. Heard(s, t) /\ Waited(s, t)
  BY <1>3 DEF Heard, Waited, Marked, Well, Typed, Machines
<1>9. (Applied(s) => Applied(t)) /\ (Shows(s) => Shows(t))
  BY <1>3 DEF Applied, Shows, FullyApplied, Same
<1> QED BY <1>1, <1>2, <1>3, <1>4, <1>5, <1>6, <1>7, <1>8, <1>9 DEF Well, Steady

(* Wanted blocks are ids. *)
LEMMA WantedAre ==
  ASSUME NEW s, Typed(s)
  PROVE  WantedBlocks(s) \subseteq Ids
<1>1. s.applied \in 0 .. Top /\ s.best \in 0 .. Top /\ Top \in Nat
  BY SizeAssumption DEF Typed, Machines
<1> QED BY <1>1 DEF WantedBlocks, Ids

(* Starting a block run, or finding nothing to ask for, is a tail step. *)
LEMMA StartSteady ==
  ASSUME NEW s, Well(s), NEW p \in Peers
  PROVE  LET t == StartBlockRun(s, p) IN Well(t) /\ Steady(s, t) /\ t.marks = s.marks /\ t.S = s.S
<1> DEFINE ids == Batch(s, p)
           f == [i \in Ids |-> IF i \in ids THEN p ELSE s.inFlight[i]]
           run == [at |-> "asked", ids |-> ids]
           t == [s EXCEPT !.bOpen = @ \cup {p}, !.inFlight = f, !.bRun[p] = run, !.phase = "syncing"]
<1>1. CASE ids = {} \/ p \notin s.connected \/ Marked(s, p) \/ p \in s.bOpen
  BY <1>1, SteadyRefl DEF StartBlockRun, Well
<1>2. CASE ~ (ids = {} \/ p \notin s.connected \/ Marked(s, p) \/ p \in s.bOpen)
  <2>1. StartBlockRun(s, p) = t
    BY <1>2 DEF StartBlockRun
  <2>2. ids \subseteq Ids
    BY WantedAre DEF Well, Batch, Lowest
  <2>3. run \in BlockRuns /\ run # None /\ run.at = "asked" /\ run.ids = ids
    BY <2>2, NoneAssumption DEF BlockRuns
  <2>4. f \in [Ids -> Peers \cup {None}] /\ \A i \in Ids : f[i] = IF i \in ids THEN p ELSE s.inFlight[i]
    BY DEF Well, Typed, Machines
  <2>5. p \in s.connected /\ p \notin s.bOpen /\ s.bRun[p] = None
    BY <1>2 DEF Well, Runs
  <2> HIDE DEF ids, run, f
  <2>6. /\ Same(s, t) /\ t.queue = s.queue /\ t.marks = s.marks /\ t.S = s.S
        /\ t.bOpen = s.bOpen \cup {p} /\ t.phase = "syncing" /\ t.applied = s.applied /\ t.omitted = s.omitted
        /\ t.inFlight = f
    BY DEF Well, Typed, Machines, Same
  <2>7. t.bRun[p] = run /\ \A q \in Peers : q # p => t.bRun[q] = s.bRun[q]
    BY DEF Well, Typed, Machines
  <2>8. Typed(t)
    BY <2>3, <2>4 DEF Well, Typed, Machines
  <2> HIDE DEF t
  <2>9. Runs(t)
    <3>1. \A i \in Ids : t.inFlight[i] # None => t.bRun[t.inFlight[i]] # None /\ i \in t.bRun[t.inFlight[i]].ids
      <4> TAKE i \in Ids
      <4> HAVE t.inFlight[i] # None
      <4>1. CASE i \in ids
        BY <2>3, <2>4, <2>6, <2>7, <4>1
      <4>2. CASE i \notin ids
        <5>1. t.inFlight[i] = s.inFlight[i] /\ s.inFlight[i] \in Peers
          BY <2>4, <2>6, <4>2 DEF Well, Typed, Machines
        <5>2. s.bRun[s.inFlight[i]] # None /\ i \in s.bRun[s.inFlight[i]].ids
          BY <5>1, NoneAssumption DEF Well, Runs
        <5>3. s.inFlight[i] # p
          BY <2>5, <5>2
        <5> QED BY <2>7, <5>1, <5>2, <5>3
      <4> QED BY <4>1, <4>2
    <3>2. \A q \in Peers : q \in t.bOpen => t.bRun[q] # None
      BY <2>3, <2>6, <2>7 DEF Well, Runs
    <3>3. \A q \in t.connected : t.bRun[q] # None => q \in t.bOpen
      BY <2>6, <2>7 DEF Well, Runs, Same, Typed, Machines
    <3> QED BY <2>6, <3>1, <3>2, <3>3 DEF Well, Runs, Same
  <2>10. EventsSound(t)
    BY <2>6 DEF Well, EventsSound, EventSound, Same
  <2>11. JudgedKnown(t)
    BY <2>3, <2>6, <2>7 DEF Well, JudgedKnown, Same
  <2>12. Left(t)
    <3> SUFFICES ASSUME NEW q \in Peers \ s.connected
                 PROVE  Told(t, q) \/ (Cleared(t, q) /\ (q \in t.closing \/ t.omitted[q] = {}))
      BY <2>6 DEF Left, Same
    <3>1. Told(s, q) \/ (Cleared(s, q) /\ (q \in s.closing \/ s.omitted[q] = {}))
      BY DEF Well, Left
    <3>2. Told(s, q) => Told(t, q)
      BY <2>6 DEF Told
    <3>3. q # p
      BY <2>5
    <3>4. Cleared(s, q) => Cleared(t, q)
      BY <2>4, <2>6, <3>3 DEF Cleared, Same
    <3> QED BY <2>6, <3>1, <3>2, <3>4 DEF Same
  <2>13. Heard(s, t) /\ Waited(s, t)
    BY <2>6 DEF Heard, Waited, Marked, Well, Typed, Machines
  <2>14. Applied(t) /\ Shows(t)
    BY <2>6 DEF Applied, Shows
  <2>15. \A q \in Peers : s.bRun[q] # None => t.bRun[q] = s.bRun[q]
    BY <2>5, <2>7
  <2> QED BY <2>1, <2>6, <2>8, <2>9, <2>10, <2>11, <2>12, <2>13, <2>14, <2>15 DEF Well, Steady
<1> QED BY <1>1, <1>2

(* Starting a block run for one peer after another is a tail step. *)
LEMMA EachStart ==
  ASSUME NEW s, Well(s), NEW peers \in Seq(Peers)
  PROVE  LET t == Each(s, StartBlockRun, peers) IN Well(t) /\ Steady(s, t) /\ t.marks = s.marks /\ t.S = s.S
<1> DEFINE n == Len(peers)
           D == {t \in Machines : Well(t) /\ Steady(s, t) /\ t.marks = s.marks /\ t.S = s.S}
           F == [i \in 1 .. n |-> [t \in D |-> StartBlockRun(t, peers[i])]]
           Is(g) == g = [i \in 0 .. n |-> IF i = 0 THEN s
                                          ELSE CHOOSE t \in {StartBlockRun(x, peers[i]) : x \in {g[i - 1]}} : TRUE]
           left == CHOOSE g : Is(g)
<1>0. n \in Nat /\ \A i \in 1 .. n : peers[i] \in Peers
  OBVIOUS
<1>1. s \in D
  BY SteadyRefl DEF Well, Typed
<1>2. ASSUME NEW t \in D, NEW i \in 1 .. n PROVE StartBlockRun(t, peers[i]) \in D
  <2>1. Well(StartBlockRun(t, peers[i])) /\ Steady(t, StartBlockRun(t, peers[i])) /\ StartBlockRun(t, peers[i]).marks = t.marks
       /\ StartBlockRun(t, peers[i]).S = t.S
    BY <1>0, StartSteady
  <2> DEFINE u == StartBlockRun(t, peers[i])
  <2> HIDE DEF u
  <2>2. Well(u) /\ Steady(t, u) /\ u.marks = t.marks /\ u.S = t.S
    BY <2>1 DEF u
  <2>3. Steady(s, u)
    BY <2>2, SteadyTrans DEF Well
  <2> QED BY <2>2, <2>3 DEF Well, Typed, u
<1>3. F \in [1 .. n -> [D -> D]] /\ \A i \in 1 .. n : \A t \in D : F[i][t] = StartBlockRun(t, peers[i])
  <2> HIDE DEF D, n
  <2> QED BY <1>2
<1> HIDE DEF F, D, n
<1>4. PICK g \in [0 .. n -> D] : g[0] = s /\ \A i \in 1 .. n : g[i] = F[i][g[i - 1]]
  <2>1. Defined(n, D, s, F)
    BY <1>0, <1>1, <1>3, Recursion
  <2> QED BY <2>1 DEF Defined
<1>5. \A i \in 0 .. n : g[i] = IF i = 0 THEN s ELSE CHOOSE t \in {StartBlockRun(x, peers[i]) : x \in {g[i - 1]}} : TRUE
  <2> TAKE i \in 0 .. n
  <2>1. CASE i = 0
    BY <1>4, <2>1
  <2>2. CASE i # 0
    <3>1. i \in 1 .. n /\ i - 1 \in 0 .. n
      BY <1>0, <2>2
    <3>2. g[i] = StartBlockRun(g[i - 1], peers[i])
      BY <1>3, <1>4, <3>1
    <3> QED BY <2>2, <3>2
  <2> QED BY <2>1, <2>2
<1>6. Is(g)
  BY <1>4, <1>5
<1>7. Each(s, StartBlockRun, peers) = left[n]
  BY DEF Each, After, n
<1> HIDE DEF Is
<1>8. Is(left)
  BY <1>6
<1>9. Is(left) => \A i \in 0 .. n : left[i] = IF i = 0 THEN s ELSE StartBlockRun(left[i - 1], peers[i])
  <2> HIDE DEF left
  <2> QED BY DEF Is
<1> HIDE DEF left
<1>10. \A i \in 0 .. n : left[i] = IF i = 0 THEN s ELSE StartBlockRun(left[i - 1], peers[i])
  BY <1>8, <1>9
<1> DEFINE T == {i \in 0 .. n : left[i] \in D}
<1>11. 0 \in T /\ \A i \in 1 .. n : i - 1 \in T => i \in T
  <2>1. 0 \in T
    BY <1>0, <1>1, <1>10
  <2>2. ASSUME NEW i \in 1 .. n, i - 1 \in T PROVE i \in T
    <3>1. left[i] = StartBlockRun(left[i - 1], peers[i]) /\ left[i - 1] \in D
      BY <1>0, <1>10, <2>2
    <3> QED BY <1>2, <3>1
  <2> QED BY <2>1, <2>2
<1>12. 0 .. n \subseteq T
  <2> HIDE DEF T
  <2> QED BY <1>0, <1>11, Upto
<1>13. left[n] \in D
  BY <1>0, <1>12
<1> QED BY <1>7, <1>13 DEF D

(* kickBlockPump is a tail step. *)
LEMMA PumpSteady ==
  ASSUME NEW s, Well(s)
  PROVE  LET t == KickBlockPump(s) IN Well(t) /\ Steady(s, t) /\ t.marks = s.marks /\ t.S = s.S
<1> DEFINE wanted == WantedBlocks(s)
           f == [i \in Ids |-> IF i \in wanted THEN s.inFlight[i] ELSE None]
           o == [p \in Peers |-> s.omitted[p] \cap wanted]
           purged == [s EXCEPT !.omitted = o, !.inFlight = f]
<1>1. KickBlockPump(s) = Each(purged, StartBlockRun, s.order)
  BY DEF KickBlockPump
<1>2. /\ f \in [Ids -> Peers \cup {None}] /\ \A i \in Ids : f[i] = s.inFlight[i] \/ f[i] = None
      /\ o \in [Peers -> SUBSET Ids] /\ \A p \in Peers : o[p] \subseteq s.omitted[p]
  BY DEF Well, Typed, Machines
<1> HIDE DEF f, o
<1>3. /\ Same(s, purged) /\ purged.queue = s.queue /\ purged.marks = s.marks /\ purged.S = s.S
      /\ purged.bOpen = s.bOpen /\ purged.phase = s.phase /\ purged.applied = s.applied /\ purged.omitted = o
      /\ purged.inFlight = f /\ purged.bRun = s.bRun
  BY DEF Well, Typed, Machines, Same
<1>4. Typed(purged)
  BY <1>2 DEF Well, Typed, Machines
<1> HIDE DEF purged
<1>5. Runs(purged)
  BY <1>2, <1>3 DEF Well, Runs, Same
<1>6. EventsSound(purged) /\ JudgedKnown(purged)
  BY <1>3 DEF Well, EventsSound, EventSound, JudgedKnown, Same
<1>7. Left(purged)
  <2> SUFFICES ASSUME NEW q \in Peers \ s.connected
               PROVE  Told(purged, q) \/ (Cleared(purged, q) /\ (q \in purged.closing \/ purged.omitted[q] = {}))
    BY <1>3 DEF Left, Same
  <2>1. Told(s, q) \/ (Cleared(s, q) /\ (q \in s.closing \/ s.omitted[q] = {}))
    BY DEF Well, Left
  <2>2. Told(s, q) => Told(purged, q)
    BY <1>3 DEF Told
  <2>3. q # None
    BY NoneAssumption
  <2>4. Cleared(s, q) => Cleared(purged, q)
    BY <1>2, <1>3, <2>3 DEF Cleared, Same
  <2>5. s.omitted[q] = {} => purged.omitted[q] = {}
    BY <1>2, <1>3
  <2> QED BY <1>3, <2>1, <2>2, <2>4, <2>5 DEF Same
<1>8. Heard(s, purged) /\ Waited(s, purged)
  BY <1>3 DEF Heard, Waited, Marked, Well, Typed, Machines
<1>9. (Applied(s) => Applied(purged)) /\ (Shows(s) => Shows(purged))
  BY <1>3 DEF Applied, Shows, FullyApplied, Same
<1>10. Well(purged) /\ Steady(s, purged) /\ s.order \in Seq(Peers)
  BY <1>3, <1>4, <1>5, <1>6, <1>7, <1>8, <1>9 DEF Well, Steady, Typed, Machines
<1> DEFINE t == Each(purged, StartBlockRun, s.order)
<1>11. Well(t) /\ Steady(purged, t) /\ t.marks = purged.marks /\ t.S = purged.S
  BY <1>10, EachStart
<1> HIDE DEF t
<1>12. Steady(s, t)
  BY <1>10, <1>11, SteadyTrans DEF Well
<1> QED BY <1>1, <1>3, <1>11, <1>12 DEF t
-----------------------------------------------------------------------------
(* Removing the only occurrence leaves none, and no repetition. *)
LEMMA Removed ==
  ASSUME NEW S, NEW q \in Seq(S), IsInjective(q), NEW p
  PROVE  LET r == RemoveFirst(q, p)
         IN r \in Seq(S) /\ IsInjective(r) /\ \A i \in DOMAIN r : r[i] # p
<1> DEFINE I == {i \in 1 .. Len(q) : q[i] = p}
           k == Min(I)
           r == RemoveFirst(q, p)
<1>0. Len(q) \in Nat /\ DOMAIN q = 1 .. Len(q) /\ \A i, j \in 1 .. Len(q) : q[i] = q[j] => i = j
  BY DEF IsInjective
<1>1. CASE I = {}
  <2>1. r = q
    BY <1>1 DEF RemoveFirst
  <2> QED BY <1>0, <1>1, <2>1
<1>2. CASE I # {}
  <2>1. k \in I
    <3>1. I \subseteq Nat
      OBVIOUS
    <3> HIDE DEF I
    <3> QED BY <1>2, <3>1, MinOf
  <2>2. SelectInSeq(q, LAMBDA v : v = p) = k
    BY <1>2 DEF SelectInSeq
  <2>3. r = SubSeq(q, 1, k - 1) \o SubSeq(q, k + 1, Len(q))
    BY <1>2, <2>2 DEF RemoveFirst, RemoveAt
  <2>4. k \in 1 .. Len(q) /\ q[k] = p
    BY <2>1
  <2> HIDE DEF k, I
  <2> DEFINE a == SubSeq(q, 1, k - 1)
             b == SubSeq(q, k + 1, Len(q))
  <2>5. /\ a \in Seq(S) /\ Len(a) = k - 1 /\ \A i \in 1 .. k - 1 : a[i] = q[i]
        /\ b \in Seq(S) /\ Len(b) = Len(q) - k /\ \A i \in 1 .. Len(q) - k : b[i] = q[k + i]
    <3>1. /\ 1 \in Int /\ k - 1 \in Int /\ k + 1 \in Int /\ Len(q) \in Int
          /\ \A i \in 1 .. k - 1 : q[i] \in S
          /\ \A i \in k + 1 .. Len(q) : q[i] \in S
      BY <1>0, <2>4
    <3>2. /\ a \in Seq(S) /\ Len(a) = IF 1 <= k - 1 THEN k - 1 - 1 + 1 ELSE 0
          /\ \A i \in 1 .. k - 1 - 1 + 1 : a[i] = q[1 + i - 1]
      BY <3>1, SubSeqProperties
    <3>3. /\ b \in Seq(S) /\ Len(b) = IF k + 1 <= Len(q) THEN Len(q) - (k + 1) + 1 ELSE 0
          /\ \A i \in 1 .. Len(q) - (k + 1) + 1 : b[i] = q[k + 1 + i - 1]
      <4> DEFINE l == k + 1
      <4>1. l \in Int /\ \A i \in l .. Len(q) : q[i] \in S
        BY <3>1
      <4> HIDE DEF l
      <4>2. /\ SubSeq(q, l, Len(q)) \in Seq(S)
            /\ Len(SubSeq(q, l, Len(q))) = IF l <= Len(q) THEN Len(q) - l + 1 ELSE 0
            /\ \A i \in 1 .. Len(q) - l + 1 : SubSeq(q, l, Len(q))[i] = q[l + i - 1]
        BY <3>1, <4>1, SubSeqProperties
      <4> QED BY <4>2 DEF l
    <3> HIDE DEF a, b
    <3>4. Len(a) = k - 1 /\ Len(b) = Len(q) - k
      <4>1. Len(a) = (IF 1 <= k - 1 THEN k - 1 - 1 + 1 ELSE 0) /\ k \in Nat /\ k >= 1
        BY <1>0, <2>4, <3>2
      <4>2. Len(a) = k - 1
        BY <4>1
      <4>3. Len(b) = (IF k + 1 <= Len(q) THEN Len(q) - (k + 1) + 1 ELSE 0)
        BY <3>3
      <4>4. (IF k + 1 <= Len(q) THEN Len(q) - (k + 1) + 1 ELSE 0) = Len(q) - k
        <5>1. k \in Nat /\ k >= 1 /\ k <= Len(q) /\ Len(q) \in Nat
          BY <1>0, <2>4
        <5>2. CASE k + 1 <= Len(q)
          BY <5>1, <5>2
        <5>3. CASE ~ (k + 1 <= Len(q))
          BY <5>1, <5>3
        <5> QED BY <5>2, <5>3
      <4> QED BY <4>2, <4>3, <4>4
    <3>5. \A i \in 1 .. k - 1 : a[i] = q[i]
      <4> TAKE i \in 1 .. k - 1
      <4>1. i \in 1 .. k - 1 - 1 + 1 /\ 1 + i - 1 = i
        BY <1>0, <2>4
      <4> QED BY <3>2, <4>1
    <3>6. \A i \in 1 .. Len(q) - k : b[i] = q[k + i]
      <4> TAKE i \in 1 .. Len(q) - k
      <4>1. i \in 1 .. Len(q) - (k + 1) + 1 /\ k + 1 + i - 1 = k + i
        BY <1>0, <2>4
      <4> QED BY <3>3, <4>1
    <3> QED BY <3>2, <3>3, <3>4, <3>5, <3>6
  <2> HIDE DEF a, b
  <2>6. /\ a \o b \in Seq(S) /\ Len(a \o b) = Len(q) - 1
        /\ \A i \in 1 .. Len(q) - 1 : (a \o b)[i] = IF i < k THEN q[i] ELSE q[i + 1]
    <3>1. a \o b \in Seq(S) /\ Len(a \o b) = Len(a) + Len(b)
      BY <2>5, ConcatProperties
    <3>2. \A i \in 1 .. Len(a) + Len(b) : (a \o b)[i] = IF i <= Len(a) THEN a[i] ELSE b[i - Len(a)]
      BY <2>5, ConcatProperties
    <3>3. Len(a) + Len(b) = Len(q) - 1
      BY <1>0, <2>4, <2>5
    <3>4. ASSUME NEW i \in 1 .. Len(q) - 1 PROVE (a \o b)[i] = IF i < k THEN q[i] ELSE q[i + 1]
      <4>1. CASE i < k
        BY <1>0, <2>4, <2>5, <3>2, <3>3, <4>1
      <4>2. CASE ~ (i < k)
        <5>1. i - Len(a) \in 1 .. Len(q) - k /\ k + (i - Len(a)) = i + 1 /\ ~ (i <= Len(a))
          BY <1>0, <2>4, <2>5, <4>2
        <5>2. (a \o b)[i] = b[i - Len(a)]
          BY <3>2, <3>3, <5>1
        <5> QED BY <2>5, <4>2, <5>1, <5>2
      <4> QED BY <4>1, <4>2
    <3> QED BY <3>1, <3>3, <3>4
  <2>7. r = a \o b
    BY <2>3 DEF a, b
  <2> HIDE DEF r
  <2>8. r \in Seq(S) /\ DOMAIN r = 1 .. Len(q) - 1 /\ \A i \in 1 .. Len(q) - 1 : r[i] = IF i < k THEN q[i] ELSE q[i + 1]
    BY <2>6, <2>7
  <2>9. \A i \in DOMAIN r : r[i] # p
    BY <1>0, <2>4, <2>8
  <2>10. \A i, j \in DOMAIN r : r[i] = r[j] => i = j
    BY <1>0, <2>4, <2>8
  <2> QED BY <2>8, <2>9, <2>10 DEF IsInjective, r
<1> QED BY <1>1, <1>2

(* Appending what does not occur makes no repetition. *)
LEMMA AppendOnce ==
  ASSUME NEW S, NEW q \in Seq(S), IsInjective(q), NEW p \in S, \A i \in DOMAIN q : q[i] # p
  PROVE  Append(q, p) \in Seq(S) /\ IsInjective(Append(q, p))
<1> DEFINE r == Append(q, p)
<1>1. /\ r \in Seq(S) /\ Len(q) \in Nat /\ DOMAIN q = 1 .. Len(q) /\ DOMAIN r = 1 .. Len(q) + 1
      /\ r[Len(q) + 1] = p /\ \A i \in 1 .. Len(q) : r[i] = q[i]
  OBVIOUS
<1> HIDE DEF r
<1>2. \A i, j \in 1 .. Len(q) : q[i] = q[j] => i = j
  BY <1>1 DEF IsInjective
<1>3. \A i, j \in DOMAIN r : r[i] = r[j] => i = j
  BY <1>1, <1>2
<1> QED BY <1>1, <1>3 DEF IsInjective, r

(* The part of a sequence without repetitions has none. *)
LEMMA PartOnce ==
  ASSUME NEW S, NEW q \in Seq(S), IsInjective(q), NEW k \in 1 .. Len(q) + 1
  PROVE  SubSeq(q, k, Len(q)) \in Seq(S) /\ IsInjective(SubSeq(q, k, Len(q)))
<1> DEFINE r == SubSeq(q, k, Len(q))
<1>1. /\ r \in Seq(S) /\ Len(q) \in Nat /\ DOMAIN q = 1 .. Len(q) /\ DOMAIN r = 1 .. Len(q) - k + 1
      /\ \A i \in 1 .. Len(q) - k + 1 : r[i] = q[k + i - 1]
  OBVIOUS
<1> HIDE DEF r
<1>2. \A i, j \in 1 .. Len(q) : q[i] = q[j] => i = j
  BY <1>1 DEF IsInjective
<1>3. ASSUME NEW i \in DOMAIN r, NEW j \in DOMAIN r, r[i] = r[j] PROVE i = j
  <2>1. k + i - 1 \in 1 .. Len(q) /\ k + j - 1 \in 1 .. Len(q) /\ i \in Int /\ j \in Int
    BY <1>1
  <2>2. q[k + i - 1] = q[k + j - 1]
    BY <1>1, <1>3
  <2>3. k + i - 1 = k + j - 1
    BY <1>2, <2>1, <2>2
  <2> QED BY <2>1, <2>3
<1> QED BY <1>1, <1>3 DEF IsInjective, r

(* What After chooses from. *)
LEMMA After1 == ASSUME NEW v PROVE (CHOOSE t \in {v} : TRUE) = v
  OBVIOUS

\* As Steady, but a mark may be dropped first.
Moved(s, t) ==
  /\ Same(s, t) /\ Heard(s, t)
  /\ t.S > s.S => \A p \in s.hOpen : Marked(t, p) \/ p \notin s.outbound
  /\ \A p \in Peers : s.bRun[p] # None => t.bRun[p] = s.bRun[p]
  /\ Applied(s) => Applied(t)
  /\ Shows(s) => Shows(t)

(* Marking a peer frees its ids and pumps; the oldest mark may go. *)
LEMMA MarkMoved ==
  ASSUME NEW s, Well(s), NEW p \in Peers
  PROVE  LET t == MarkPeer(s, p) IN Well(t) /\ Moved(s, t)
<1> DEFINE marks == Append(RemoveFirst(s.marks, p), p)
           kept == IF Len(marks) > MaxStallMarks THEN Tail(marks) ELSE marks
           s1 == [s EXCEPT !.marks = kept]
           s2 == EvaluateGate(s1)
           s3 == FreeIds(s2, p, Ids)
           t == KickBlockPump(s3)
<1>1. MarkPeer(s, p) = t
  <2>1. After(s1, EvaluateGate) = s2
    BY After1 DEF After
  <2>2. After(s3, KickBlockPump) = t
    BY After1 DEF After
  <2>3. MarkPeer(s, p) = After(FreeIds(After(s1, EvaluateGate), p, Ids), KickBlockPump)
    BY DEF MarkPeer
  <2> QED BY <2>1, <2>2, <2>3
<1>2. marks \in Seq(Peers) /\ IsInjective(marks) /\ Len(marks) \in Nat /\ Len(marks) > 0
  <2> DEFINE r == RemoveFirst(s.marks, p)
  <2>1. r \in Seq(Peers) /\ IsInjective(r) /\ \A i \in DOMAIN r : r[i] # p
    BY Removed DEF Well, Typed, Machines
  <2> HIDE DEF r
  <2>2. Append(r, p) \in Seq(Peers) /\ IsInjective(Append(r, p))
    BY <2>1, AppendOnce
  <2> QED BY <2>1, <2>2 DEF r
<1> HIDE DEF marks
<1>3. kept \in Seq(Peers) /\ IsInjective(kept)
  <2>1. Tail(marks) = SubSeq(marks, 2, Len(marks))
    BY <1>2
  <2>2. 2 \in 1 .. Len(marks) + 1
    BY <1>2
  <2> QED BY <1>2, <2>1, <2>2, PartOnce
<1> HIDE DEF kept
<1>4. Typed(s1)
  BY <1>3 DEF Well, Typed, Machines
<1>5. /\ Same(s, s1) /\ s1.queue = s.queue /\ s1.S = s.S /\ s1.bOpen = s.bOpen /\ s1.phase = s.phase
      /\ s1.applied = s.applied /\ s1.omitted = s.omitted /\ s1.inFlight = s.inFlight /\ s1.bRun = s.bRun
  BY DEF Well, Typed, Machines, Same
<1> HIDE DEF s1
<1>6. Heard(s, s1) /\ (Applied(s) => Applied(s1)) /\ (Shows(s) => Shows(s1))
  BY <1>5 DEF Heard, Applied, Shows, FullyApplied, Same, Well, Typed, Machines
<1>7. Well(s1)
  BY <1>4, <1>5, <1>6, WellHeard
<1>8. Well(s2) /\ Steady(s1, s2)
  BY <1>7, GateSteady
<1> HIDE DEF s2
<1>9. Well(s3) /\ Steady(s2, s3)
  BY <1>8, FreeSteady
<1> HIDE DEF s3
<1>10. Well(t) /\ Steady(s3, t)
  BY <1>9, PumpSteady
<1> HIDE DEF t
<1>11. Steady(s1, s3)
  BY <1>7, <1>8, <1>9, SteadyTrans DEF Well
<1>12. Steady(s1, t)
  BY <1>7, <1>9, <1>10, <1>11, SteadyTrans DEF Well
<1>13. Same(s, t) /\ Heard(s, t)
  BY <1>5, <1>6, <1>12 DEF Steady, Same, Heard
<1>14. t.S > s.S => \A q \in s.hOpen : Marked(t, q) \/ q \notin s.outbound
  BY <1>5, <1>12 DEF Steady, Waited, Same
<1>15. \A q \in Peers : s.bRun[q] # None => t.bRun[q] = s.bRun[q]
  BY <1>5, <1>12 DEF Steady
<1> QED BY <1>1, <1>6, <1>10, <1>12, <1>13, <1>14, <1>15 DEF Moved, Steady
-----------------------------------------------------------------------------
(* Every tail the handlers end with is a tail step, and leaves the phase true. *)
LEMMA Tails ==
  ASSUME NEW s, Well(s)
  PROVE  /\ LET t == After(After(s, RecomputePhase), EvaluateGate)
            IN Well(t) /\ Steady(s, t) /\ Applied(t) /\ Shows(t)
         /\ LET t == After(After(After(s, RecomputePhase), EvaluateGate), KickBlockPump)
            IN Well(t) /\ Steady(s, t) /\ Applied(t) /\ Shows(t)
         /\ LET t == After(After(s, RecomputePhase), KickBlockPump)
            IN Well(t) /\ Steady(s, t) /\ Applied(t) /\ Shows(t) /\ t.S = s.S
         /\ LET t == After(After(s, KickBlockPump), RecomputePhase)
            IN Well(t) /\ Steady(s, t) /\ Applied(t) /\ Shows(t) /\ t.S = s.S
<1> DEFINE a == RecomputePhase(s)
           b == EvaluateGate(a)
           c == KickBlockPump(b)
           d == KickBlockPump(a)
           e == KickBlockPump(s)
           f == RecomputePhase(e)
<1>1. After(s, RecomputePhase) = a
  BY After1 DEF After
<1>2. After(s, KickBlockPump) = e
  BY After1 DEF After
<1>3. Well(a) /\ Steady(s, a) /\ Applied(a) /\ Shows(a) /\ a.S = s.S
  BY RecomputeSteady
<1>4. Well(e) /\ Steady(s, e) /\ e.S = s.S
  BY PumpSteady
<1> HIDE DEF a, e
<1>5. After(a, EvaluateGate) = b
  BY After1 DEF After
<1>6. After(a, KickBlockPump) = d
  BY After1 DEF After
<1>7. After(e, RecomputePhase) = f
  BY After1 DEF After
<1>8. Well(b) /\ Steady(a, b)
  BY <1>3, GateSteady
<1>9. Well(d) /\ Steady(a, d) /\ d.S = a.S
  BY <1>3, PumpSteady
<1>10. Well(f) /\ Steady(e, f) /\ Applied(f) /\ Shows(f) /\ f.S = e.S
  BY <1>4, RecomputeSteady
<1> HIDE DEF b, d, f
<1>11. After(b, KickBlockPump) = c
  BY After1 DEF After
<1>12. Well(c) /\ Steady(b, c)
  BY <1>8, PumpSteady
<1> HIDE DEF c
<1>13. Steady(s, b)
  BY <1>3, <1>8, SteadyTrans DEF Well
<1>14. Steady(s, c)
  BY <1>8, <1>12, <1>13, SteadyTrans DEF Well
<1>15. Steady(s, d)
  BY <1>3, <1>9, SteadyTrans DEF Well
<1>16. Steady(s, f)
  BY <1>4, <1>10, SteadyTrans DEF Well
<1>17. Applied(b) /\ Shows(b) /\ Applied(c) /\ Shows(c) /\ Applied(d) /\ Shows(d)
  BY <1>3, <1>8, <1>9, <1>12 DEF Steady
<1>18. LET t == After(After(s, RecomputePhase), EvaluateGate)
       IN Well(t) /\ Steady(s, t) /\ Applied(t) /\ Shows(t)
  BY <1>1, <1>5, <1>8, <1>13, <1>17
<1>19. LET t == After(After(After(s, RecomputePhase), EvaluateGate), KickBlockPump)
       IN Well(t) /\ Steady(s, t) /\ Applied(t) /\ Shows(t)
  BY <1>1, <1>5, <1>11, <1>12, <1>14, <1>17
<1>20. LET t == After(After(s, RecomputePhase), KickBlockPump)
       IN Well(t) /\ Steady(s, t) /\ Applied(t) /\ Shows(t) /\ t.S = s.S
  BY <1>1, <1>3, <1>6, <1>9, <1>15, <1>17
<1>21. LET t == After(After(s, KickBlockPump), RecomputePhase)
       IN Well(t) /\ Steady(s, t) /\ Applied(t) /\ Shows(t) /\ t.S = s.S
  BY <1>2, <1>4, <1>7, <1>10, <1>16
<1> QED BY <1>18, <1>19, <1>20, <1>21

\* What Well is about, besides the types.
Alike(s, t) ==
  /\ t.claims = s.claims /\ t.held = s.held /\ t.outbound = s.outbound
  /\ t.bOpen = s.bOpen /\ t.bRun = s.bRun /\ t.inFlight = s.inFlight /\ t.omitted = s.omitted
  /\ t.connected = s.connected /\ t.closing = s.closing /\ t.queue = s.queue

(* A record that differs in its header runs keeps Well, if open and running still agree. *)
LEMMA WellHeaders ==
  ASSUME NEW s, NEW t, Well(s), Typed(t), Alike(s, t),
         \A q \in Peers : q \in t.hOpen => t.hRun[q] # None /\ (q \in s.hOpen \/ q \in s.connected),
         \A q \in s.connected : t.hRun[q] # None => q \in t.hOpen
  PROVE  Well(t)
<1>1. Runs(t) /\ JudgedKnown(t)
  BY DEF Well, Runs, JudgedKnown, Alike
<1>2. EventsSound(t)
  BY DEF Well, EventsSound, EventSound, Alike
<1>3. Left(t)
  <2> SUFFICES ASSUME NEW p \in Peers \ s.connected
               PROVE  Told(t, p) \/ (Cleared(t, p) /\ (p \in t.closing \/ t.omitted[p] = {}))
    BY DEF Left, Alike
  <2>1. Told(s, p) \/ (Cleared(s, p) /\ (p \in s.closing \/ s.omitted[p] = {}))
    BY DEF Well, Left
  <2>2. Told(s, p) => Told(t, p)
    BY DEF Told, Alike
  <2>3. Cleared(s, p) => Cleared(t, p)
    BY DEF Cleared, Alike
  <2> QED BY <2>1, <2>2, <2>3 DEF Alike
<1> QED BY <1>1, <1>2, <1>3 DEF Well

(* Sound depends on the queue only as far as it has been heard. *)
LEMMA SoundHeard ==
  ASSUME NEW s, NEW t, NEW tips, Sound(s, tips), Well(t), Same(s, t), Heard(s, t)
  PROVE  Sound(t, tips)
<1>1. ASSUME NEW p \in Peers \ Liars, NEW i \in DOMAIN t.queue, t.queue[i].peer = p
      PROVE  Own(t.queue[i].claim, tips[p])
  <2>1. CASE i \in DOMAIN s.queue
    BY <1>1, <2>1 DEF Sound, Honest, Heard
  <2>2. CASE i \notin DOMAIN s.queue
    BY <1>1, <2>2, NoneAssumption DEF Heard, ChainMovedEvent, Event
  <2> QED BY <2>1, <2>2
<1>2. Honest(t, tips)
  BY <1>1 DEF Sound, Honest, Same
<1>3. Needless(s) => Needless(t)
  <2> SUFFICES ASSUME Needless(s), NEW i \in DOMAIN t.queue PROVE t.queue[i].type # "need-headers"
    BY DEF Needless
  <2>1. CASE i \in DOMAIN s.queue
    BY <2>1 DEF Heard, Needless
  <2>2. CASE i \notin DOMAIN s.queue
    BY <2>2 DEF Heard, ChainMovedEvent, Event
  <2> QED BY <2>1, <2>2
<1> QED BY <1>2, <1>3 DEF Sound

\* From s to t, p's header run has ended.
Closed(s, t, p) ==
  /\ t.connected = s.connected /\ t.outbound = s.outbound
  /\ t.hRun[p] = None
  /\ t.S > s.S => \A q \in s.hOpen : q = p \/ Marked(t, q) \/ q \notin s.outbound

\* From s to t the marks of the other open runs are kept.
Keeps(s, t, p) == \A q \in s.hOpen : q # p /\ Marked(s, q) => Marked(t, q)

(* Ending a header run leaves a sound record with a true phase; the gate rose only if the
   others were marked. *)
LEMMA EndHeaders ==
  ASSUME NEW s, NEW tips, Sound(s, tips), NEW p \in Peers
  PROVE  LET t == EndHeaderRun(s, p) IN Sound(t, tips) /\ Shown(t) /\ Closed(s, t, p) /\ Keeps(s, t, p)
<1> DEFINE u == [s EXCEPT !.hRun[p] = None, !.hOpen = @ \ {p}]
           t == EndHeaderRun(s, p)
<1>1. t = After(After(After(u, RecomputePhase), EvaluateGate), KickBlockPump)
  BY DEF EndHeaderRun
<1>2. /\ Alike(s, u) /\ u.best = s.best /\ u.S = s.S /\ u.marks = s.marks /\ u.penalised = s.penalised
      /\ u.hOpen = s.hOpen \ {p}
      /\ u.hRun[p] = None /\ \A q \in Peers : q # p => u.hRun[q] = s.hRun[q]
  BY DEF Sound, Well, Typed, Machines, Alike
<1>3. Typed(u)
  BY DEF Sound, Well, Typed, Machines
<1> HIDE DEF u
<1>4. Well(u)
  <2>1. \A q \in Peers : q \in u.hOpen => u.hRun[q] # None /\ (q \in s.hOpen \/ q \in s.connected)
    BY <1>2 DEF Sound, Well, Runs
  <2>2. \A q \in s.connected : u.hRun[q] # None => q \in u.hOpen
    BY <1>2 DEF Sound, Well, Runs, Typed, Machines
  <2> QED BY <1>2, <1>3, <2>1, <2>2, WellHeaders DEF Sound
<1>5. Sound(u, tips)
  <2>1. Honest(u, tips)
    BY <1>2 DEF Sound, Honest, Alike
  <2>2. Needless(s) => Needless(u)
    BY <1>2 DEF Needless, Alike
  <2> QED BY <1>4, <2>1, <2>2 DEF Sound
<1>6. Well(t) /\ Steady(u, t) /\ Applied(t) /\ Shows(t)
  BY <1>1, <1>4, Tails
<1> HIDE DEF t
<1>7. Sound(t, tips)
  BY <1>5, <1>6, SoundHeard DEF Steady
<1>8. Closed(s, t, p) /\ Keeps(s, t, p)
  BY <1>2, <1>6 DEF Closed, Keeps, Steady, Same, Waited, Marked, Alike
<1> QED BY <1>6, <1>7, <1>8 DEF Shown, t

(* So does marking the peer and ending its run. *)
LEMMA MarkEnds ==
  ASSUME NEW s, NEW tips, Sound(s, tips), NEW p \in Peers
  PROVE  LET t == MarkAndEnd(s, p) IN Sound(t, tips) /\ Shown(t) /\ Closed(s, t, p)
<1> DEFINE x == MarkPeer(s, p)
           t == EndHeaderRun(x, p)
<1>1. Well(x) /\ Moved(s, x)
  BY MarkMoved DEF Sound
<1> HIDE DEF x
<1>2. Sound(x, tips)
  BY <1>1, SoundHeard DEF Moved
<1>3. Sound(t, tips) /\ Shown(t) /\ Closed(x, t, p) /\ Keeps(x, t, p)
  BY <1>2, EndHeaders
<1>4. MarkAndEnd(s, p) = t
  BY After1 DEF MarkAndEnd, After, x
<1> HIDE DEF t
<1>5. s.S \in Int /\ x.S \in Int /\ t.S \in Int
  BY <1>1, <1>3 DEF Sound, Well, Typed, Machines
<1>6. t.S > s.S => \A q \in s.hOpen : q = p \/ Marked(t, q) \/ q \notin s.outbound
  <2>1. CASE x.S > s.S
    BY <1>1, <1>3, <2>1 DEF Moved, Same, Keeps
  <2>2. CASE ~ (x.S > s.S)
    BY <1>1, <1>3, <1>5, <2>2 DEF Moved, Same, Closed
  <2> QED BY <2>1, <2>2
<1>7. Closed(s, t, p)
  BY <1>1, <1>3, <1>6 DEF Closed, Moved, Same
<1> QED BY <1>3, <1>4, <1>7

\* GateWaits, of one step.
Waits(s, t) ==
  t.S > s.S =>
    \A p \in s.connected \cap s.outbound :
      s.hRun[p] # None /\ t.hRun[p] # None => Marked(s, p) \/ Marked(t, p)

(* A step that ends a header run waits for the others. *)
LEMMA ClosedWaits ==
  ASSUME NEW s, NEW t, NEW p, Well(s), Closed(s, t, p)
  PROVE  Waits(s, t)
  BY DEF Waits, Closed, Well, Runs

\* From s to t an event is pushed, as a connection opens or closes, or none does.
Sends(s, t, e) ==
  /\ e \in Events /\ t.queue = Append(s.queue, e) /\ EventSound(t, e)
  /\ t.claims = s.claims /\ t.held = s.held /\ t.outbound = s.outbound
  /\ t.hOpen = s.hOpen /\ t.bOpen = s.bOpen /\ t.hRun = s.hRun /\ t.bRun = s.bRun
  /\ t.inFlight = s.inFlight /\ t.omitted = s.omitted
  /\ t.best = s.best /\ t.applied = s.applied /\ t.penalised = s.penalised
  /\ t.phase = s.phase /\ t.S = s.S
  /\ \A p \in t.connected : p \in s.connected \/ (s.hRun[p] = None /\ s.bRun[p] = None)
  /\ \A i \in DOMAIN s.queue :
       s.queue[i].type = "peer-disconnect" => s.queue[i].peer \notin t.connected
  /\ \A p \in Peers \ t.connected :
       \/ e.type = "peer-disconnect" /\ e.peer = p
       \/ p \notin s.connected /\ (p \in s.closing => p \in t.closing)
  /\ t.connected \cap t.closing = {}
  /\ \A p \in Peers : s.bRun[p] # None /\ s.bRun[p].at # "asked" => p \in t.connected \cup t.closing

(* Pushing a sound event keeps Sound, and what was shown. *)
LEMMA SendSound ==
  ASSUME NEW s, NEW t, NEW e, NEW tips, Sound(s, tips), Typed(t), Sends(s, t, e),
         \A p \in Peers \ Liars : e.peer = p => Own(e.claim, tips[p]),
         MaxNeeds = 0 => e.type # "need-headers"
  PROVE  /\ Sound(t, tips) /\ Waits(s, t)
         /\ Shown(s) => Shown(t)
<1>1. /\ s.queue \in Seq(Events) /\ DOMAIN s.queue = 1 .. Len(s.queue) /\ Len(s.queue) \in Nat
      /\ DOMAIN t.queue = 1 .. Len(s.queue) + 1 /\ t.queue[Len(s.queue) + 1] = e
      /\ \A i \in 1 .. Len(s.queue) : t.queue[i] = s.queue[i]
  BY DEF Sound, Well, Typed, Machines, Sends
<1>2. \A i \in DOMAIN t.queue : i \in DOMAIN s.queue \/ t.queue[i] = e
  BY <1>1
<1>3. DOMAIN s.queue \subseteq DOMAIN t.queue /\ Len(s.queue) + 1 \in DOMAIN t.queue
  BY <1>1
<1>4. Runs(t)
  BY DEF Sound, Well, Runs, Sends, Typed, Machines
<1>5. EventsSound(t)
  <2> SUFFICES ASSUME NEW i \in DOMAIN t.queue PROVE EventSound(t, t.queue[i])
    BY DEF EventsSound
  <2>1. CASE i \in DOMAIN s.queue
    <3>1. t.queue[i] = s.queue[i] /\ EventSound(s, s.queue[i])
      BY <1>1, <2>1 DEF Sound, Well, EventsSound
    <3> QED BY <2>1, <3>1 DEF EventSound, Sends
  <2>2. CASE t.queue[i] = e
    BY <2>2 DEF Sends
  <2> QED BY <1>2, <2>1, <2>2
<1>6. Left(t)
  <2> SUFFICES ASSUME NEW p \in Peers \ t.connected
               PROVE  Told(t, p) \/ (Cleared(t, p) /\ (p \in t.closing \/ t.omitted[p] = {}))
    BY DEF Left
  <2>1. CASE e.type = "peer-disconnect" /\ e.peer = p
    BY <1>1, <1>3, <2>1 DEF Told
  <2>2. CASE ~ (e.type = "peer-disconnect" /\ e.peer = p)
    <3>1. p \in Peers \ s.connected /\ (p \in s.closing => p \in t.closing)
      BY <2>2 DEF Sends
    <3>2. Told(s, p) \/ (Cleared(s, p) /\ (p \in s.closing \/ s.omitted[p] = {}))
      BY <3>1 DEF Sound, Well, Left
    <3>3. Told(s, p) => Told(t, p)
      BY <1>1, <1>3 DEF Told
    <3>4. Cleared(s, p) => Cleared(t, p)
      BY DEF Cleared, Sends
    <3> QED BY <3>1, <3>2, <3>3, <3>4 DEF Sends
  <2> QED BY <2>1, <2>2
<1>7. JudgedKnown(t)
  BY DEF JudgedKnown, Sends
<1>8. Honest(t, tips)
  <2>1. ASSUME NEW p \in Peers \ Liars, NEW i \in DOMAIN t.queue, t.queue[i].peer = p
        PROVE  Own(t.queue[i].claim, tips[p])
    <3>1. CASE i \in DOMAIN s.queue
      BY <1>1, <2>1, <3>1 DEF Sound, Honest
    <3>2. CASE t.queue[i] = e
      BY <2>1, <3>2
    <3> QED BY <1>2, <3>1, <3>2
  <2> QED BY <2>1 DEF Sound, Honest, Sends
<1>9. MaxNeeds = 0 => Needless(t)
  <2> SUFFICES ASSUME MaxNeeds = 0, NEW i \in DOMAIN t.queue PROVE t.queue[i].type # "need-headers"
    BY DEF Needless
  <2>1. CASE i \in DOMAIN s.queue
    BY <1>1, <2>1 DEF Sound, Needless
  <2>2. CASE t.queue[i] = e
    BY <2>2
  <2> QED BY <1>2, <2>1, <2>2
<1>10. Applied(s) => Applied(t)
  BY <1>1, <1>3 DEF Applied, FullyApplied, Sends
<1>11. Shows(s) => Shows(t)
  BY DEF Shows, Sends
<1>12. Waits(s, t)
  BY DEF Waits, Sends, Sound, Well, Typed, Machines
<1> QED BY <1>4, <1>5, <1>6, <1>7, <1>8, <1>9, <1>10, <1>11, <1>12 DEF Sound, Shown, Well
-----------------------------------------------------------------------------
\* What a new header run leaves alone.
Beside(s, t) ==
  /\ Alike(s, t) /\ t.order = s.order /\ t.marks = s.marks /\ t.S = s.S /\ t.phase = s.phase
  /\ t.best = s.best /\ t.applied = s.applied /\ t.penalised = s.penalised

(* Opening a header run of a connected peer, with its claim, keeps Sound. *)
LEMMA RequestSound ==
  ASSUME NEW s, NEW tips, Sound(s, tips), NEW p \in s.connected
  PROVE  LET u == Request([s EXCEPT !.hOpen = @ \cup {p}], p)
         IN Sound(u, tips) /\ Beside(s, u) /\ u.hOpen = s.hOpen \cup {p}
<1> DEFINE run == [at |-> "asked", claim |-> s.claims[p], from |-> s.best, upto |-> 0, verdict |-> "none"]
           u == [s EXCEPT !.hOpen = @ \cup {p}, !.hRun[p] = run]
<1>0. p \in Peers
  BY DEF Sound, Well, Typed, Machines
<1>1. Request([s EXCEPT !.hOpen = @ \cup {p}], p) = u
  <2> DEFINE x == [s EXCEPT !.hOpen = @ \cup {p}]
  <2>1. x.claims = s.claims /\ x.best = s.best /\ x.hRun = s.hRun
    BY DEF Sound, Well, Typed, Machines
  <2>2. Request(x, p) = [x EXCEPT !.hRun[p] = run]
    BY <2>1 DEF Request
  <2>3. [x EXCEPT !.hRun[p] = run] = u
    BY <1>0 DEF Sound, Well, Typed, Machines
  <2> QED BY <2>2, <2>3
<1>2. run \in HeaderRuns /\ run # None /\ run.claim = s.claims[p] /\ run.at = "asked"
  BY <1>0, NoneAssumption, SizeAssumption DEF Sound, Well, Typed, Machines, HeaderRuns
<1> HIDE DEF run
<1>3. Typed(u)
  BY <1>0, <1>2 DEF Sound, Well, Typed, Machines
<1>4. Beside(s, u) /\ u.hOpen = s.hOpen \cup {p}
      /\ u.hRun[p] = run /\ \A q \in Peers : q # p => u.hRun[q] = s.hRun[q]
  BY <1>0 DEF Sound, Well, Typed, Machines, Beside, Alike
<1> HIDE DEF u
<1>5. Well(u)
  <2>1. \A q \in Peers : q \in u.hOpen => u.hRun[q] # None /\ (q \in s.hOpen \/ q \in s.connected)
    BY <1>2, <1>4 DEF Sound, Well, Runs
  <2>2. \A q \in s.connected : u.hRun[q] # None => q \in u.hOpen
    BY <1>4 DEF Sound, Well, Runs, Typed, Machines
  <2> QED BY <1>3, <1>4, <2>1, <2>2, WellHeaders DEF Sound, Beside
<1>6. Honest(u, tips)
  <2>1. \A q \in Peers \ Liars : u.hRun[q] # None => HonestRun(u.hRun[q], tips[q], u.best)
    <3> TAKE q \in Peers \ Liars
    <3>1. CASE q = p
      BY <1>2, <1>4, <3>1 DEF Sound, Honest, HonestRun
    <3>2. CASE q # p
      BY <1>4, <3>2 DEF Sound, Honest, Beside
    <3> QED BY <3>1, <3>2
  <2> QED BY <1>4, <2>1 DEF Sound, Honest, Beside, Alike
<1>7. Needless(s) => Needless(u)
  BY <1>4 DEF Needless, Beside, Alike
<1> QED BY <1>1, <1>4, <1>5, <1>6, <1>7 DEF Sound

(* A run that asks for its next page keeps Sound, Shown and what it waits for. *)
LEMMA AskAgainSound ==
  ASSUME NEW s, NEW tips, Sound(s, tips), Shown(s), NEW p \in Peers, s.hRun[p] # None
  PROVE  LET t == AskAgain(s, p) IN Sound(t, tips) /\ Shown(t) /\ Waits(s, t)
<1>1. CASE p \notin s.connected \/ Marked(s, p)
  <2> DEFINE t == EndHeaderRun(s, p)
  <2>1. Sound(t, tips) /\ Shown(t) /\ Closed(s, t, p)
    BY EndHeaders
  <2> HIDE DEF t
  <2>2. Waits(s, t)
    BY <2>1, ClosedWaits DEF Sound
  <2> QED BY <1>1, <2>1, <2>2 DEF AskAgain, t
<1>2. CASE ~ (p \notin s.connected \/ Marked(s, p))
  <2> DEFINE t == Request([s EXCEPT !.hOpen = @ \cup {p}], p)
  <2>1. Sound(t, tips) /\ Beside(s, t) /\ t.hOpen = s.hOpen \cup {p}
    BY <1>2, RequestSound
  <2>2. p \in s.hOpen
    BY <1>2 DEF Sound, Well, Runs
  <2>3. [s EXCEPT !.hOpen = @ \cup {p}] = s
    BY <2>2 DEF Sound, Well, Typed, Machines
  <2>4. AskAgain(s, p) = t
    BY <1>2, <2>3 DEF AskAgain
  <2> HIDE DEF t
  <2>5. Shown(t)
    BY <2>1, <2>2 DEF Shown, Applied, Shows, FullyApplied, Beside, Alike
  <2>6. Waits(s, t)
    BY <2>1 DEF Waits, Beside, Sound, Well, Typed, Machines
  <2> QED BY <2>1, <2>4, <2>5, <2>6
<1> QED BY <1>1, <1>2

(* A ban closes the connection and tells it; nothing open changes until that is heard. *)
LEMMA BanSound ==
  ASSUME NEW s, NEW tips, Sound(s, tips), NEW p \in Peers
  PROVE  LET t == Ban(s, p)
         IN /\ Sound(t, tips) /\ Waits(s, t) /\ (Shown(s) => Shown(t))
            /\ t.S = s.S /\ t.hOpen = s.hOpen /\ t.outbound = s.outbound /\ t.hRun = s.hRun
<1> DEFINE e == Event("peer-disconnect", p, None)
           t == [s EXCEPT !.connected = @ \ {p}, !.closing = @ \cup {p}, !.banned = @ \cup {p},
                          !.queue = Append(s.queue, e)]
<1>1. Ban(s, p) = t
  BY DEF Ban
<1>2. e \in Events /\ e.type = "peer-disconnect" /\ e.peer = p /\ e.claim = None
  BY DEF Event, Events, EventTypes
<1> HIDE DEF e
<1>3. Append(s.queue, e) \in Seq(Events)
  BY <1>2, AppendProperties DEF Sound, Well, Typed, Machines
<1>4. Typed(t)
  BY <1>3 DEF Sound, Well, Typed, Machines
<1>5. /\ t.connected = s.connected \ {p} /\ t.closing = s.closing \cup {p}
      /\ t.queue = Append(s.queue, e)
      /\ t.claims = s.claims /\ t.held = s.held /\ t.outbound = s.outbound
      /\ t.hOpen = s.hOpen /\ t.bOpen = s.bOpen /\ t.hRun = s.hRun /\ t.bRun = s.bRun
      /\ t.inFlight = s.inFlight /\ t.omitted = s.omitted
      /\ t.best = s.best /\ t.applied = s.applied /\ t.penalised = s.penalised
      /\ t.phase = s.phase /\ t.S = s.S
  BY DEF Sound, Well, Typed, Machines
<1> HIDE DEF t
<1>6. EventSound(t, e)
  BY <1>2, <1>5 DEF EventSound
<1>7. \A i \in DOMAIN s.queue : s.queue[i].type = "peer-disconnect" => s.queue[i].peer \notin t.connected
  BY <1>5 DEF Sound, Well, EventsSound, EventSound
<1>8. /\ t.connected \cap t.closing = {}
      /\ \A q \in Peers : s.bRun[q] # None /\ s.bRun[q].at # "asked" => q \in t.connected \cup t.closing
  BY <1>5 DEF Sound, Well, JudgedKnown
<1>9. Sends(s, t, e)
  BY <1>2, <1>5, <1>6, <1>7, <1>8 DEF Sends
<1>10. Sound(t, tips) /\ Waits(s, t) /\ (Shown(s) => Shown(t))
  BY <1>2, <1>4, <1>9, SendSound DEF Own
<1> QED BY <1>1, <1>5, <1>10

(* Penalising a liar, banned by it or not, keeps Sound. *)
LEMMA PenaliseSound ==
  ASSUME NEW s, NEW tips, Sound(s, tips), NEW p \in Liars, NEW t \in Penalise(s, p)
  PROVE  Sound(t, tips) /\ t.S = s.S /\ t.hOpen = s.hOpen /\ t.outbound = s.outbound
<1> DEFINE u == [s EXCEPT !.penalised = @ \cup {p}]
<1>0. p \in Peers
  BY PeerAssumption
<1>1. Typed(u)
  BY <1>0 DEF Sound, Well, Typed, Machines
<1>2. /\ Alike(s, u) /\ u.hRun = s.hRun /\ u.hOpen = s.hOpen /\ u.best = s.best
      /\ u.penalised = s.penalised \cup {p} /\ u.S = s.S
  BY DEF Sound, Well, Typed, Machines, Alike
<1> HIDE DEF u
<1>3. Well(u)
  <2>1. \A q \in Peers : q \in u.hOpen => u.hRun[q] # None /\ (q \in s.hOpen \/ q \in s.connected)
    BY <1>2 DEF Sound, Well, Runs
  <2>2. \A q \in s.connected : u.hRun[q] # None => q \in u.hOpen
    BY <1>2 DEF Sound, Well, Runs
  <2> QED BY <1>1, <1>2, <2>1, <2>2, WellHeaders DEF Sound
<1>4. Sound(u, tips)
  <2>1. Honest(u, tips)
    BY <1>2 DEF Sound, Honest, Alike
  <2>2. Needless(s) => Needless(u)
    BY <1>2 DEF Needless, Alike
  <2> QED BY <1>3, <2>1, <2>2 DEF Sound
<1>5. CASE t = u
  BY <1>2, <1>4, <1>5 DEF Alike
<1>6. CASE t = Ban(u, p)
  BY <1>0, <1>2, <1>4, <1>6, BanSound DEF Alike
<1>7. t = u \/ t = Ban(u, p)
  BY DEF Penalise, u
<1> QED BY <1>5, <1>6, <1>7

(* What a run ended after s has gone on to t has waited for, it waited for in s. *)
LEMMA LaterWaits ==
  ASSUME NEW s, NEW t, NEW u, NEW p, Well(s), Closed(t, u, p),
         t.S = s.S, t.hOpen = s.hOpen, t.outbound = s.outbound
  PROVE  Waits(s, u)
  BY DEF Waits, Closed, Well, Runs
-----------------------------------------------------------------------------
(* Settling the bootstrap keeps Sound. *)
LEMMA SettleSound ==
  ASSUME NEW s, NEW tips, Sound(s, tips)
  PROVE  LET t == [s EXCEPT !.settled = TRUE]
         IN /\ Sound(t, tips) /\ t.S = s.S /\ t.hOpen = s.hOpen /\ t.outbound = s.outbound
            /\ t.connected = s.connected /\ t.hRun = s.hRun
<1> DEFINE t == [s EXCEPT !.settled = TRUE]
<1>1. Typed(t)
  BY DEF Sound, Well, Typed, Machines
<1>2. /\ Alike(s, t) /\ t.hRun = s.hRun /\ t.hOpen = s.hOpen /\ t.best = s.best
      /\ t.penalised = s.penalised /\ t.S = s.S
  BY DEF Sound, Well, Typed, Machines, Alike
<1> HIDE DEF t
<1>3. Well(t)
  <2>1. \A q \in Peers : q \in t.hOpen => t.hRun[q] # None /\ (q \in s.hOpen \/ q \in s.connected)
    BY <1>2 DEF Sound, Well, Runs
  <2>2. \A q \in s.connected : t.hRun[q] # None => q \in t.hOpen
    BY <1>2 DEF Sound, Well, Runs
  <2> QED BY <1>1, <1>2, <2>1, <2>2, WellHeaders DEF Sound
<1>4. Honest(t, tips) /\ (Needless(s) => Needless(t))
  BY <1>2 DEF Sound, Honest, Needless, Alike
<1> QED BY <1>2, <1>3, <1>4 DEF Sound, Alike, t

(* Settling the bootstrap and ending a run waits for the others. *)
LEMMA SettledEnds ==
  ASSUME NEW s, NEW tips, Sound(s, tips), NEW p \in Peers
  PROVE  LET t == EndHeaderRun([s EXCEPT !.settled = TRUE], p)
         IN Sound(t, tips) /\ Shown(t) /\ Waits(s, t)
<1> DEFINE u == [s EXCEPT !.settled = TRUE]
           t == EndHeaderRun(u, p)
<1>1. Sound(u, tips) /\ u.S = s.S /\ u.hOpen = s.hOpen /\ u.outbound = s.outbound
  BY SettleSound
<1> HIDE DEF u
<1>2. Sound(t, tips) /\ Shown(t) /\ Closed(u, t, p)
  BY <1>1, EndHeaders
<1> HIDE DEF t
<1>3. Waits(s, t)
  BY <1>1, <1>2, LaterWaits DEF Sound
<1> QED BY <1>2, <1>3 DEF t, u

(* Ending a run waits for the others. *)
LEMMA Ends ==
  ASSUME NEW s, NEW tips, Sound(s, tips), NEW p \in Peers
  PROVE  LET t == EndHeaderRun(s, p) IN Sound(t, tips) /\ Shown(t) /\ Waits(s, t)
<1> DEFINE t == EndHeaderRun(s, p)
<1>1. Sound(t, tips) /\ Shown(t) /\ Closed(s, t, p)
  BY EndHeaders
<1> HIDE DEF t
<1>2. Waits(s, t)
  BY <1>1, ClosedWaits DEF Sound
<1> QED BY <1>1, <1>2 DEF t

(* An honest peer's answer reaches its claim, unless it was cut at the most one page holds. *)
LEMMA NotToBlame ==
  ASSUME NEW s, NEW tips, tips \in [Peers -> 0 .. Top], Sound(s, tips), NEW p \in Peers,
         s.hRun[p] # None, s.hRun[p].at = "judged", s.hRun[p].verdict = "taken",
         Unsettled(s, p), ~ ClaimReplaced(s, p),
         Short(s.hRun[p]) \/ ReachedClaim(s.hRun[p]), s.hRun[p].claim # None
  PROVE  p \in Liars
<1> SUFFICES ASSUME p \notin Liars PROVE FALSE
  OBVIOUS
<1> DEFINE r == s.hRun[p]
           c == s.claims[p]
<1>1. HonestRun(r, tips[p], s.best)
  BY DEF Sound, Honest
<1> HIDE DEF r
<1>2. PICK h \in 0 .. tips[p] : r.claim = TipAt(h)
  BY <1>1 DEF HonestRun, Own, r
<1>3. tips[p] \in Nat /\ h \in Nat /\ r.claim.tipHeight = h /\ r.claim.tipHash = h
  BY <1>2, SizeAssumption DEF TipAt
<1>4. r.upto <= s.best /\ (Short(r) => r.upto >= h)
  BY <1>1, <1>3 DEF HonestRun, r
<1>5. ReachedClaim(r) => r.upto >= h
  BY <1>3 DEF ReachedClaim
<1>6. r.upto \in Nat /\ s.best \in Nat
  BY SizeAssumption DEF Sound, Well, Typed, Machines, HeaderRuns, r
<1>7. h <= s.best
  BY <1>3, <1>4, <1>5, <1>6 DEF r
<1>8. HashOf(c) = h
  BY <1>3 DEF ClaimReplaced, HashOf, r
<1>9. c # None /\ c.tipHash = h
  BY <1>3, <1>8, NoneAssumption DEF HashOf
<1> QED BY <1>3, <1>6, <1>7, <1>9 DEF Unsettled, KnowsTip

(* Whatever the machine does with a taken page keeps Sound, Shown and the waiting. *)
LEMMA TakenSound ==
  ASSUME NEW s, NEW tips, tips \in [Peers -> 0 .. Top], Sound(s, tips), Shown(s), NEW p \in Peers,
         s.hRun[p] # None, s.hRun[p].at = "judged", s.hRun[p].verdict = "taken",
         NEW t \in JudgeTaken(s, p)
  PROVE  Sound(t, tips) /\ Shown(t) /\ Waits(s, t)
<1> DEFINE r == s.hRun[p]
           settles == [s EXCEPT !.settled = TRUE]
<1>1. CASE t = EndHeaderRun(s, p)
  BY <1>1, Ends
<1>2. CASE t = EndHeaderRun(settles, p)
  BY <1>2, SettledEnds
<1>3. CASE t = AskAgain(s, p)
  BY <1>3, AskAgainSound
<1>4. CASE /\ Unsettled(s, p) /\ ~ ClaimReplaced(s, p)
           /\ Short(r) \/ ReachedClaim(r)
           /\ r.claim # None /\ \E u \in Penalise(s, p) : t = MarkAndEnd(u, p)
  <2>1. p \in Liars
    BY <1>4, NotToBlame
  <2>2. PICK u \in Penalise(s, p) : t = MarkAndEnd(u, p)
    BY <1>4
  <2>3. Sound(u, tips) /\ u.S = s.S /\ u.hOpen = s.hOpen /\ u.outbound = s.outbound
    BY <2>1, PenaliseSound
  <2>4. Sound(t, tips) /\ Shown(t) /\ Closed(u, t, p)
    BY <2>2, <2>3, MarkEnds
  <2>5. Waits(s, t)
    BY <2>3, <2>4, LaterWaits DEF Sound
  <2> QED BY <2>4, <2>5
<1>5. \/ t = EndHeaderRun(s, p) \/ t = EndHeaderRun(settles, p) \/ t = AskAgain(s, p)
      \/ /\ Unsettled(s, p) /\ ~ ClaimReplaced(s, p)
         /\ Short(r) \/ ReachedClaim(r)
         /\ r.claim # None /\ \E u \in Penalise(s, p) : t = MarkAndEnd(u, p)
  <2>1. CASE p \notin s.connected
    BY <2>1 DEF JudgeTaken
  <2>2. CASE p \in s.connected /\ ~ Unsettled(s, p)
    BY <2>2 DEF JudgeTaken
  <2>3. CASE p \in s.connected /\ Unsettled(s, p) /\ ClaimReplaced(s, p)
    BY <2>3 DEF JudgeTaken
  <2>4. CASE p \in s.connected /\ Unsettled(s, p) /\ ~ ClaimReplaced(s, p)
    BY <2>4 DEF JudgeTaken
  <2> QED BY <2>1, <2>2, <2>3, <2>4
<1> QED BY <1>1, <1>2, <1>3, <1>4, <1>5
-----------------------------------------------------------------------------
(* Announcing a move of the chain keeps Sound and makes Applied true. *)
LEMMA MovedSound ==
  ASSUME NEW s, NEW tips, Sound(s, tips)
  PROVE  LET t == ChainMoved(s)
         IN /\ Sound(t, tips) /\ Applied(t) /\ (Shows(s) => Shows(t))
            /\ t.S = s.S /\ t.hOpen = s.hOpen /\ t.outbound = s.outbound
<1> DEFINE t == ChainMoved(s)
<1>1. /\ Typed(t) /\ Same(s, t) /\ Heard(s, t) /\ t = [s EXCEPT !.queue = t.queue]
      /\ \E i \in DOMAIN t.queue : t.queue[i] = ChainMovedEvent
  BY ChainMovedSteady DEF Sound, Well
<1> HIDE DEF t
<1>2. /\ t.bRun = s.bRun /\ t.bOpen = s.bOpen /\ t.inFlight = s.inFlight /\ t.omitted = s.omitted
      /\ t.phase = s.phase /\ t.S = s.S
  BY <1>1 DEF Sound, Well, Typed, Machines
<1>3. Well(t)
  BY <1>1, <1>2, WellHeard DEF Sound
<1>4. Sound(t, tips)
  BY <1>1, <1>3, SoundHeard
<1> QED BY <1>1, <1>2, <1>4 DEF Applied, Shows, Same, t

\* p's header run has its answer, and b is the best header.
Judging(s, p, r, b) == [s EXCEPT !.hRun[p] = r, !.best = b]

(* A header run's answer, with the best header it may have raised, keeps Sound. *)
LEMMA JudgeSound ==
  ASSUME NEW s, NEW tips, Sound(s, tips), NEW p \in s.connected, s.hRun[p] # None,
         NEW r \in HeaderRuns, NEW b \in 0 .. Top, s.best <= b,
         p \notin Liars => HonestRun(r, tips[p], b)
  PROVE  LET t == Judging(s, p, r, b)
         IN Sound(t, tips) /\ t.S = s.S /\ t.hOpen = s.hOpen /\ t.outbound = s.outbound
              /\ (Shows(s) => Shows(t)) /\ (b = s.best /\ Applied(s) => Applied(t))
<1> DEFINE t == Judging(s, p, r, b)
<1>0. p \in Peers /\ r # None
  BY NoneAssumption DEF Sound, Well, Typed, Machines
<1>1. Typed(t)
  <2>1. s.best \in Int /\ s.applied \in Int /\ b \in Int
    BY SizeAssumption DEF Sound, Well, Typed, Machines
  <2>2. t \in Machines /\ t.order = s.order /\ t.marks = s.marks /\ t.applied = s.applied
        /\ t.staged = s.staged /\ t.best = b
    BY <1>0 DEF Sound, Well, Typed, Machines, Judging
  <2>3. s.applied + 1 .. s.best \subseteq s.applied + 1 .. b
    BY <2>1
  <2> QED BY <2>1, <2>2, <2>3 DEF Sound, Well, Typed
<1>2. /\ Alike(s, t) /\ t.hOpen = s.hOpen /\ t.best = b /\ t.applied = s.applied
      /\ t.penalised = s.penalised /\ t.S = s.S /\ t.phase = s.phase
      /\ t.hRun[p] = r /\ \A q \in Peers : q # p => t.hRun[q] = s.hRun[q]
  BY <1>0 DEF Sound, Well, Typed, Machines, Alike, Judging
<1> HIDE DEF t
<1>3. Well(t)
  <2>1. \A q \in Peers : q \in t.hOpen => t.hRun[q] # None /\ (q \in s.hOpen \/ q \in s.connected)
    BY <1>0, <1>2 DEF Sound, Well, Runs
  <2>2. \A q \in s.connected : t.hRun[q] # None => q \in t.hOpen
    BY <1>2 DEF Sound, Well, Runs, Typed, Machines
  <2> QED BY <1>1, <1>2, <2>1, <2>2, WellHeaders DEF Sound
<1>4. \A q \in Peers \ Liars : t.hRun[q] # None => HonestRun(t.hRun[q], tips[q], b)
  <2> SUFFICES ASSUME NEW q \in Peers \ Liars, t.hRun[q] # None PROVE HonestRun(t.hRun[q], tips[q], b)
    OBVIOUS
  <2>1. CASE q = p
    BY <1>2, <2>1
  <2>2. CASE q # p
    <3>1. HonestRun(s.hRun[q], tips[q], s.best) /\ t.hRun[q] = s.hRun[q] /\ s.hRun[q] \in HeaderRuns
      BY <1>2, <2>2 DEF Sound, Honest, Well, Typed, Machines
    <3>2. s.hRun[q].upto \in Int /\ s.best \in Int /\ b \in Int
      BY <3>1, SizeAssumption DEF Sound, Well, Typed, Machines, HeaderRuns
    <3>3. s.hRun[q].upto <= s.best => s.hRun[q].upto <= b
      BY <3>2
    <3> QED BY <3>1, <3>3 DEF HonestRun
  <2> QED BY <2>1, <2>2
<1>5. Honest(t, tips)
  BY <1>2, <1>4 DEF Sound, Honest, Alike
<1>6. Needless(s) => Needless(t)
  BY <1>2 DEF Needless, Alike
<1>7. (Shows(s) => Shows(t)) /\ (b = s.best /\ Applied(s) => Applied(t))
  BY <1>2 DEF Shows, Applied, FullyApplied, Alike
<1> QED BY <1>2, <1>3, <1>5, <1>6, <1>7 DEF Sound, Alike, t

(* The page an honest peer answers with. *)
LEMMA PageOf ==
  ASSUME NEW p \in Peers, m \in Machines, m.hRun[p] # None, peerTip \in [Peers -> 0 .. Top],
         NEW upto \in Answers(p)
  PROVE  /\ upto \in 0 .. Top
         /\ p \notin Liars /\ Own(m.hRun[p].claim, peerTip[p]) /\ upto - m.hRun[p].from < MaxItems
              /\ m.hRun[p].claim # None
            => upto >= m.hRun[p].claim.tipHeight
<1> DEFINE r == m.hRun[p]
           full == r.from + MaxItems
<1>1. r \in HeaderRuns
  BY DEF Machines
<1>2. r.from \in 0 .. Top /\ full \in Nat /\ MaxItems \in Nat /\ Top \in Nat /\ peerTip[p] \in 0 .. Top
  BY <1>1, SizeAssumption DEF HeaderRuns
<1>3. CASE p \in Liars
  <2> DEFINE V == {full, Top}
  <2>1. V \subseteq Nat /\ V # {} /\ Top \in V
    BY <1>2
  <2> HIDE DEF V
  <2>2. Min(V) \in V /\ Min(V) <= Top
    BY <2>1, MinOf
  <2>3. upto \in r.from .. Min(V)
    BY <1>3 DEF Answers, V
  <2>4. Min(V) \in Nat
    BY <2>1, <2>2
  <2> QED BY <1>2, <1>3, <2>2, <2>3, <2>4
<1>4. CASE p \notin Liars
  <2> DEFINE V == {full, peerTip[p]}
  <2>1. V \subseteq Nat /\ V # {} /\ peerTip[p] \in V
    BY <1>2
  <2>2. upto = Min(V)
    BY <1>4 DEF Answers
  <2> HIDE DEF V
  <2>3. Min(V) \in V /\ Min(V) <= peerTip[p]
    BY <2>1, MinOf
  <2>4. upto \in Nat /\ upto <= peerTip[p] /\ (upto = full \/ upto = peerTip[p])
    BY <1>2, <2>1, <2>2, <2>3 DEF V
  <2>5. upto - r.from < MaxItems => upto = peerTip[p]
    BY <1>2, <2>4
  <2>6. ASSUME Own(r.claim, peerTip[p]), r.claim # None PROVE r.claim.tipHeight <= peerTip[p]
    <3>1. PICK h \in 0 .. peerTip[p] : r.claim = TipAt(h)
      BY <2>6 DEF Own
    <3> QED BY <1>2, <3>1 DEF TipAt
  <2>7. ASSUME Own(r.claim, peerTip[p]), upto - r.from < MaxItems, r.claim # None
        PROVE  upto >= r.claim.tipHeight
    <3> HIDE DEF r, full
    <3>1. r.claim.tipHeight <= peerTip[p] /\ upto = peerTip[p]
      BY <2>5, <2>6, <2>7
    <3>2. r.claim.tipHeight \in Int
      <4>1. PICK h \in 0 .. peerTip[p] : r.claim = TipAt(h)
        BY <2>7 DEF Own
      <4> QED BY <1>2, <4>1 DEF TipAt
    <3> QED BY <1>2, <3>1, <3>2
  <2>8. upto \in 0 .. Top
    BY <1>2, <2>4
  <2> QED BY <2>7, <2>8
<1> QED BY <1>3, <1>4
-----------------------------------------------------------------------------
\* What a step must keep.
Kept == Sound(m', peerTip') /\ Shown(m') /\ Waits(m, m')

(* A header request that failed. *)
LEMMA HeadersFailKeeps ==
  ASSUME IInv, NEW p \in Peers, HeadersFail(p)
  PROVE  Kept
<1>1. m' = MarkAndEnd(m, p) /\ peerTip' = peerTip
  BY DEF HeadersFail
<1> DEFINE t == MarkAndEnd(m, p)
<1>2. Sound(t, peerTip) /\ Shown(t) /\ Closed(m, t, p)
  BY MarkEnds DEF IInv
<1> HIDE DEF t
<1>3. Waits(m, t)
  BY <1>2, ClosedWaits DEF IInv, Sound
<1> QED BY <1>1, <1>2, <1>3 DEF Kept, t

(* An answer the client could not read. *)
LEMMA HeadersMisshapenKeeps ==
  ASSUME IInv, NEW p \in Peers, HeadersMisshapen(p)
  PROVE  Kept
<1>1. PICK s \in Penalise(m, p) : m' = EndHeaderRun(s, p)
  BY DEF HeadersMisshapen
<1>2. Sound(s, peerTip) /\ s.S = m.S /\ s.hOpen = m.hOpen /\ s.outbound = m.outbound
  BY PenaliseSound DEF HeadersMisshapen, IInv
<1> DEFINE t == EndHeaderRun(s, p)
<1>3. Sound(t, peerTip) /\ Shown(t) /\ Closed(s, t, p)
  BY <1>2, EndHeaders
<1> HIDE DEF t
<1>4. Waits(m, t)
  BY <1>2, <1>3, LaterWaits DEF IInv, Sound
<1>5. m' = t /\ peerTip' = peerTip
  BY <1>1 DEF HeadersMisshapen, t
<1> QED BY <1>3, <1>4, <1>5 DEF Kept

(* A page taken by the intake: an honest one reaches the claim or fills the page, and only a
   page that raised the best header announced it. *)
LEMMA HeadersArriveKeeps ==
  ASSUME IInv, NEW p \in Peers, HeadersArrive(p)
  PROVE  Kept
<1>1. m.hRun[p] # None /\ m.hRun[p] \in HeaderRuns /\ peerTip' = peerTip
  BY DEF HeadersArrive, HeaderRunAt, IInv, Sound, Well, Typed, Machines
<1>2. CASE p \notin m.connected
  <2>1. m' = EndHeaderRun(m, p)
    BY <1>2 DEF HeadersArrive
  <2> DEFINE t == EndHeaderRun(m, p)
  <2>2. Sound(t, peerTip) /\ Shown(t) /\ Waits(m, t)
    BY Ends DEF IInv
  <2> HIDE DEF t
  <2> QED BY <1>1, <2>1, <2>2 DEF Kept, t
<1>3. CASE p \in m.connected
  <2> DEFINE Judged(upto) ==
        [m EXCEPT !.hRun[p].at = "judged", !.hRun[p].upto = upto, !.hRun[p].verdict = "taken"]
  <2>1. PICK upto \in Answers(p) : m' = IF upto <= m.best THEN Judged(upto)
                                        ELSE ChainMoved([Judged(upto) EXCEPT !.best = upto])
    BY <1>3 DEF HeadersArrive
  <2> DEFINE r == [m.hRun[p] EXCEPT !.at = "judged", !.upto = upto, !.verdict = "taken"]
             b == IF upto <= m.best THEN m.best ELSE upto
             t == Judging(m, p, r, b)
  <2>2. /\ upto \in 0 .. Top
        /\ p \notin Liars /\ Own(m.hRun[p].claim, peerTip[p]) /\ upto - m.hRun[p].from < MaxItems
             /\ m.hRun[p].claim # None
           => upto >= m.hRun[p].claim.tipHeight
    BY <1>1, PageOf DEF IInv, Sound, Well, Typed
  <2>3. /\ r \in HeaderRuns /\ r.claim = m.hRun[p].claim /\ r.from = m.hRun[p].from
        /\ r.upto = upto /\ r.at = "judged" /\ r.verdict = "taken"
    BY <1>1, <2>2 DEF HeaderRuns
  <2>4. m.best \in 0 .. Top /\ b \in 0 .. Top /\ m.best <= b /\ upto <= b
    BY <2>2, SizeAssumption DEF IInv, Sound, Well, Typed, Machines
  <2>5. [m EXCEPT !.hRun[p].at = "judged", !.hRun[p].upto = upto, !.hRun[p].verdict = "taken"]
          = [m EXCEPT !.hRun[p] = r]
    BY DEF IInv, Sound, Well, Typed, Machines
  <2>6. CASE upto <= m.best
    <3>1. m' = [m EXCEPT !.hRun[p] = r]
      BY <2>1, <2>5, <2>6
    <3>2. [m EXCEPT !.hRun[p] = r] = t
      BY <2>6 DEF IInv, Sound, Well, Typed, Machines, Judging
    <3>3. m' = t /\ b = m.best
      BY <2>6, <3>1, <3>2
    <3> HIDE DEF r, b
    <3>0. Sound(m, peerTip)
      BY DEF IInv
    <3>4. p \notin Liars => HonestRun(r, peerTip[p], b)
      BY <1>1, <2>2, <2>3, <2>4 DEF IInv, Sound, Honest, HonestRun, Short
    <3>5. /\ Sound(t, peerTip) /\ t.S = m.S /\ (Shows(m) => Shows(t))
          /\ (b = m.best /\ Applied(m) => Applied(t))
      BY <1>1, <1>3, <2>3, <2>4, <3>0, <3>4, JudgeSound
    <3> HIDE DEF t
    <3>6. Waits(m, t)
      BY <3>5 DEF Waits, IInv, Sound, Well, Typed, Machines
    <3> QED BY <1>1, <3>3, <3>5, <3>6 DEF Kept, Shown, IInv
  <2>7. CASE ~ (upto <= m.best)
    <3>1. m' = ChainMoved([[m EXCEPT !.hRun[p] = r] EXCEPT !.best = upto])
      BY <2>1, <2>5, <2>7
    <3>2. [[m EXCEPT !.hRun[p] = r] EXCEPT !.best = upto] = t
      BY <2>7 DEF IInv, Sound, Well, Typed, Machines, Judging
    <3>3. m' = ChainMoved(t)
      BY <3>1, <3>2
    <3> HIDE DEF r, b
    <3>0. Sound(m, peerTip)
      BY DEF IInv
    <3>4. p \notin Liars => HonestRun(r, peerTip[p], b)
      BY <1>1, <2>2, <2>3, <2>4 DEF IInv, Sound, Honest, HonestRun, Short
    <3>5. Sound(t, peerTip) /\ t.S = m.S /\ (Shows(m) => Shows(t))
      BY <1>1, <1>3, <2>3, <2>4, <3>0, <3>4, JudgeSound
    <3> HIDE DEF t
    <3> DEFINE u == ChainMoved(t)
    <3>6. Sound(u, peerTip) /\ Applied(u) /\ (Shows(t) => Shows(u)) /\ u.S = t.S
      BY <3>5, MovedSound
    <3> HIDE DEF u
    <3>7. Waits(m, u)
      BY <3>5, <3>6 DEF Waits, IInv, Sound, Well, Typed, Machines
    <3>8. m' = u
      BY <3>3 DEF u
    <3> QED BY <1>1, <3>5, <3>6, <3>7, <3>8 DEF Kept, Shown, IInv
  <2> QED BY <2>6, <2>7
<1> QED BY <1>2, <1>3

(* A page the intake did not take. *)
LEMMA HeadersUntakenKeeps ==
  ASSUME IInv, NEW p \in Peers, NEW verdict \in {"again", "refused", "threw"}, HeadersUntaken(p, verdict)
  PROVE  Kept
<1> DEFINE r == [m.hRun[p] EXCEPT !.at = "judged", !.verdict = verdict]
           t == Judging(m, p, r, m.best)
<1>1. m.hRun[p] # None /\ m.hRun[p] \in HeaderRuns /\ peerTip' = peerTip /\ p \in m.connected
  BY DEF HeadersUntaken, HeaderRunAt, IInv, Sound, Well, Typed, Machines
<1>2. /\ r \in HeaderRuns /\ r.claim = m.hRun[p].claim /\ r.verdict # "taken"
  BY <1>1 DEF HeaderRuns
<1>3. m.best \in 0 .. Top /\ m.best <= m.best
  BY SizeAssumption DEF IInv, Sound, Well, Typed, Machines
<1>4. [m EXCEPT !.hRun[p].at = "judged", !.hRun[p].verdict = verdict] = t
  <2>1. [m EXCEPT !.hRun[p].at = "judged", !.hRun[p].verdict = verdict] = [m EXCEPT !.hRun[p] = r]
    BY DEF IInv, Sound, Well, Typed, Machines
  <2>2. [m EXCEPT !.hRun[p] = r] = t
    BY DEF IInv, Sound, Well, Typed, Machines, Judging
  <2> QED BY <2>1, <2>2
<1>5. m' = t \/ m' = Ban(t, p)
  BY <1>4 DEF HeadersUntaken
<1> HIDE DEF r
<1>6. p \notin Liars => HonestRun(r, peerTip[p], m.best)
  BY <1>1, <1>2 DEF IInv, Sound, Honest, HonestRun
<1>7. /\ Sound(t, peerTip) /\ t.S = m.S /\ t.hOpen = m.hOpen /\ t.outbound = m.outbound
      /\ (Shows(m) => Shows(t)) /\ (Applied(m) => Applied(t))
  <2>1. Sound(m, peerTip)
    BY DEF IInv
  <2> QED BY <1>1, <1>2, <1>3, <1>6, <2>1, JudgeSound
<1> HIDE DEF t
<1>8. Shown(t) /\ Waits(m, t)
  BY <1>7 DEF Shown, Waits, IInv, Sound, Well, Typed, Machines
<1>9. CASE m' = t
  BY <1>1, <1>7, <1>8, <1>9 DEF Kept
<1>10. CASE m' = Ban(t, p)
  <2> DEFINE u == Ban(t, p)
  <2>1. Sound(u, peerTip) /\ Shown(u) /\ u.S = t.S
    BY <1>7, <1>8, BanSound
  <2> HIDE DEF u
  <2>2. Waits(m, u)
    BY <1>7, <2>1 DEF Waits, IInv, Sound, Well, Typed, Machines
  <2>3. m' = u
    BY <1>10 DEF u
  <2> QED BY <1>1, <2>1, <2>2, <2>3 DEF Kept
<1> QED BY <1>5, <1>9, <1>10

(* The run continuing after the intake has judged its page: this is where a peer is blamed. *)
LEMMA HeadersJudgedKeeps ==
  ASSUME IInv, NEW p \in Peers, HeadersJudged(p)
  PROVE  Kept
<1>1. m.hRun[p] # None /\ m.hRun[p].at = "judged" /\ peerTip' = peerTip
  BY DEF HeadersJudged, HeaderRunAt
<1>2. CASE m.hRun[p].verdict = "taken"
  <2>1. m' \in JudgeTaken(m, p)
    BY <1>2 DEF HeadersJudged
  <2>2. ASSUME NEW t \in JudgeTaken(m, p) PROVE Sound(t, peerTip) /\ Shown(t) /\ Waits(m, t)
    BY <1>1, <1>2, TakenSound DEF IInv
  <2> QED BY <1>1, <2>1, <2>2 DEF Kept
<1>3. CASE m.hRun[p].verdict = "again"
  <2>1. m' = AskAgain(m, p)
    BY <1>3 DEF HeadersJudged
  <2> DEFINE t == AskAgain(m, p)
  <2>2. Sound(t, peerTip) /\ Shown(t) /\ Waits(m, t)
    BY <1>1, AskAgainSound DEF IInv
  <2> HIDE DEF t
  <2> QED BY <1>1, <2>1, <2>2 DEF Kept, t
<1>4. CASE m.hRun[p].verdict \notin {"taken", "again"}
  <2>1. m' = EndHeaderRun(m, p)
    BY <1>4 DEF HeadersJudged
  <2> DEFINE t == EndHeaderRun(m, p)
  <2>2. Sound(t, peerTip) /\ Shown(t) /\ Waits(m, t)
    BY Ends DEF IInv
  <2> HIDE DEF t
  <2> QED BY <1>1, <2>1, <2>2 DEF Kept, t
<1> QED BY <1>2, <1>3, <1>4
-----------------------------------------------------------------------------
\* What a block run's step leaves alone.
Besides(s, t) ==
  /\ t.claims = s.claims /\ t.held = s.held /\ t.outbound = s.outbound
  /\ t.hOpen = s.hOpen /\ t.hRun = s.hRun /\ t.inFlight = s.inFlight /\ t.omitted = s.omitted
  /\ t.connected = s.connected /\ t.closing = s.closing /\ t.queue = s.queue
  /\ t.best = s.best /\ t.penalised = s.penalised /\ t.S = s.S /\ t.marks = s.marks

(* A record that differs in its block runs keeps Sound, if open, running and in flight agree. *)
LEMMA BlocksSound ==
  ASSUME NEW s, NEW t, NEW tips, Sound(s, tips), Typed(t), Besides(s, t),
         \A q \in Peers : q \in t.bOpen => t.bRun[q] # None /\ q \in s.bOpen,
         \A q \in s.connected : t.bRun[q] # None => q \in t.bOpen,
         \A i \in Ids : s.inFlight[i] # None =>
            t.bRun[s.inFlight[i]] # None /\ i \in t.bRun[s.inFlight[i]].ids,
         \A q \in Peers : t.bRun[q] # None /\ t.bRun[q].at # "asked" => q \in s.connected \cup s.closing
  PROVE  Sound(t, tips)
<1>1. Runs(t)
  BY DEF Sound, Well, Runs, Besides
<1>2. EventsSound(t)
  BY DEF Sound, Well, EventsSound, EventSound, Besides
<1>3. Left(t)
  <2> SUFFICES ASSUME NEW p \in Peers \ s.connected
               PROVE  Told(t, p) \/ (Cleared(t, p) /\ (p \in t.closing \/ t.omitted[p] = {}))
    BY DEF Left, Besides
  <2>1. Told(s, p) \/ (Cleared(s, p) /\ (p \in s.closing \/ s.omitted[p] = {}))
    BY DEF Sound, Well, Left
  <2>2. Told(s, p) => Told(t, p)
    BY DEF Told, Besides
  <2>3. Cleared(s, p) => Cleared(t, p)
    BY DEF Cleared, Besides
  <2> QED BY <2>1, <2>2, <2>3 DEF Besides
<1>4. JudgedKnown(t)
  BY DEF Sound, Well, JudgedKnown, Besides
<1>5. Honest(t, tips) /\ (Needless(s) => Needless(t))
  BY DEF Sound, Honest, Needless, Besides
<1> QED BY <1>1, <1>2, <1>3, <1>4, <1>5 DEF Sound, Well

(* Ending a block run frees the ids it had in flight, which nothing else asked for. *)
LEMMA EndBlocks ==
  ASSUME NEW s, NEW tips, Sound(s, tips), NEW p \in Peers, s.bRun[p] # None
  PROVE  LET t == EndBlockRun(s, p)
         IN /\ Sound(t, tips) /\ Shown(t) /\ t.S = s.S /\ t.hRun = s.hRun
            /\ \A q \in s.hOpen : Marked(s, q) => Marked(t, q)
<1> DEFINE f == FreeIds(s, p, s.bRun[p].ids)
           u == [f EXCEPT !.bRun[p] = None, !.bOpen = @ \ {p}]
           t == EndBlockRun(s, p)
<1>1. t = After(After(u, RecomputePhase), KickBlockPump)
  BY DEF EndBlockRun
<1>2. /\ Well(f) /\ Steady(s, f) /\ f.bRun = s.bRun /\ f.marks = s.marks /\ f.S = s.S
      /\ \A i \in Ids : f.inFlight[i] = IF i \in s.bRun[p].ids /\ s.inFlight[i] = p THEN None ELSE s.inFlight[i]
  BY FreeSteady DEF Sound
<1> HIDE DEF f
<1>3. Sound(f, tips)
  BY <1>2, SoundHeard DEF Steady
<1>4. Typed(u)
  BY <1>2 DEF Well, Typed, Machines
<1>5. /\ Besides(f, u) /\ u.bOpen = f.bOpen \ {p}
      /\ u.bRun[p] = None /\ \A q \in Peers : q # p => u.bRun[q] = f.bRun[q]
  BY <1>2 DEF Well, Typed, Machines, Besides
<1> HIDE DEF u
<1>6. Sound(u, tips)
  <2>1. \A q \in Peers : q \in u.bOpen => u.bRun[q] # None /\ q \in f.bOpen
    BY <1>2, <1>5 DEF Well, Runs
  <2>2. \A q \in f.connected : u.bRun[q] # None => q \in u.bOpen
    BY <1>2, <1>5 DEF Well, Runs, Typed, Machines
  <2>3. ASSUME NEW i \in Ids, f.inFlight[i] # None
        PROVE  u.bRun[f.inFlight[i]] # None /\ i \in u.bRun[f.inFlight[i]].ids
    <3>1. f.inFlight[i] = s.inFlight[i] /\ s.inFlight[i] # None
      BY <1>2, <2>3
    <3>2. s.inFlight[i] \in Peers /\ s.bRun[s.inFlight[i]] # None /\ i \in s.bRun[s.inFlight[i]].ids
      BY <3>1 DEF Sound, Well, Runs, Typed, Machines
    <3>3. s.inFlight[i] # p
      BY <1>2, <2>3, <3>2
    <3> QED BY <1>2, <1>5, <3>1, <3>2, <3>3
  <2>4. \A q \in Peers : u.bRun[q] # None /\ u.bRun[q].at # "asked" => q \in f.connected \cup f.closing
    BY <1>2, <1>5 DEF Well, JudgedKnown
  <2> QED BY <1>3, <1>4, <1>5, <2>1, <2>2, <2>3, <2>4, BlocksSound
<1>7. Well(t) /\ Steady(u, t) /\ Applied(t) /\ Shows(t) /\ t.S = u.S
  BY <1>1, <1>6, Tails DEF Sound
<1> HIDE DEF t
<1>8. Sound(t, tips)
  BY <1>6, <1>7, SoundHeard DEF Steady
<1>9. \A q \in s.hOpen : Marked(s, q) => Marked(t, q)
  BY <1>2, <1>5, <1>7 DEF Steady, Same, Waited, Marked, Besides
<1> QED BY <1>2, <1>5, <1>7, <1>8, <1>9 DEF Shown, Steady, Same, Besides, t

(* A block request that failed. *)
LEMMA BlocksFailKeeps ==
  ASSUME IInv, NEW p \in Peers, BlocksFail(p)
  PROVE  Kept
<1> DEFINE x == MarkPeer(m, p)
           t == EndBlockRun(x, p)
<1>1. m' = t /\ peerTip' = peerTip /\ m.bRun[p] # None
  BY After1 DEF BlocksFail, BlockRunAt, After
<1>2. Well(x) /\ Moved(m, x)
  BY MarkMoved DEF IInv, Sound
<1> HIDE DEF x
<1>3. Sound(x, peerTip) /\ x.bRun[p] # None
  BY <1>1, <1>2, SoundHeard DEF Moved, IInv
<1>4. /\ Sound(t, peerTip) /\ Shown(t) /\ t.S = x.S
      /\ \A q \in x.hOpen : Marked(x, q) => Marked(t, q)
  BY <1>3, EndBlocks
<1> HIDE DEF t
<1>5. Waits(m, t)
  BY <1>2, <1>4 DEF Waits, Moved, Same, IInv, Sound, Well, Runs
<1> QED BY <1>1, <1>4, <1>5 DEF Kept

(* A block run ended waits for every header run. *)
LEMMA EndBlocksKeeps ==
  ASSUME NEW s, NEW tips, Sound(s, tips), NEW p \in Peers, s.bRun[p] # None
  PROVE  LET t == EndBlockRun(s, p) IN Sound(t, tips) /\ Shown(t) /\ Waits(s, t)
<1> DEFINE t == EndBlockRun(s, p)
<1>1. Sound(t, tips) /\ Shown(t) /\ t.S = s.S
  BY EndBlocks
<1> HIDE DEF t
<1>2. Waits(s, t)
  BY <1>1 DEF Waits, Sound, Well, Typed, Machines
<1> QED BY <1>1, <1>2 DEF t

\* p's block run has its answer, and staged is what is staged.
Answering(s, p, at, staged) == [s EXCEPT !.bRun[p].at = at, !.staged = staged]

(* A block run's answer keeps Sound. *)
LEMMA AnswerSound ==
  ASSUME NEW s, NEW tips, Sound(s, tips), NEW p \in s.connected, s.bRun[p] # None,
         NEW at \in {"judged", "threw"}, NEW staged, staged \subseteq s.applied + 1 .. s.best
  PROVE  LET t == Answering(s, p, at, staged)
         IN Sound(t, tips) /\ t.S = s.S /\ (Applied(s) => Applied(t)) /\ (Shows(s) => Shows(t))
<1> DEFINE r == [s.bRun[p] EXCEPT !.at = at]
           t == [s EXCEPT !.bRun[p] = r, !.staged = staged]
<1>0. p \in Peers /\ s.bRun[p] \in BlockRuns
  BY DEF Sound, Well, Typed, Machines
<1>1. Answering(s, p, at, staged) = t
  <2>1. [s EXCEPT !.bRun[p].at = at, !.staged = staged] = [s EXCEPT !.bRun[p] = r, !.staged = staged]
    BY DEF Sound, Well, Typed, Machines
  <2> QED BY <2>1 DEF Answering
<1>2. r \in BlockRuns /\ r.ids = s.bRun[p].ids /\ r # None
  BY <1>0, NoneAssumption DEF BlockRuns
<1> HIDE DEF r
<1>3. Typed(t)
  <2>1. staged \subseteq Ids
    BY SizeAssumption DEF Ids, Sound, Well, Typed, Machines
  <2> QED BY <1>0, <1>2, <2>1 DEF Sound, Well, Typed, Machines
<1>4. /\ Besides(s, t) /\ t.bOpen = s.bOpen /\ t.phase = s.phase /\ t.applied = s.applied
      /\ t.bRun[p] = r /\ \A q \in Peers : q # p => t.bRun[q] = s.bRun[q]
  BY <1>0 DEF Sound, Well, Typed, Machines, Besides
<1> HIDE DEF t
<1>5. Sound(t, tips)
  <2>1. \A q \in Peers : q \in t.bOpen => t.bRun[q] # None /\ q \in s.bOpen
    BY <1>2, <1>4 DEF Sound, Well, Runs
  <2>2. \A q \in s.connected : t.bRun[q] # None => q \in t.bOpen
    BY <1>4 DEF Sound, Well, Runs, Typed, Machines
  <2>3. ASSUME NEW i \in Ids, s.inFlight[i] # None
        PROVE  t.bRun[s.inFlight[i]] # None /\ i \in t.bRun[s.inFlight[i]].ids
    <3>1. s.inFlight[i] \in Peers /\ s.bRun[s.inFlight[i]] # None /\ i \in s.bRun[s.inFlight[i]].ids
      BY <2>3 DEF Sound, Well, Runs, Typed, Machines
    <3> QED BY <1>2, <1>4, <3>1
  <2>4. \A q \in Peers : t.bRun[q] # None /\ t.bRun[q].at # "asked" => q \in s.connected \cup s.closing
    BY <1>4 DEF Sound, Well, JudgedKnown
  <2> QED BY <1>3, <1>4, <2>1, <2>2, <2>3, <2>4, BlocksSound
<1>6. (Applied(s) => Applied(t)) /\ (Shows(s) => Shows(t))
  BY <1>4 DEF Applied, Shows, FullyApplied, Besides
<1> QED BY <1>1, <1>4, <1>5, <1>6 DEF Besides
-----------------------------------------------------------------------------
(* What a reply stages is above the applied height and within the best chain. *)
LEMMA StagedAnswer ==
  ASSUME IInv, NEW p \in Peers, NEW got
  PROVE  LET staged == m.staged \cup (got \cap WantedBlocks(m))
         IN /\ [Staged(got) EXCEPT !.bRun[p].at = "judged"] = Answering(m, p, "judged", staged)
            /\ staged \subseteq m.applied + 1 .. m.best
<1>1. [Staged(got) EXCEPT !.bRun[p].at = "judged"]
        = Answering(m, p, "judged", m.staged \cup (got \cap WantedBlocks(m)))
  BY DEF Staged, Answering, IInv, Sound, Well, Typed, Machines
<1>2. m.staged \cup (got \cap WantedBlocks(m)) \subseteq m.applied + 1 .. m.best
  BY DEF WantedBlocks, IInv, Sound, Well, Typed
<1> QED BY <1>1, <1>2

(* Blocks that arrive, are staged and drained. *)
LEMMA BlocksArriveKeeps ==
  ASSUME IInv, NEW p \in Peers, BlocksArrive(p)
  PROVE  Kept
<1>1. m.bRun[p] # None /\ peerTip' = peerTip /\ Sound(m, peerTip)
  BY DEF BlocksArrive, BlockRunAt, IInv
<1>2. CASE p \notin m.connected
  <2>1. m' = EndBlockRun(m, p)
    BY <1>2 DEF BlocksArrive
  <2> DEFINE t == EndBlockRun(m, p)
  <2>2. Sound(t, peerTip) /\ Shown(t) /\ Waits(m, t)
    BY <1>1, EndBlocksKeeps
  <2> HIDE DEF t
  <2> QED BY <1>1, <2>1, <2>2 DEF Kept, t
<1>3. CASE p \in m.connected
  <2>1. PICK got \in Served(p) :
          \/ m' = After([Staged(got) EXCEPT !.bRun[p].at = "judged"], Drain)
          \/ m' = Ban(After([Staged(got) EXCEPT !.bRun[p].at = "judged"], Drain), p)
    BY <1>3 DEF BlocksArrive
  <2> DEFINE staged == m.staged \cup (got \cap WantedBlocks(m))
             s == Answering(m, p, "judged", staged)
             t == Drain(s)
             u == Ban(t, p)
  <2>2. [Staged(got) EXCEPT !.bRun[p].at = "judged"] = s /\ staged \subseteq m.applied + 1 .. m.best
    BY StagedAnswer
  <2> HIDE DEF staged
  <2>3. Sound(s, peerTip) /\ s.S = m.S /\ (Applied(m) => Applied(s)) /\ (Shows(m) => Shows(s))
    BY <1>1, <1>3, <2>2, AnswerSound
  <2> HIDE DEF s
  <2>4. /\ Well(t) /\ Same(s, t) /\ Heard(s, t) /\ t.bOpen = s.bOpen /\ t.phase = s.phase /\ t.S = s.S
        /\ Applied(s) => Applied(t)
    BY <2>3, DrainSteady DEF Sound
  <2>5. After(s, Drain) = t
    BY After1 DEF After
  <2> HIDE DEF t
  <2>6. Sound(t, peerTip)
    BY <2>3, <2>4, SoundHeard
  <2>7. Shown(t) /\ t.S = m.S
    BY <2>3, <2>4 DEF Shown, Shows, Same, IInv
  <2>8. Sound(u, peerTip) /\ Shown(u) /\ u.S = m.S
    BY <2>6, <2>7, BanSound
  <2> HIDE DEF u
  <2>9. Waits(m, t) /\ Waits(m, u)
    BY <1>1, <2>7, <2>8 DEF Waits, Sound, Well, Typed, Machines
  <2>10. m' = t \/ m' = u
    BY <2>1, <2>2, <2>5 DEF u
  <2> QED BY <1>1, <2>6, <2>7, <2>8, <2>9, <2>10 DEF Kept
<1> QED BY <1>2, <1>3

(* Blocks the funnel aborted on. *)
LEMMA BlocksAbortedKeeps ==
  ASSUME IInv, NEW p \in Peers, BlocksAborted(p)
  PROVE  Kept
<1>1. m.bRun[p] # None /\ peerTip' = peerTip /\ Sound(m, peerTip) /\ p \in m.connected
  BY DEF BlocksAborted, BlockRunAt, IInv
<1>2. PICK got \in Served(p) : m' = [Staged(got \ {m.applied + 1}) EXCEPT !.bRun[p].at = "judged"]
  BY DEF BlocksAborted
<1> DEFINE ids == got \ {m.applied + 1}
           staged == m.staged \cup (ids \cap WantedBlocks(m))
           s == Answering(m, p, "judged", staged)
<1> HIDE DEF ids
<1>3. [Staged(ids) EXCEPT !.bRun[p].at = "judged"] = s /\ staged \subseteq m.applied + 1 .. m.best
  BY StagedAnswer
<1> HIDE DEF staged
<1>4. Sound(s, peerTip) /\ s.S = m.S /\ (Applied(m) => Applied(s)) /\ (Shows(m) => Shows(s))
  BY <1>1, <1>3, AnswerSound
<1> HIDE DEF s
<1>5. Shown(s) /\ Waits(m, s)
  BY <1>1, <1>4 DEF Shown, IInv, Waits, Sound, Well, Typed, Machines
<1>6. m' = s
  BY <1>2, <1>3 DEF ids
<1> QED BY <1>1, <1>4, <1>5, <1>6 DEF Kept

(* Blocks the handler threw on. *)
LEMMA BlocksThrewKeeps ==
  ASSUME IInv, NEW p \in Peers, BlocksThrew(p)
  PROVE  Kept
<1>1. m.bRun[p] # None /\ peerTip' = peerTip /\ Sound(m, peerTip) /\ p \in m.connected
  BY DEF BlocksThrew, BlockRunAt, IInv
<1> DEFINE s == Answering(m, p, "threw", m.staged)
<1>2. [m EXCEPT !.bRun[p].at = "threw"] = s
  BY <1>1 DEF Answering, Sound, Well, Typed, Machines
<1>3. m.staged \subseteq m.applied + 1 .. m.best
  BY <1>1 DEF Sound, Well, Typed
<1>4. Sound(s, peerTip) /\ s.S = m.S /\ (Applied(m) => Applied(s)) /\ (Shows(m) => Shows(s))
  BY <1>1, <1>3, AnswerSound
<1> HIDE DEF s
<1>5. Shown(s) /\ Waits(m, s)
  BY <1>1, <1>4 DEF Shown, IInv, Waits, Sound, Well, Typed, Machines
<1>6. m' = s
  BY <1>2 DEF BlocksThrew
<1> QED BY <1>1, <1>4, <1>5, <1>6 DEF Kept

(* What a peer the host still knows omitted may be noted. *)
LEMMA OmitSound ==
  ASSUME NEW s, NEW tips, Sound(s, tips), NEW p \in s.connected \cup s.closing, NEW ids \in SUBSET Ids
  PROVE  LET t == [s EXCEPT !.omitted[p] = ids]
         IN Sound(t, tips) /\ t.bRun = s.bRun /\ t.S = s.S
<1> DEFINE t == [s EXCEPT !.omitted[p] = ids]
<1>0. p \in Peers
  BY DEF Sound, Well, Typed, Machines
<1>1. Typed(t)
  BY <1>0 DEF Sound, Well, Typed, Machines
<1>2. /\ t.claims = s.claims /\ t.held = s.held /\ t.outbound = s.outbound
      /\ t.hOpen = s.hOpen /\ t.hRun = s.hRun /\ t.inFlight = s.inFlight
      /\ t.connected = s.connected /\ t.closing = s.closing /\ t.queue = s.queue
      /\ t.best = s.best /\ t.penalised = s.penalised /\ t.S = s.S /\ t.marks = s.marks
      /\ t.bRun = s.bRun /\ t.bOpen = s.bOpen
      /\ \A q \in Peers : q # p => t.omitted[q] = s.omitted[q]
  BY DEF Sound, Well, Typed, Machines
<1> HIDE DEF t
<1>4. Runs(t)
  BY <1>2 DEF Sound, Well, Runs
<1>5. EventsSound(t)
  BY <1>2 DEF Sound, Well, EventsSound, EventSound
<1>6. JudgedKnown(t)
  BY <1>2 DEF Sound, Well, JudgedKnown
<1>7. Left(t)
  <2> SUFFICES ASSUME NEW q \in Peers \ s.connected
               PROVE  Told(t, q) \/ (Cleared(t, q) /\ (q \in t.closing \/ t.omitted[q] = {}))
    BY <1>2 DEF Left
  <2>1. Told(s, q) \/ (Cleared(s, q) /\ (q \in s.closing \/ s.omitted[q] = {}))
    BY DEF Sound, Well, Left
  <2>2. Told(s, q) => Told(t, q)
    BY <1>2 DEF Told
  <2>3. Cleared(s, q) => Cleared(t, q)
    BY <1>2 DEF Cleared
  <2> QED BY <1>2, <2>1, <2>2, <2>3
<1>8. Honest(t, tips) /\ (Needless(s) => Needless(t))
  BY <1>2 DEF Sound, Honest, Needless
<1> QED BY <1>1, <1>2, <1>4, <1>5, <1>6, <1>7, <1>8 DEF Sound, Well, t

(* The block run continuing after its answer: omissions are noted of peers the host knows. *)
LEMMA BlocksJudgedKeeps ==
  ASSUME IInv, NEW p \in Peers, BlocksJudged(p)
  PROVE  Kept
<1>1. m.bRun[p] # None /\ m.bRun[p].at # "asked" /\ peerTip' = peerTip /\ Sound(m, peerTip)
  BY DEF BlocksJudged, BlockRunAt, IInv
<1> DEFINE still == IF m.bRun[p].at = "threw" THEN {} ELSE m.bRun[p].ids \cap WantedBlocks(m)
           ids == m.omitted[p] \cup still
           s == [m EXCEPT !.omitted[p] = ids]
           t == EndBlockRun(s, p)
<1>2. m' = EndBlockRun([m EXCEPT !.omitted[p] = @ \cup still], p)
  BY DEF BlocksJudged
<1>3. [m EXCEPT !.omitted[p] = @ \cup still] = s
  BY <1>1 DEF Sound, Well, Typed, Machines
<1>4. still \subseteq Ids
  <2>1. WantedBlocks(m) \subseteq Ids
    BY <1>1, WantedAre DEF Sound, Well
  <2> QED BY <2>1
<1>5. p \in m.connected \cup m.closing
  BY <1>1 DEF Sound, Well, JudgedKnown
<1> HIDE DEF still
<1>6. ids \in SUBSET Ids
  BY <1>1, <1>4 DEF Sound, Well, Typed, Machines
<1> HIDE DEF ids
<1>7. Sound(s, peerTip) /\ s.bRun = m.bRun /\ s.S = m.S
  BY <1>1, <1>5, <1>6, OmitSound
<1> HIDE DEF s
<1>8. Sound(t, peerTip) /\ Shown(t) /\ t.S = s.S
  BY <1>1, <1>7, EndBlocks
<1> HIDE DEF t
<1>9. Waits(m, t)
  BY <1>1, <1>7, <1>8 DEF Waits, Sound, Well, Typed, Machines
<1> QED BY <1>1, <1>2, <1>3, <1>8, <1>9 DEF Kept, t
-----------------------------------------------------------------------------
(* Between two items no disconnect is queued and no run has its answer. *)
LEMMA QuietIs ==
  ASSUME IInv, Quiet
  PROVE  /\ \A i \in DOMAIN m.queue : m.queue[i].type # "peer-disconnect"
         /\ \A p \in Peers : m.bRun[p] # None => m.bRun[p].at = "asked"
         /\ \A p \in Peers : m.hRun[p] # None => m.hRun[p].at = "asked"
<1>1. \A i \in DOMAIN m.queue : m.queue[i] = ChainMovedEvent
  BY DEF Quiet, Range
<1> QED BY <1>1 DEF Quiet, ChainMovedEvent, Event

(* Pushing an event changes the queue alone. *)
LEMMA PushedIs ==
  ASSUME NEW s, Typed(s), NEW e \in Events
  PROVE  LET t == [s EXCEPT !.queue = Append(@, e)]
         IN /\ Typed(t) /\ t.queue = Append(s.queue, e)
            /\ t.claims = s.claims /\ t.held = s.held /\ t.outbound = s.outbound
            /\ t.hOpen = s.hOpen /\ t.bOpen = s.bOpen /\ t.hRun = s.hRun /\ t.bRun = s.bRun
            /\ t.inFlight = s.inFlight /\ t.omitted = s.omitted
            /\ t.best = s.best /\ t.applied = s.applied /\ t.penalised = s.penalised
            /\ t.phase = s.phase /\ t.S = s.S /\ t.connected = s.connected /\ t.closing = s.closing
<1>1. Append(s.queue, e) \in Seq(Events)
  BY AppendProperties DEF Typed, Machines
<1> QED BY <1>1 DEF Typed, Machines

(* A connection opens. *)
LEMMA ConnectKeeps ==
  ASSUME IInv, NEW p \in Peers, Connect(p)
  PROVE  Kept
<1> DEFINE e == Event("peer-active", p, None)
           s == [m EXCEPT !.connected = @ \cup {p}]
           t == [s EXCEPT !.queue = Append(@, e)]
<1>1. m' = t /\ peerTip' = peerTip
  BY DEF Connect, Pushed
<1>2. e \in Events /\ e.type = "peer-active" /\ e.peer = p /\ e.claim = None
  BY DEF Event, Events, EventTypes
<1> HIDE DEF e
<1>3. Typed(s)
  BY DEF IInv, Sound, Well, Typed, Machines
<1>4. /\ s.queue = m.queue /\ s.connected = m.connected \cup {p} /\ s.closing = m.closing
      /\ s.claims = m.claims /\ s.held = m.held /\ s.outbound = m.outbound
      /\ s.hOpen = m.hOpen /\ s.bOpen = m.bOpen /\ s.hRun = m.hRun /\ s.bRun = m.bRun
      /\ s.inFlight = m.inFlight /\ s.omitted = m.omitted
      /\ s.best = m.best /\ s.applied = m.applied /\ s.penalised = m.penalised
      /\ s.phase = m.phase /\ s.S = m.S
  BY DEF IInv, Sound, Well, Typed, Machines
<1> HIDE DEF s
<1>5. /\ Typed(t) /\ t.queue = Append(s.queue, e)
      /\ t.claims = s.claims /\ t.held = s.held /\ t.outbound = s.outbound
      /\ t.hOpen = s.hOpen /\ t.bOpen = s.bOpen /\ t.hRun = s.hRun /\ t.bRun = s.bRun
      /\ t.inFlight = s.inFlight /\ t.omitted = s.omitted
      /\ t.best = s.best /\ t.applied = s.applied /\ t.penalised = s.penalised
      /\ t.phase = s.phase /\ t.S = s.S /\ t.connected = s.connected /\ t.closing = s.closing
  BY <1>2, <1>3, PushedIs
<1> HIDE DEF t
<1>6. EventSound(t, e)
  BY <1>2 DEF EventSound
<1>7. /\ \A i \in DOMAIN m.queue : m.queue[i].type # "peer-disconnect"
      /\ \A q \in Peers : m.bRun[q] # None => m.bRun[q].at = "asked"
  BY QuietIs DEF Connect
<1>8. p \notin m.connected /\ p \notin m.closing /\ m.hRun[p] = None /\ m.bRun[p] = None
  BY DEF Connect
<1>9. t.connected \cap t.closing = {}
  BY <1>4, <1>5, <1>8 DEF IInv, Sound, Well, JudgedKnown
<1>10. Sends(m, t, e)
  BY <1>2, <1>4, <1>5, <1>6, <1>7, <1>8, <1>9 DEF Sends
<1>11. Sound(t, peerTip) /\ Waits(m, t) /\ Shown(t)
  BY <1>2, <1>5, <1>10, SendSound DEF Own, IInv
<1> QED BY <1>1, <1>11 DEF Kept

(* A connection closes, or one the host had hung up is gone. *)
LEMMA ClosesKeeps ==
  ASSUME IInv, NEW p \in Peers, Disconnect(p) \/ HungUp(p)
  PROVE  Kept
<1> DEFINE e == Event("peer-disconnect", p, None)
           s == [m EXCEPT !.connected = @ \ {p}, !.closing = m.closing \ {p}]
           t == [s EXCEPT !.queue = Append(@, e)]
<1>0. m.connected \cap m.closing = {} /\ (p \in m.connected \/ p \in m.closing)
  BY DEF IInv, Sound, Well, JudgedKnown, Disconnect, HungUp
<1>1. m' = t /\ peerTip' = peerTip /\ Quiet
  <2>1. CASE Disconnect(p)
    <3>1. m.closing \ {p} = m.closing
      BY <1>0, <2>1 DEF Disconnect
    <3>2. s = [m EXCEPT !.connected = @ \ {p}]
      BY <3>1 DEF IInv, Sound, Well, Typed, Machines
    <3>3. m' = [[m EXCEPT !.connected = @ \ {p}] EXCEPT !.queue = Append(@, e)]
      BY <2>1 DEF Disconnect, Pushed
    <3> QED BY <2>1, <3>2, <3>3 DEF Disconnect
  <2>2. CASE HungUp(p)
    <3>1. m.connected \ {p} = m.connected
      BY <1>0, <2>2 DEF HungUp
    <3>2. s = [m EXCEPT !.closing = @ \ {p}]
      BY <3>1 DEF IInv, Sound, Well, Typed, Machines
    <3>3. m' = [[m EXCEPT !.closing = @ \ {p}] EXCEPT !.queue = Append(@, e)]
      BY <2>2 DEF HungUp, Pushed
    <3> QED BY <2>2, <3>2, <3>3 DEF HungUp
  <2> QED BY <2>1, <2>2
<1>2. e \in Events /\ e.type = "peer-disconnect" /\ e.peer = p /\ e.claim = None
  BY DEF Event, Events, EventTypes
<1> HIDE DEF e
<1>3. Typed(s)
  BY DEF IInv, Sound, Well, Typed, Machines
<1>4. /\ s.queue = m.queue /\ s.connected = m.connected \ {p} /\ s.closing = m.closing \ {p}
      /\ s.claims = m.claims /\ s.held = m.held /\ s.outbound = m.outbound
      /\ s.hOpen = m.hOpen /\ s.bOpen = m.bOpen /\ s.hRun = m.hRun /\ s.bRun = m.bRun
      /\ s.inFlight = m.inFlight /\ s.omitted = m.omitted
      /\ s.best = m.best /\ s.applied = m.applied /\ s.penalised = m.penalised
      /\ s.phase = m.phase /\ s.S = m.S
  BY DEF IInv, Sound, Well, Typed, Machines
<1> HIDE DEF s
<1>5. /\ Typed(t) /\ t.queue = Append(s.queue, e)
      /\ t.claims = s.claims /\ t.held = s.held /\ t.outbound = s.outbound
      /\ t.hOpen = s.hOpen /\ t.bOpen = s.bOpen /\ t.hRun = s.hRun /\ t.bRun = s.bRun
      /\ t.inFlight = s.inFlight /\ t.omitted = s.omitted
      /\ t.best = s.best /\ t.applied = s.applied /\ t.penalised = s.penalised
      /\ t.phase = s.phase /\ t.S = s.S /\ t.connected = s.connected /\ t.closing = s.closing
  BY <1>2, <1>3, PushedIs
<1> HIDE DEF t
<1>6. EventSound(t, e)
  BY <1>2, <1>4, <1>5 DEF EventSound
<1>7. /\ \A i \in DOMAIN m.queue : m.queue[i].type # "peer-disconnect"
      /\ \A q \in Peers : m.bRun[q] # None => m.bRun[q].at = "asked"
  BY <1>1, QuietIs
<1>8. t.connected \cap t.closing = {}
  BY <1>0, <1>4, <1>5
<1>9. Sends(m, t, e)
  BY <1>2, <1>4, <1>5, <1>6, <1>7, <1>8 DEF Sends
<1>10. Sound(t, peerTip) /\ Waits(m, t) /\ Shown(t)
  BY <1>2, <1>5, <1>9, SendSound DEF Own, IInv
<1> QED BY <1>1, <1>10 DEF Kept

(* An event that opens and closes nothing. *)
LEMMA PushKeeps ==
  ASSUME IInv, Quiet, NEW e \in Events, e.type \notin {"peer-disconnect"},
         e.type \in {"peer-active", "sync-info", "need-headers"} => e.peer \in Peers,
         e.type = "sync-info" => e.claim # None,
         \A p \in Peers \ Liars : e.peer = p => Own(e.claim, peerTip[p]),
         MaxNeeds = 0 => e.type # "need-headers",
         m' = [m EXCEPT !.queue = Append(@, e)], peerTip' = peerTip
  PROVE  Kept
<1> DEFINE t == [m EXCEPT !.queue = Append(@, e)]
<1>1. Typed(m)
  BY DEF IInv, Sound, Well
<1>2. /\ Typed(t) /\ t.queue = Append(m.queue, e)
      /\ t.claims = m.claims /\ t.held = m.held /\ t.outbound = m.outbound
      /\ t.hOpen = m.hOpen /\ t.bOpen = m.bOpen /\ t.hRun = m.hRun /\ t.bRun = m.bRun
      /\ t.inFlight = m.inFlight /\ t.omitted = m.omitted
      /\ t.best = m.best /\ t.applied = m.applied /\ t.penalised = m.penalised
      /\ t.phase = m.phase /\ t.S = m.S /\ t.connected = m.connected /\ t.closing = m.closing
  BY <1>1, PushedIs
<1>3. m' = t
  OBVIOUS
<1> HIDE DEF t
<1>4. EventSound(t, e)
  BY DEF EventSound
<1>5. /\ \A i \in DOMAIN m.queue : m.queue[i].type # "peer-disconnect"
      /\ \A q \in Peers : m.bRun[q] # None => m.bRun[q].at = "asked"
  BY QuietIs
<1>6. m.connected \cap m.closing = {}
  BY DEF IInv, Sound, Well, JudgedKnown
<1>7. Sends(m, t, e)
  BY <1>2, <1>4, <1>5, <1>6 DEF Sends
<1>8. Sound(t, peerTip) /\ Waits(m, t) /\ Shown(t)
  BY <1>2, <1>7, SendSound DEF IInv
<1> QED BY <1>3, <1>8 DEF Kept

(* A peer sends its tip; an honest one sends its own. *)
LEMMA SendSyncInfoKeeps ==
  ASSUME IInv, NEW p \in Peers, SendSyncInfo(p)
  PROVE  Kept
<1>1. PICK claim \in {TipAt(peerTip[p])} \cup (IF p \in Liars THEN FalseClaims ELSE {}) :
        m' = Pushed(m, "sync-info", p, claim)
  BY DEF SendSyncInfo
<1>2. peerTip[p] \in 0 .. Top /\ Top \in Nat
  BY SizeAssumption DEF IInv
<1>3. claim \in Claims /\ claim # None /\ (p \notin Liars => Own(claim, peerTip[p]))
  BY <1>1, <1>2, NoneAssumption DEF Claims, Own
<1> DEFINE e == Event("sync-info", p, claim)
<1>4. e \in Events /\ e.type = "sync-info" /\ e.peer = p /\ e.claim = claim
  BY <1>3 DEF Event, Events, EventTypes
<1>5. m' = [m EXCEPT !.queue = Append(@, e)] /\ peerTip' = peerTip /\ Quiet
  BY <1>1 DEF SendSyncInfo, Pushed
<1> HIDE DEF e
<1> QED BY <1>3, <1>4, <1>5, PushKeeps

(* The intake asks for headers. *)
LEMMA NeedHeadersKeeps ==
  ASSUME IInv, NEW p \in Peers, NeedHeaders(p)
  PROVE  Kept
<1> DEFINE e == Event("need-headers", p, None)
<1>1. e \in Events /\ e.type = "need-headers" /\ e.peer = p /\ e.claim = None
  BY DEF Event, Events, EventTypes
<1>2. m' = [m EXCEPT !.queue = Append(@, e)] /\ peerTip' = peerTip /\ Quiet
  BY DEF NeedHeaders, Pushed
<1>3. MaxNeeds # 0
  BY LimitAssumption DEF NeedHeaders, IInv, Spendings
<1> HIDE DEF e
<1> QED BY <1>1, <1>2, <1>3, PushKeeps DEF Own

(* The bootstrap settles. *)
LEMMA BootstrapKeeps ==
  ASSUME IInv, BootstrapSettled
  PROVE  Kept
<1> DEFINE e == Event("bootstrap-settled", None, None)
<1>1. e \in Events /\ e.type = "bootstrap-settled" /\ e.peer = None /\ e.claim = None
  BY DEF Event, Events, EventTypes
<1>2. m' = [m EXCEPT !.queue = Append(@, e)] /\ peerTip' = peerTip /\ Quiet
  BY DEF BootstrapSettled, Pushed
<1> HIDE DEF e
<1> QED BY <1>1, <1>2, PushKeeps DEF Own

(* A peer's tip rises, so what it claimed before stays its own. *)
LEMMA PeerAdvancesKeeps ==
  ASSUME IInv, NEW p \in Peers, PeerAdvances(p)
  PROVE  Kept
<1>1. peerTip' \in [Peers -> 0 .. Top] /\ \A q \in Peers : peerTip[q] <= peerTip'[q]
  BY SizeAssumption DEF PeerAdvances, IInv
<1>2. m' = m
  BY DEF PeerAdvances
<1> DEFINE tips == peerTip'
<1>3. ASSUME NEW q \in Peers, NEW claim, Own(claim, peerTip[q]) PROVE Own(claim, tips[q])
  <2>1. 0 .. peerTip[q] \subseteq 0 .. tips[q]
    BY <1>1, SizeAssumption DEF IInv
  <2> QED BY <1>3, <2>1 DEF Own
<1> HIDE DEF tips
<1>4. Honest(m, tips)
  BY <1>3 DEF IInv, Sound, Honest, HonestRun
<1>5. Sound(m, tips) /\ Shown(m) /\ Waits(m, m)
  BY <1>4 DEF IInv, Sound, Waits, Well, Typed, Machines
<1> QED BY <1>2, <1>5 DEF Kept, tips

(* The best header falls back, over a refused one: what was taken from an honest peer is not
   yet judged, or no run has its answer. *)
LEMMA BestDropsKeeps ==
  ASSUME IInv, BestDrops
  PROVE  Kept
<1> DEFINE s == [m EXCEPT !.best = @ - 1, !.staged = @ \ {m.best}]
           t == ChainMoved(s)
<1>1. (m' = t \/ \E p \in Liars : m' = Ban(t, p)) /\ peerTip' = peerTip /\ Quiet /\ m.applied < m.best
  BY DEF BestDrops
<1>2. /\ m.applied \in Nat /\ m.best \in 1 .. Top /\ Top \in Nat
      /\ m.staged \ {m.best} \subseteq m.applied + 1 .. m.best - 1
  BY <1>1, SizeAssumption DEF IInv, Sound, Well, Typed, Machines
<1>3. Typed(s)
  <2>1. m.best - 1 \in 0 .. Top /\ m.applied <= m.best - 1 /\ m.staged \ {m.best} \subseteq Ids
    BY <1>1, <1>2 DEF IInv, Sound, Well, Typed, Machines, Ids
  <2> DEFINE b == m.best - 1
             left == m.staged \ {m.best}
             x == [m EXCEPT !.best = b, !.staged = left]
  <2>2. s = x
    OBVIOUS
  <2>3. b \in 0 .. Top /\ m.applied <= b /\ left \in SUBSET Ids /\ left \subseteq m.applied + 1 .. b
    BY <1>2, <2>1
  <2> HIDE DEF s, b, left
  <2>4. x \in Machines /\ x.order = m.order /\ x.marks = m.marks /\ x.applied = m.applied
        /\ x.best = b /\ x.staged = left
    BY <2>3 DEF IInv, Sound, Well, Typed, Machines
  <2> QED BY <2>2, <2>3, <2>4 DEF IInv, Sound, Well, Typed
<1>4. /\ Alike(m, s) /\ s.hRun = m.hRun /\ s.hOpen = m.hOpen
      /\ s.penalised = m.penalised /\ s.S = m.S /\ s.phase = m.phase
  BY DEF IInv, Sound, Well, Typed, Machines, Alike
<1> HIDE DEF s
<1>5. Well(s)
  <2>1. \A q \in Peers : q \in s.hOpen => s.hRun[q] # None /\ (q \in m.hOpen \/ q \in m.connected)
    BY <1>4 DEF IInv, Sound, Well, Runs
  <2>2. \A q \in m.connected : s.hRun[q] # None => q \in s.hOpen
    BY <1>4 DEF IInv, Sound, Well, Runs
  <2> QED BY <1>3, <1>4, <2>1, <2>2, WellHeaders DEF IInv, Sound
<1>6. Sound(s, peerTip)
  <2>1. \A q \in Peers : m.hRun[q] # None => m.hRun[q].at = "asked"
    BY <1>1, QuietIs
  <2>2. \A q \in Peers \ Liars : s.hRun[q] # None => HonestRun(s.hRun[q], peerTip[q], s.best)
    BY <1>4, <2>1 DEF IInv, Sound, Honest, HonestRun
  <2>3. Honest(s, peerTip) /\ (Needless(m) => Needless(s))
    BY <1>4, <2>2 DEF IInv, Sound, Honest, Needless, Alike
  <2> QED BY <1>5, <2>3 DEF IInv, Sound
<1>7. Sound(t, peerTip) /\ Applied(t) /\ (Shows(s) => Shows(t)) /\ t.S = s.S
  BY <1>6, MovedSound
<1> HIDE DEF t
<1>8. Shows(m) => Shows(s)
  BY <1>4 DEF Shows, Alike
<1>9. Shown(t) /\ Waits(m, t)
  BY <1>4, <1>7, <1>8 DEF IInv, Shown, Waits, Sound, Well, Typed, Machines
<1>10. ASSUME NEW p \in Liars, m' = Ban(t, p) PROVE Kept
  <2> DEFINE u == Ban(t, p)
  <2>1. p \in Peers
    BY PeerAssumption
  <2>2. Sound(u, peerTip) /\ Shown(u) /\ u.S = t.S
    BY <1>7, <1>9, <2>1, BanSound
  <2> HIDE DEF u
  <2>3. Waits(m, u)
    BY <1>4, <1>7, <2>2 DEF IInv, Waits, Sound, Well, Typed, Machines
  <2>4. m' = u
    BY <1>10 DEF u
  <2> QED BY <1>1, <2>2, <2>3, <2>4 DEF Kept
<1> QED BY <1>1, <1>7, <1>9, <1>10 DEF Kept
-----------------------------------------------------------------------------
\* What s waits for, u waits for too.
Grown(s, u) ==
  u.S = s.S /\ s.hOpen \cap s.connected \subseteq u.hOpen
    /\ s.outbound \cap s.connected \subseteq u.outbound

(* A tail step after more has been opened waits for what was open. *)
LEMMA GrownWaits ==
  ASSUME NEW s, NEW u, NEW t, Well(s), Grown(s, u), Waited(u, t)
  PROVE  Waits(s, t)
  BY DEF Waits, Grown, Waited, Well, Runs, Typed, Machines

\* From s to t only what the machine keeps of p has changed.
Apart(s, t, p) ==
  /\ t.bOpen = s.bOpen /\ t.bRun = s.bRun /\ t.inFlight = s.inFlight /\ t.hOpen = s.hOpen
  /\ t.hRun = s.hRun /\ t.connected = s.connected /\ t.closing = s.closing /\ t.queue = s.queue
  /\ t.best = s.best /\ t.penalised = s.penalised /\ t.S = s.S
  /\ \A q \in Peers : q # p =>
       /\ t.claims[q] = s.claims[q] /\ t.held[q] = s.held[q] /\ t.omitted[q] = s.omitted[q]
       /\ q \in t.outbound <=> q \in s.outbound

(* A change to what is kept of one connected peer keeps Sound. *)
LEMMA ApartSound ==
  ASSUME NEW s, NEW t, NEW tips, Sound(s, tips), Typed(t), NEW p \in s.connected, Apart(s, t, p),
         p \notin Liars => Own(t.claims[p], tips[p]) /\ Own(t.held[p], tips[p])
  PROVE  Sound(t, tips)
<1>1. Runs(t)
  BY DEF Sound, Well, Runs, Apart
<1>2. EventsSound(t)
  BY DEF Sound, Well, EventsSound, EventSound, Apart
<1>3. Left(t)
  <2> SUFFICES ASSUME NEW q \in Peers \ s.connected
               PROVE  Told(t, q) \/ (Cleared(t, q) /\ (q \in t.closing \/ t.omitted[q] = {}))
    BY DEF Left, Apart
  <2>0. q # p
    OBVIOUS
  <2>1. Told(s, q) \/ (Cleared(s, q) /\ (q \in s.closing \/ s.omitted[q] = {}))
    BY DEF Sound, Well, Left
  <2>2. Told(s, q) => Told(t, q)
    BY DEF Told, Apart
  <2>3. Cleared(s, q) => Cleared(t, q)
    BY <2>0 DEF Cleared, Apart
  <2>4. t.omitted[q] = s.omitted[q] /\ t.closing = s.closing
    BY <2>0 DEF Apart
  <2> QED BY <2>1, <2>2, <2>3, <2>4
<1>4. JudgedKnown(t)
  BY DEF Sound, Well, JudgedKnown, Apart
<1>5. Honest(t, tips)
  <2>1. ASSUME NEW q \in Peers \ Liars PROVE Own(t.claims[q], tips[q]) /\ Own(t.held[q], tips[q])
    BY DEF Sound, Honest, Apart
  <2> QED BY <2>1 DEF Sound, Honest, Apart
<1>6. Needless(s) => Needless(t)
  BY DEF Needless, Apart
<1> QED BY <1>1, <1>2, <1>3, <1>4, <1>5, <1>6 DEF Sound, Well

(* Holding a claim for the next tick keeps Sound. *)
LEMMA HoldSound ==
  ASSUME NEW s, NEW tips, Sound(s, tips), NEW p \in s.connected, NEW claim \in Claims \cup {None},
         p \notin Liars => Own(claim, tips[p])
  PROVE  LET t == [s EXCEPT !.held[p] = claim]
         IN /\ Sound(t, tips) /\ Grown(s, t) /\ t.connected = s.connected /\ t.claims = s.claims
            /\ (Shown(s) => Shown(t)) /\ t.hOpen = s.hOpen /\ t.outbound = s.outbound
            /\ \A q \in Peers : q # p => t.held[q] = s.held[q]
<1> DEFINE t == [s EXCEPT !.held[p] = claim]
<1>0. p \in Peers
  BY DEF Sound, Well, Typed, Machines
<1>1. Typed(t)
  BY <1>0 DEF Sound, Well, Typed, Machines
<1>2. Apart(s, t, p) /\ t.claims = s.claims /\ t.held[p] = claim /\ t.outbound = s.outbound
      /\ t.phase = s.phase /\ t.applied = s.applied
  BY <1>0 DEF Sound, Well, Typed, Machines, Apart
<1> HIDE DEF t
<1>3. p \notin Liars => Own(t.claims[p], tips[p]) /\ Own(t.held[p], tips[p])
  BY <1>0, <1>2 DEF Sound, Honest
<1>4. Sound(t, tips)
  BY <1>1, <1>2, <1>3, ApartSound
<1> QED BY <1>2, <1>4 DEF Apart, Grown, Shown, Shows, Applied, FullyApplied, t

(* startHeaderRun opens a run at most, of a connected peer. *)
LEMMA StartsSound ==
  ASSUME NEW s, NEW tips, Sound(s, tips), NEW p \in Peers
  PROVE  LET t == StartHeaderRun(s, p)
         IN Sound(t, tips) /\ Beside(s, t) /\ s.hOpen \subseteq t.hOpen
<1>1. CASE p \notin s.connected \/ Marked(s, p) \/ p \in s.hOpen
  BY <1>1 DEF StartHeaderRun, Beside, Alike
<1>2. CASE ~ (p \notin s.connected \/ Marked(s, p) \/ p \in s.hOpen)
  <2> DEFINE t == Request([s EXCEPT !.hOpen = @ \cup {p}], p)
  <2>1. Sound(t, tips) /\ Beside(s, t) /\ t.hOpen = s.hOpen \cup {p}
    BY <1>2, RequestSound
  <2>2. StartHeaderRun(s, p) = t
    BY <1>2 DEF StartHeaderRun
  <2> HIDE DEF t
  <2> QED BY <2>1, <2>2
<1> QED BY <1>1, <1>2

(* Acting on a sync-info: the claim stored, a run opened or blocks pumped, the phase true. *)
LEMMA ActSound ==
  ASSUME NEW s, NEW tips, Sound(s, tips), NEW p \in s.connected, NEW claim \in Claims,
         p \notin Liars => Own(claim, tips[p])
  PROVE  LET t == ActOnSyncInfo(s, p, claim)
         IN /\ Sound(t, tips) /\ Applied(t) /\ Shows(t) /\ Grown(s, t)
            /\ t.connected = s.connected /\ t.held = s.held
            /\ t.outbound = s.outbound /\ s.hOpen \subseteq t.hOpen
<1> DEFINE moved == HashOf(s.claims[p]) # claim.tipHash
           om == IF moved THEN {} ELSE s.omitted[p]
           order == IF p \in Range(s.order) THEN s.order ELSE Append(s.order, p)
           x == [s EXCEPT !.acted = @ \cup {p}, !.omitted[p] = om, !.claims[p] = claim, !.order = order]
           y == IF Unsettled(x, p) THEN StartHeaderRun(x, p) ELSE [x EXCEPT !.settled = TRUE]
           t == After(After(y, RecomputePhase), KickBlockPump)
<1>0. p \in Peers
  BY DEF Sound, Well, Typed, Machines
<1>1. ActOnSyncInfo(s, p, claim) = t
  <2>1. [s EXCEPT !.acted = @ \cup {p}, !.omitted[p] = IF moved THEN {} ELSE @,
                  !.claims[p] = claim, !.order = IF p \in Range(@) THEN @ ELSE Append(@, p)] = x
    OBVIOUS
  <2> QED BY <2>1 DEF ActOnSyncInfo
<1>2. om \in SUBSET Ids
  BY <1>0 DEF Sound, Well, Typed, Machines
<1> HIDE DEF moved, om
<1>3. order \in Seq(Peers) /\ IsInjective(order)
  <2>1. s.order \in Seq(Peers) /\ IsInjective(s.order)
    BY DEF Sound, Well, Typed, Machines
  <2>2. CASE p \notin Range(s.order)
    <3>1. \A i \in DOMAIN s.order : s.order[i] # p
      BY <2>2 DEF Range
    <3> QED BY <1>0, <2>1, <2>2, <3>1, AppendOnce
  <2> QED BY <2>1, <2>2
<1> HIDE DEF order
<1>4. Typed(x)
  BY <1>0, <1>2, <1>3 DEF Sound, Well, Typed, Machines
<1>5. Apart(s, x, p) /\ x.claims[p] = claim /\ x.held = s.held /\ x.outbound = s.outbound
  BY <1>0 DEF Sound, Well, Typed, Machines, Apart
<1> HIDE DEF x
<1>6. p \notin Liars => Own(x.claims[p], tips[p]) /\ Own(x.held[p], tips[p])
  BY <1>0, <1>5 DEF Sound, Honest
<1>7. Sound(x, tips)
  BY <1>4, <1>5, <1>6, ApartSound
<1>8. /\ Sound(y, tips) /\ y.S = x.S /\ x.hOpen \subseteq y.hOpen /\ y.outbound = x.outbound
      /\ y.connected = x.connected /\ y.held = x.held
  <2>1. CASE Unsettled(x, p)
    <3> DEFINE z == StartHeaderRun(x, p)
    <3>1. Sound(z, tips) /\ Beside(x, z) /\ x.hOpen \subseteq z.hOpen
      BY <1>0, <1>7, StartsSound
    <3> HIDE DEF z
    <3>2. y = z
      BY <2>1 DEF z
    <3> QED BY <3>1, <3>2 DEF Beside, Alike
  <2>2. CASE ~ Unsettled(x, p)
    <3> DEFINE z == [x EXCEPT !.settled = TRUE]
    <3>1. /\ Sound(z, tips) /\ z.S = x.S /\ z.hOpen = x.hOpen /\ z.outbound = x.outbound
          /\ z.connected = x.connected
      BY <1>7, SettleSound
    <3>2. z.held = x.held
      BY <1>4 DEF Typed, Machines
    <3> HIDE DEF z
    <3>3. y = z
      BY <2>2 DEF z
    <3> QED BY <3>1, <3>2, <3>3
  <2> QED BY <2>1, <2>2
<1> HIDE DEF y
<1>9. Well(t) /\ Steady(y, t) /\ Applied(t) /\ Shows(t) /\ t.S = y.S
  BY <1>8, Tails DEF Sound
<1> HIDE DEF t
<1>10. Sound(t, tips)
  BY <1>8, <1>9, SoundHeard DEF Steady
<1> QED BY <1>1, <1>5, <1>8, <1>9, <1>10 DEF Grown, Steady, Same, Apart
-----------------------------------------------------------------------------
\* Header runs have been opened, and nothing else that is waited for has changed.
Opened(s, t) ==
  t.S = s.S /\ s.hOpen \subseteq t.hOpen /\ t.outbound = s.outbound /\ t.connected = s.connected

(* Reopening a peer's run opens one at most. *)
LEMMA ReopenSound ==
  ASSUME NEW s, NEW tips, Sound(s, tips), NEW p \in Peers
  PROVE  LET t == Reopen(s, p) IN Sound(t, tips) /\ Opened(s, t)
<1>1. CASE Unsettled(s, p)
  <2> DEFINE t == StartHeaderRun(s, p)
  <2>1. Sound(t, tips) /\ Beside(s, t) /\ s.hOpen \subseteq t.hOpen
    BY StartsSound
  <2> HIDE DEF t
  <2> QED BY <1>1, <2>1 DEF Reopen, Opened, Beside, Alike, t
<1>2. CASE ~ Unsettled(s, p)
  BY <1>2 DEF Reopen, Opened
<1> QED BY <1>1, <1>2

(* So does reopening one peer's after another's. *)
LEMMA EachReopen ==
  ASSUME NEW s, NEW tips, Sound(s, tips), NEW peers \in Seq(Peers)
  PROVE  LET t == Each(s, Reopen, peers) IN Sound(t, tips) /\ Opened(s, t)
<1> DEFINE n == Len(peers)
           D == {t \in Machines : Sound(t, tips) /\ Opened(s, t)}
           F == [i \in 1 .. n |-> [t \in D |-> Reopen(t, peers[i])]]
           Is(g) == g = [i \in 0 .. n |-> IF i = 0 THEN s
                                          ELSE CHOOSE t \in {Reopen(x, peers[i]) : x \in {g[i - 1]}} : TRUE]
           left == CHOOSE g : Is(g)
<1>0. n \in Nat /\ \A i \in 1 .. n : peers[i] \in Peers
  OBVIOUS
<1>1. s \in D
  BY DEF Opened, Sound, Well, Typed
<1>2. ASSUME NEW t \in D, NEW i \in 1 .. n PROVE Reopen(t, peers[i]) \in D
  <2> DEFINE u == Reopen(t, peers[i])
  <2>1. Sound(u, tips) /\ Opened(t, u)
    BY <1>0, ReopenSound
  <2> HIDE DEF u
  <2>2. Opened(s, u)
    BY <2>1 DEF Opened
  <2> QED BY <2>1, <2>2 DEF Sound, Well, Typed, u
<1>3. F \in [1 .. n -> [D -> D]] /\ \A i \in 1 .. n : \A t \in D : F[i][t] = Reopen(t, peers[i])
  <2> HIDE DEF D, n
  <2> QED BY <1>2
<1> HIDE DEF F, D, n
<1>4. PICK g \in [0 .. n -> D] : g[0] = s /\ \A i \in 1 .. n : g[i] = F[i][g[i - 1]]
  <2>1. Defined(n, D, s, F)
    BY <1>0, <1>1, <1>3, Recursion
  <2> QED BY <2>1 DEF Defined
<1>5. \A i \in 0 .. n : g[i] = IF i = 0 THEN s ELSE CHOOSE t \in {Reopen(x, peers[i]) : x \in {g[i - 1]}} : TRUE
  <2> TAKE i \in 0 .. n
  <2>1. CASE i = 0
    BY <1>4, <2>1
  <2>2. CASE i # 0
    <3>1. i \in 1 .. n /\ i - 1 \in 0 .. n
      BY <1>0, <2>2
    <3>2. g[i] = Reopen(g[i - 1], peers[i])
      BY <1>3, <1>4, <3>1
    <3> QED BY <2>2, <3>2
  <2> QED BY <2>1, <2>2
<1>6. Is(g)
  BY <1>4, <1>5
<1>7. Each(s, Reopen, peers) = left[n]
  BY DEF Each, After, n
<1> HIDE DEF Is
<1>8. Is(left)
  BY <1>6
<1>9. Is(left) => \A i \in 0 .. n : left[i] = IF i = 0 THEN s ELSE Reopen(left[i - 1], peers[i])
  <2> HIDE DEF left
  <2> QED BY DEF Is
<1> HIDE DEF left
<1>10. \A i \in 0 .. n : left[i] = IF i = 0 THEN s ELSE Reopen(left[i - 1], peers[i])
  BY <1>8, <1>9
<1> DEFINE T == {i \in 0 .. n : left[i] \in D}
<1>11. 0 \in T /\ \A i \in 1 .. n : i - 1 \in T => i \in T
  <2>1. 0 \in T
    BY <1>0, <1>1, <1>10
  <2>2. ASSUME NEW i \in 1 .. n, i - 1 \in T PROVE i \in T
    <3>1. left[i] = Reopen(left[i - 1], peers[i]) /\ left[i - 1] \in D
      BY <1>0, <1>10, <2>2
    <3> QED BY <1>2, <3>1
  <2> QED BY <2>1, <2>2
<1>12. 0 .. n \subseteq T
  <2> HIDE DEF T
  <2> QED BY <1>0, <1>11, Upto
<1>13. left[n] \in D
  BY <1>0, <1>12
<1> QED BY <1>7, <1>13 DEF D

(* The handler of chain-moved. *)
LEMMA ChainMovedSound ==
  ASSUME NEW s, NEW tips, Sound(s, tips)
  PROVE  LET t == HandleChainMoved(s) IN Sound(t, tips) /\ Shown(t) /\ Waits(s, t)
<1> DEFINE u == Each(s, Reopen, s.order)
           t == After(After(u, KickBlockPump), RecomputePhase)
<1>1. HandleChainMoved(s) = t
  BY DEF HandleChainMoved
<1>2. s.order \in Seq(Peers)
  BY DEF Sound, Well, Typed, Machines
<1>3. Sound(u, tips) /\ Opened(s, u)
  BY <1>2, EachReopen
<1> HIDE DEF u
<1>4. Well(t) /\ Steady(u, t) /\ Applied(t) /\ Shows(t)
  BY <1>3, Tails DEF Sound
<1> HIDE DEF t
<1>5. Sound(t, tips)
  BY <1>3, <1>4, SoundHeard DEF Steady
<1>6. Grown(s, u)
  BY <1>3 DEF Opened, Grown
<1>7. Waits(s, t)
  BY <1>4, <1>6, GrownWaits DEF Steady, Sound
<1> QED BY <1>1, <1>4, <1>5, <1>7 DEF Shown

(* The handler of peer-active. *)
LEMMA PeerActiveSound ==
  ASSUME NEW s, NEW tips, Sound(s, tips), Shown(s), NEW p \in Peers
  PROVE  LET t == HandlePeerActive(s, p) IN Sound(t, tips) /\ Shown(t) /\ Waits(s, t)
<1>1. CASE p \notin s.connected
  <2>1. HandlePeerActive(s, p) = s
    BY <1>1 DEF HandlePeerActive
  <2>2. Waits(s, s)
    BY DEF Waits, Sound, Well, Typed, Machines
  <2> QED BY <2>1, <2>2
<1>2. CASE p \in s.connected
  <2> DEFINE out == IF p \in Outbound THEN s.outbound \cup {p} ELSE s.outbound \ {p}
             u == [s EXCEPT !.outbound = out]
             t == After(After(u, RecomputePhase), EvaluateGate)
  <2>1. HandlePeerActive(s, p) = t
    BY <1>2 DEF HandlePeerActive
  <2>2. out \in SUBSET Outbound /\ (\A q \in Peers : q # p => (q \in out <=> q \in s.outbound))
        /\ s.outbound \subseteq out
    BY DEF Sound, Well, Typed, Machines
  <2> HIDE DEF out
  <2>3. Typed(u)
    BY <2>2 DEF Sound, Well, Typed, Machines
  <2>4. u.outbound = out /\ u.claims = s.claims /\ u.held = s.held
    BY DEF Sound, Well, Typed, Machines
  <2>5. Apart(s, u, p)
    BY <2>2, <2>4 DEF Sound, Well, Typed, Machines, Apart
  <2> HIDE DEF u
  <2>6. p \notin Liars => Own(u.claims[p], tips[p]) /\ Own(u.held[p], tips[p])
    BY <2>4 DEF Sound, Honest
  <2>7. Sound(u, tips)
    BY <1>2, <2>3, <2>5, <2>6, ApartSound
  <2>8. Grown(s, u)
    BY <2>2, <2>4, <2>5 DEF Grown, Apart
  <2>9. Well(t) /\ Steady(u, t) /\ Applied(t) /\ Shows(t)
    BY <2>7, Tails DEF Sound
  <2> HIDE DEF t
  <2>10. Sound(t, tips)
    BY <2>7, <2>9, SoundHeard DEF Steady
  <2>11. Waits(s, t)
    BY <2>8, <2>9, GrownWaits DEF Steady, Sound
  <2> QED BY <2>1, <2>9, <2>10, <2>11 DEF Shown
<1> QED BY <1>1, <1>2

\* Sound, but that p's disconnect is being told.
Telling(s, tips, p) ==
  /\ Typed(s) /\ Runs(s) /\ EventsSound(s) /\ JudgedKnown(s)
  /\ \A q \in Peers \ s.connected :
       q = p \/ Told(s, q) \/ (Cleared(s, q) /\ (q \in s.closing \/ s.omitted[q] = {}))
  /\ Honest(s, tips) /\ (MaxNeeds = 0 => Needless(s))

(* The handler of peer-disconnect: everything kept of p goes, its ids are freed, and the phase
   and the gate are looked at again. *)
LEMMA PeerDisconnectSound ==
  ASSUME NEW s, NEW tips, NEW p \in Peers, Telling(s, tips, p), p \notin s.connected
  PROVE  LET t == HandlePeerDisconnect(s, p) IN Sound(t, tips) /\ Shown(t) /\ Waits(s, t)
<1> DEFINE order == RemoveFirst(s.order, p)
           gone == [s EXCEPT !.claims[p] = None, !.order = order, !.outbound = @ \ {p},
                             !.hOpen = @ \ {p}, !.bOpen = @ \ {p}, !.omitted[p] = {},
                             !.acted = @ \ {p}, !.held[p] = None]
           f == [i \in Ids |-> IF i \in Ids /\ gone.inFlight[i] = p THEN None ELSE gone.inFlight[i]]
           u == [gone EXCEPT !.inFlight = f]
           t == After(After(After(u, RecomputePhase), EvaluateGate), KickBlockPump)
<1>1. HandlePeerDisconnect(s, p) = t
  <2>1. FreeIds(gone, p, Ids) = u
    BY DEF FreeIds
  <2>2. HandlePeerDisconnect(s, p) = After(After(After(FreeIds(gone, p, Ids), RecomputePhase), EvaluateGate), KickBlockPump)
    BY DEF HandlePeerDisconnect
  <2> QED BY <2>1, <2>2
<1>2. order \in Seq(Peers) /\ IsInjective(order)
  BY Removed DEF Telling, Typed, Machines
<1> HIDE DEF order
<1>3. Typed(gone)
  <2> DEFINE a == [s EXCEPT !.claims[p] = None, !.order = order, !.outbound = @ \ {p}, !.hOpen = @ \ {p}]
             b == [a EXCEPT !.bOpen = @ \ {p}, !.omitted[p] = {}, !.acted = @ \ {p}, !.held[p] = None]
  <2>1. a \in Machines /\ a.order = order /\ a.marks = s.marks /\ a.applied = s.applied
        /\ a.best = s.best /\ a.staged = s.staged
    BY <1>2 DEF Telling, Typed, Machines
  <2>2. gone = b
    BY DEF Telling, Typed, Machines
  <2> HIDE DEF a, gone
  <2>3. b \in Machines /\ b.order = order /\ b.marks = s.marks /\ b.applied = s.applied
        /\ b.best = s.best /\ b.staged = s.staged
    BY <2>1 DEF Machines
  <2> HIDE DEF b
  <2> QED BY <1>2, <2>2, <2>3 DEF Telling, Typed
<1>4. /\ gone.claims[p] = None /\ gone.held[p] = None /\ gone.omitted[p] = {}
      /\ gone.outbound = s.outbound \ {p} /\ gone.hOpen = s.hOpen \ {p} /\ gone.bOpen = s.bOpen \ {p}
      /\ \A q \in Peers : q # p =>
           gone.claims[q] = s.claims[q] /\ gone.held[q] = s.held[q] /\ gone.omitted[q] = s.omitted[q]
      /\ gone.inFlight = s.inFlight
      /\ gone.hRun = s.hRun /\ gone.bRun = s.bRun /\ gone.queue = s.queue /\ gone.connected = s.connected
      /\ gone.closing = s.closing /\ gone.best = s.best /\ gone.penalised = s.penalised /\ gone.S = s.S
  BY DEF Telling, Typed, Machines
<1> HIDE DEF gone
<1>5. f \in [Ids -> Peers \cup {None}] /\ \A i \in Ids : f[i] = IF s.inFlight[i] = p THEN None ELSE s.inFlight[i]
  BY <1>3, <1>4 DEF Typed, Machines
<1> HIDE DEF f
<1>6. Typed(u) /\ u.inFlight = f
  BY <1>3, <1>5 DEF Typed, Machines
<1>7. /\ u.claims[p] = None /\ u.held[p] = None /\ u.omitted[p] = {}
      /\ u.outbound = s.outbound \ {p} /\ u.hOpen = s.hOpen \ {p} /\ u.bOpen = s.bOpen \ {p}
      /\ \A q \in Peers : q # p =>
           u.claims[q] = s.claims[q] /\ u.held[q] = s.held[q] /\ u.omitted[q] = s.omitted[q]
      /\ u.hRun = s.hRun /\ u.bRun = s.bRun /\ u.queue = s.queue /\ u.connected = s.connected
      /\ u.closing = s.closing /\ u.best = s.best /\ u.penalised = s.penalised /\ u.S = s.S
  BY <1>3, <1>4 DEF Typed, Machines
<1> HIDE DEF u
<1>8. Runs(u)
  <2>1. \A i \in Ids : u.inFlight[i] # None =>
          u.bRun[u.inFlight[i]] # None /\ i \in u.bRun[u.inFlight[i]].ids
    BY <1>5, <1>6, <1>7 DEF Telling, Runs
  <2>2. ASSUME NEW q \in u.connected
        PROVE  (u.hRun[q] # None => q \in u.hOpen) /\ (u.bRun[q] # None => q \in u.bOpen)
    <3>1. q \in s.connected /\ q # p
      BY <1>7
    <3>2. (s.hRun[q] # None => q \in s.hOpen) /\ (s.bRun[q] # None => q \in s.bOpen)
      BY <3>1 DEF Telling, Runs
    <3> QED BY <1>7, <3>1, <3>2
  <2>3. \A q \in Peers : (q \in u.hOpen => u.hRun[q] # None) /\ (q \in u.bOpen => u.bRun[q] # None)
    BY <1>7 DEF Telling, Runs
  <2> QED BY <2>1, <2>2, <2>3 DEF Runs
<1>9. EventsSound(u)
  BY <1>7 DEF Telling, EventsSound, EventSound
<1>10. JudgedKnown(u)
  BY <1>7 DEF Telling, JudgedKnown
<1>11. Left(u)
  <2> SUFFICES ASSUME NEW q \in Peers \ s.connected
               PROVE  Told(u, q) \/ (Cleared(u, q) /\ (q \in u.closing \/ u.omitted[q] = {}))
    BY <1>7 DEF Left
  <2>0. None # p /\ None # q
    BY NoneAssumption
  <2>1. CASE q = p
    BY <1>5, <1>6, <1>7, <2>0, <2>1 DEF Cleared
  <2>2. CASE q # p
    <3>1. Told(s, q) \/ (Cleared(s, q) /\ (q \in s.closing \/ s.omitted[q] = {}))
      BY <2>2 DEF Telling
    <3>2. Told(s, q) => Told(u, q)
      BY <1>7 DEF Told
    <3>3. Cleared(s, q) => Cleared(u, q)
      BY <1>5, <1>6, <1>7, <2>0, <2>2 DEF Cleared
    <3> QED BY <1>7, <2>2, <3>1, <3>2, <3>3
  <2> QED BY <2>1, <2>2
<1>12. Honest(u, tips)
  <2>1. ASSUME NEW q \in Peers \ Liars PROVE Own(u.claims[q], tips[q]) /\ Own(u.held[q], tips[q])
    <3>1. CASE q = p
      BY <1>7, <3>1 DEF Own
    <3>2. CASE q # p
      BY <1>7, <3>2 DEF Telling, Honest
    <3> QED BY <3>1, <3>2
  <2> QED BY <1>7, <2>1 DEF Telling, Honest
<1>13. MaxNeeds = 0 => Needless(u)
  BY <1>7 DEF Telling, Needless
<1>14. Sound(u, tips)
  BY <1>6, <1>8, <1>9, <1>10, <1>11, <1>12, <1>13 DEF Sound, Well
<1>15. Well(t) /\ Steady(u, t) /\ Applied(t) /\ Shows(t)
  BY <1>14, Tails DEF Sound
<1> HIDE DEF t
<1>16. Sound(t, tips)
  BY <1>14, <1>15, SoundHeard DEF Steady
<1>17. Waits(s, t)
  <2>1. Grown(s, u)
    BY <1>7 DEF Grown
  <2> QED BY <1>15, <2>1 DEF Waits, Grown, Waited, Telling, Runs, Typed, Machines, Steady
<1> QED BY <1>1, <1>15, <1>16, <1>17 DEF Shown
-----------------------------------------------------------------------------
\* m but for the event the loop has taken.
Taking == [m EXCEPT !.queue = Tail(@)]

(* What the loop finds when it takes an event; taking a chain-moved or a disconnect leaves
   only its handler to restore what was shown. *)
LEMMA TakingIs ==
  ASSUME IInv, m.queue # <<>>
  PROVE  /\ Head(m.queue) \in Events /\ EventSound(m, Head(m.queue))
         /\ MaxNeeds = 0 => Head(m.queue).type # "need-headers"
         /\ \A p \in Peers \ Liars : Head(m.queue).peer = p => Own(Head(m.queue).claim, peerTip[p])
         /\ Head(m.queue).type = "peer-disconnect" => Telling(Taking, peerTip, Head(m.queue).peer)
         /\ Head(m.queue).type # "peer-disconnect" => Sound(Taking, peerTip)
         /\ Head(m.queue).type \notin {"peer-disconnect", "chain-moved"} => Shown(Taking)
         /\ Taking.connected = m.connected /\ Taking.hRun = m.hRun /\ Taking.S = m.S
         /\ Taking.outbound = m.outbound /\ Taking.marks = m.marks
<1> DEFINE e == Head(m.queue)
           s == Taking
           n == Len(m.queue)
<1>1. /\ e \in Events /\ Tail(m.queue) \in Seq(Events) /\ Len(Tail(m.queue)) = n - 1 /\ n \in Nat /\ n >= 1
      /\ \A i \in 1 .. n - 1 : Tail(m.queue)[i] = m.queue[i + 1]
      /\ m.queue[1] = e /\ DOMAIN m.queue = 1 .. n /\ DOMAIN Tail(m.queue) = 1 .. n - 1
  <2>1. m.queue \in Seq(Events)
    BY DEF IInv, Sound, Well, Typed, Machines
  <2>2. /\ e \in Events /\ Tail(m.queue) \in Seq(Events) /\ Len(Tail(m.queue)) = n - 1
        /\ \A i \in 1 .. Len(Tail(m.queue)) : Tail(m.queue)[i] = m.queue[i + 1]
    BY <2>1, HeadTailProperties
  <2>3. n \in Nat /\ n >= 1 /\ m.queue[1] = e /\ DOMAIN m.queue = 1 .. n
    BY <2>1
  <2>4. DOMAIN Tail(m.queue) = 1 .. n - 1
    BY <2>2
  <2> QED BY <2>2, <2>3, <2>4
<1>2. Typed(s) /\ s.queue = Tail(m.queue)
  BY <1>1 DEF IInv, Sound, Well, Typed, Machines, Taking
<1>3. /\ s.claims = m.claims /\ s.held = m.held /\ s.outbound = m.outbound
      /\ s.hOpen = m.hOpen /\ s.bOpen = m.bOpen /\ s.hRun = m.hRun /\ s.bRun = m.bRun
      /\ s.inFlight = m.inFlight /\ s.omitted = m.omitted
      /\ s.best = m.best /\ s.applied = m.applied /\ s.penalised = m.penalised
      /\ s.phase = m.phase /\ s.S = m.S /\ s.connected = m.connected /\ s.closing = m.closing
      /\ s.marks = m.marks
  BY DEF IInv, Sound, Well, Typed, Machines, Taking
<1> HIDE DEF s, e
<1>4. \A i \in DOMAIN s.queue : i + 1 \in DOMAIN m.queue /\ s.queue[i] = m.queue[i + 1]
  BY <1>1, <1>2
<1>5. \A i \in DOMAIN m.queue : m.queue[i] = e \/ \E j \in DOMAIN s.queue : s.queue[j] = m.queue[i]
  <2> TAKE i \in DOMAIN m.queue
  <2>1. CASE i = 1
    BY <1>1, <2>1
  <2>2. CASE i # 1
    <3>1. i - 1 \in 1 .. n - 1 /\ i - 1 + 1 = i
      BY <1>1, <2>2
    <3>2. s.queue[i - 1] = m.queue[i] /\ i - 1 \in DOMAIN s.queue
      BY <1>1, <1>2, <3>1
    <3> QED BY <3>2
  <2> QED BY <2>1, <2>2
<1>6. 1 \in DOMAIN m.queue
  BY <1>1
<1>7. EventSound(m, e)
  BY <1>1, <1>6 DEF IInv, Sound, Well, EventsSound
<1>8. MaxNeeds = 0 => e.type # "need-headers"
  BY <1>1, <1>6 DEF IInv, Sound, Needless
<1>9. \A p \in Peers \ Liars : e.peer = p => Own(e.claim, peerTip[p])
  BY <1>1, <1>6 DEF IInv, Sound, Honest
<1>10. Runs(s) /\ JudgedKnown(s)
  BY <1>3 DEF IInv, Sound, Well, Runs, JudgedKnown
<1>11. EventsSound(s)
  <2> SUFFICES ASSUME NEW i \in DOMAIN s.queue PROVE EventSound(s, s.queue[i])
    BY DEF EventsSound
  <2>1. EventSound(m, s.queue[i])
    BY <1>4 DEF IInv, Sound, Well, EventsSound
  <2> QED BY <1>3, <2>1 DEF EventSound
<1>12. Honest(s, peerTip)
  <2>1. ASSUME NEW q \in Peers \ Liars, NEW i \in DOMAIN s.queue, s.queue[i].peer = q
        PROVE  Own(s.queue[i].claim, peerTip[q])
    BY <1>4, <2>1 DEF IInv, Sound, Honest
  <2> QED BY <1>3, <2>1 DEF IInv, Sound, Honest
<1>13. MaxNeeds = 0 => Needless(s)
  BY <1>4 DEF IInv, Sound, Needless
<1>14. ASSUME NEW q \in Peers \ s.connected
       PROVE  \/ e.type = "peer-disconnect" /\ e.peer = q
              \/ Told(s, q) \/ (Cleared(s, q) /\ (q \in s.closing \/ s.omitted[q] = {}))
  <2>1. Told(m, q) \/ (Cleared(m, q) /\ (q \in m.closing \/ m.omitted[q] = {}))
    BY <1>3 DEF IInv, Sound, Well, Left
  <2>2. CASE Told(m, q)
    <3>1. PICK i \in DOMAIN m.queue : m.queue[i].type = "peer-disconnect" /\ m.queue[i].peer = q
      BY <2>2 DEF Told
    <3> QED BY <1>5, <3>1 DEF Told
  <2>3. Cleared(m, q) => Cleared(s, q)
    BY <1>3 DEF Cleared
  <2> QED BY <1>3, <2>1, <2>2, <2>3
<1>15. e.type = "peer-disconnect" => Telling(s, peerTip, e.peer)
  BY <1>2, <1>10, <1>11, <1>12, <1>13, <1>14 DEF Telling
<1>16. e.type # "peer-disconnect" => Sound(s, peerTip)
  BY <1>2, <1>10, <1>11, <1>12, <1>13, <1>14 DEF Sound, Well, Left
<1>17. ASSUME e.type # "chain-moved" PROVE Shown(s)
  <2>1. e # ChainMovedEvent
    BY <1>17 DEF ChainMovedEvent, Event
  <2>2. Applied(s)
    BY <1>3, <1>5, <2>1 DEF IInv, Shown, Applied, FullyApplied
  <2>3. Shows(m) => Shows(s)
    BY <1>3 DEF Shows
  <2> QED BY <2>2, <2>3 DEF IInv, Shown
<1> QED BY <1>1, <1>3, <1>7, <1>8, <1>9, <1>15, <1>16, <1>17 DEF e, s

(* Taking an event changes nothing the gate looks at. *)
LEMMA TakingWaits ==
  ASSUME IInv, NEW t, Waits(Taking, t), Taking.connected = m.connected, Taking.hRun = m.hRun,
         Taking.S = m.S, Taking.outbound = m.outbound, Taking.marks = m.marks
  PROVE  Waits(m, t)
  BY DEF Waits, Marked

(* The loop takes an event and runs its handler. *)
LEMMA DispatchKeeps ==
  ASSUME IInv, Dispatch
  PROVE  Kept
<1> DEFINE e == Head(m.queue)
           s == Taking
<1>1. m' \in Handled(s, e) /\ m.queue # <<>> /\ peerTip' = peerTip
  BY DEF Dispatch, Taking
<1>2. /\ e \in Events /\ EventSound(m, e)
      /\ \A p \in Peers \ Liars : e.peer = p => Own(e.claim, peerTip[p])
      /\ e.type = "peer-disconnect" => Telling(s, peerTip, e.peer)
      /\ e.type # "peer-disconnect" => Sound(s, peerTip)
      /\ e.type \notin {"peer-disconnect", "chain-moved"} => Shown(s)
      /\ MaxNeeds = 0 => e.type # "need-headers"
      /\ s.connected = m.connected /\ s.hRun = m.hRun /\ s.S = m.S
      /\ s.outbound = m.outbound /\ s.marks = m.marks
  BY <1>1, TakingIs
<1> HIDE DEF e
<1>3. ASSUME Sound(m', peerTip), Shown(m'), Waits(s, m') PROVE Kept
  BY <1>1, <1>2, <1>3, TakingWaits DEF Kept
<1> HIDE DEF s
<1>4. CASE e.type = "peer-active"
  <2>1. m' = HandlePeerActive(s, e.peer) /\ e.peer \in Peers
    BY <1>1, <1>2, <1>4 DEF Handled, EventSound
  <2> DEFINE t == HandlePeerActive(s, e.peer)
  <2>2. Sound(t, peerTip) /\ Shown(t) /\ Waits(s, t)
    BY <1>2, <1>4, <2>1, PeerActiveSound
  <2> HIDE DEF t
  <2> QED BY <1>3, <2>1, <2>2 DEF t
<1>5. CASE e.type = "peer-disconnect"
  <2>1. m' = HandlePeerDisconnect(s, e.peer) /\ e.peer \in Peers /\ e.peer \notin s.connected
    BY <1>1, <1>2, <1>5 DEF Handled, EventSound
  <2> DEFINE t == HandlePeerDisconnect(s, e.peer)
  <2>2. Sound(t, peerTip) /\ Shown(t) /\ Waits(s, t)
    BY <1>2, <1>5, <2>1, PeerDisconnectSound
  <2> HIDE DEF t
  <2> QED BY <1>3, <2>1, <2>2 DEF t
<1>6. CASE e.type = "sync-info"
  <2>1. m' \in HandleSyncInfo(s, e.peer, e.claim) /\ e.peer \in Peers /\ e.claim \in Claims
    BY <1>1, <1>2, <1>6 DEF Handled, EventSound, Events
  <2>2. Sound(s, peerTip) /\ Shown(s) /\ (e.peer \notin Liars => Own(e.claim, peerTip[e.peer]))
    BY <1>2, <1>6, <2>1
  <2>3. CASE m' = s
    <3>1. Waits(s, s)
      BY <2>2 DEF Waits, Sound, Well, Typed, Machines
    <3> QED BY <1>3, <2>2, <2>3, <3>1
  <2>4. CASE e.peer \in s.connected /\ m' = ActOnSyncInfo(s, e.peer, e.claim)
    <3> DEFINE t == ActOnSyncInfo(s, e.peer, e.claim)
    <3>1. Sound(t, peerTip) /\ Applied(t) /\ Shows(t) /\ Grown(s, t)
      BY <2>1, <2>2, <2>4, ActSound
    <3> HIDE DEF t
    <3>2. m' = t
      BY <2>4 DEF t
    <3>3. Waits(s, t)
      BY <2>2, <3>1 DEF Waits, Grown, Sound, Well, Typed, Machines
    <3> QED BY <1>3, <3>1, <3>2, <3>3 DEF Shown
  <2>5. CASE e.peer \in s.connected /\ m' = [s EXCEPT !.held[e.peer] = e.claim]
    <3> DEFINE t == [s EXCEPT !.held[e.peer] = e.claim]
    <3>1. Sound(t, peerTip) /\ Shown(t) /\ Grown(s, t)
      BY <2>1, <2>2, <2>5, HoldSound
    <3> HIDE DEF t
    <3>2. m' = t
      BY <2>5 DEF t
    <3>3. Waits(s, t)
      BY <2>2, <3>1 DEF Waits, Grown, Sound, Well, Typed, Machines
    <3> QED BY <1>3, <3>1, <3>2, <3>3
  <2> QED BY <2>1, <2>3, <2>4, <2>5 DEF HandleSyncInfo
<1>7. CASE e.type = "need-headers"
  <2>1. m' = StartHeaderRun(s, e.peer) /\ e.peer \in Peers /\ MaxNeeds # 0
    BY <1>1, <1>2, <1>7 DEF Handled, EventSound
  <2>2. Sound(s, peerTip) /\ Shown(s)
    BY <1>2, <1>7
  <2> DEFINE t == StartHeaderRun(s, e.peer)
  <2>3. Sound(t, peerTip) /\ Beside(s, t) /\ s.hOpen \subseteq t.hOpen
    BY <2>1, <2>2, StartsSound
  <2> HIDE DEF t
  <2>4. Shown(t)
    BY <2>1, <2>2, <2>3 DEF Shown, Applied, FullyApplied, Beside, Alike
  <2>5. Waits(s, t)
    BY <2>2, <2>3 DEF Waits, Beside, Sound, Well, Typed, Machines
  <2> QED BY <1>3, <2>1, <2>3, <2>4, <2>5 DEF t
<1>8. CASE e.type = "chain-moved"
  <2>1. m' = HandleChainMoved(s)
    BY <1>1, <1>8 DEF Handled
  <2> DEFINE t == HandleChainMoved(s)
  <2>2. Sound(t, peerTip) /\ Shown(t) /\ Waits(s, t)
    BY <1>2, <1>8, ChainMovedSound
  <2> HIDE DEF t
  <2> QED BY <1>3, <2>1, <2>2 DEF t
<1>9. CASE e.type = "bootstrap-settled"
  <2>1. m' = EvaluateGate(s)
    BY <1>1, <1>9 DEF Handled
  <2>2. Sound(s, peerTip) /\ Shown(s)
    BY <1>2, <1>9
  <2> DEFINE t == EvaluateGate(s)
  <2>3. Well(t) /\ Steady(s, t)
    BY <2>2, GateSteady DEF Sound
  <2> HIDE DEF t
  <2>4. Sound(t, peerTip) /\ Shown(t)
    BY <2>2, <2>3, SoundHeard DEF Steady, Shown
  <2>5. Grown(s, s)
    BY DEF Grown
  <2>6. Waits(s, t)
    BY <2>2, <2>3, <2>5, GrownWaits DEF Steady, Sound
  <2> QED BY <1>3, <2>1, <2>4, <2>6 DEF t
<1> QED BY <1>2, <1>4, <1>5, <1>6, <1>7, <1>8, <1>9 DEF Events, EventTypes
-----------------------------------------------------------------------------
(* Acting on a claim held for the tick keeps Sound. *)
LEMMA ActHeldSound ==
  ASSUME NEW s, NEW tips, Sound(s, tips), NEW p \in s.connected, s.held[p] # None
  PROVE  LET t == ActOnHeld(s, p)
         IN Sound(t, tips) /\ Opened(s, t) /\ \A q \in Peers : q # p => t.held[q] = s.held[q]
<1> DEFINE u == [s EXCEPT !.held[p] = None]
           claim == s.held[p]
           t == ActOnSyncInfo(u, p, claim)
<1>1. ActOnHeld(s, p) = t
  BY DEF ActOnHeld
<1>2. claim \in Claims /\ (p \notin Liars => Own(claim, tips[p])) /\ p \in Peers
  BY DEF Sound, Honest, Well, Typed, Machines
<1> HIDE DEF claim
<1>3. /\ Sound(u, tips) /\ Grown(s, u) /\ u.connected = s.connected
      /\ u.hOpen = s.hOpen /\ u.outbound = s.outbound
      /\ \A q \in Peers : q # p => u.held[q] = s.held[q]
  BY HoldSound DEF Own
<1> HIDE DEF u
<1>4. /\ Sound(t, tips) /\ Grown(u, t) /\ t.connected = u.connected /\ t.held = u.held
      /\ t.outbound = u.outbound /\ u.hOpen \subseteq t.hOpen
  BY <1>2, <1>3, ActSound
<1> HIDE DEF t
<1> QED BY <1>1, <1>3, <1>4 DEF Opened, Grown

(* So does acting on one after another: acting on one peer's leaves the others held. *)
LEMMA EachActs ==
  ASSUME NEW s, NEW tips, Sound(s, tips), NEW peers \in Seq(Peers), IsInjective(peers),
         \A i \in 1 .. Len(peers) : peers[i] \in s.connected /\ s.held[peers[i]] # None
  PROVE  LET t == Each(s, ActOnHeld, peers) IN Sound(t, tips) /\ Opened(s, t)
<1> DEFINE n == Len(peers)
           P(i, t) == Sound(t, tips) /\ Opened(s, t) /\ \A j \in i + 1 .. n : t.held[peers[j]] = s.held[peers[j]]
           F == [i \in 1 .. n |-> [t \in Machines |-> IF ActOnHeld(t, peers[i]) \in Machines
                                                      THEN ActOnHeld(t, peers[i]) ELSE t]]
           Is(g) == g = [i \in 0 .. n |-> IF i = 0 THEN s
                                          ELSE CHOOSE t \in {ActOnHeld(x, peers[i]) : x \in {g[i - 1]}} : TRUE]
           left == CHOOSE g : Is(g)
<1>0. n \in Nat /\ (\A i \in 1 .. n : peers[i] \in Peers) /\ DOMAIN peers = 1 .. n
  OBVIOUS
<1>1. P(0, s) /\ s \in Machines
  BY DEF Opened, Sound, Well, Typed
<1>2. ASSUME NEW i \in 1 .. n, NEW x, P(i - 1, x)
      PROVE  P(i, ActOnHeld(x, peers[i])) /\ ActOnHeld(x, peers[i]) \in Machines
  <2> DEFINE u == ActOnHeld(x, peers[i])
  <2>1. i \in (i - 1) + 1 .. n /\ \A j \in i + 1 .. n : j \in (i - 1) + 1 .. n /\ j \in 1 .. n /\ j # i
    BY <1>0
  <2>2. peers[i] \in x.connected /\ x.held[peers[i]] # None
    BY <1>2, <2>1 DEF Opened
  <2>3. Sound(u, tips) /\ Opened(x, u) /\ \A q \in Peers : q # peers[i] => u.held[q] = x.held[q]
    BY <1>2, <2>2, ActHeldSound
  <2> HIDE DEF u
  <2>4. ASSUME NEW j \in i + 1 .. n PROVE u.held[peers[j]] = s.held[peers[j]]
    <3>1. peers[j] # peers[i] /\ peers[j] \in Peers
      BY <1>0, <2>1 DEF IsInjective
    <3>2. x.held[peers[j]] = s.held[peers[j]]
      BY <1>2, <2>1
    <3> QED BY <2>3, <3>1, <3>2
  <2>5. Opened(s, u)
    BY <1>2, <2>3 DEF Opened
  <2> QED BY <2>3, <2>4, <2>5 DEF Sound, Well, Typed, u
<1>3. F \in [1 .. n -> [Machines -> Machines]]
      /\ \A i \in 1 .. n : \A t \in Machines :
           ActOnHeld(t, peers[i]) \in Machines => F[i][t] = ActOnHeld(t, peers[i])
  <2> HIDE DEF n
  <2> QED OBVIOUS
<1> HIDE DEF F, P, n
<1>4. PICK g \in [0 .. n -> Machines] : g[0] = s /\ \A i \in 1 .. n : g[i] = F[i][g[i - 1]]
  <2>1. Defined(n, Machines, s, F)
    BY <1>0, <1>1, <1>3, Recursion
  <2> QED BY <2>1 DEF Defined
<1> DEFINE T == {i \in 0 .. n : P(i, g[i])}
<1>5. 0 \in T /\ \A i \in 1 .. n : i - 1 \in T => i \in T
  <2>1. 0 \in T
    BY <1>0, <1>1, <1>4
  <2>2. ASSUME NEW i \in 1 .. n, i - 1 \in T PROVE i \in T
    <3>1. P(i, ActOnHeld(g[i - 1], peers[i])) /\ ActOnHeld(g[i - 1], peers[i]) \in Machines
      BY <1>2, <2>2
    <3>2. g[i - 1] \in Machines
      BY <1>0, <1>4
    <3>3. g[i] = ActOnHeld(g[i - 1], peers[i])
      BY <1>3, <1>4, <3>1, <3>2
    <3> QED BY <1>0, <3>1, <3>3
  <2> QED BY <2>1, <2>2
<1>6. 0 .. n \subseteq T
  <2> HIDE DEF T
  <2> QED BY <1>0, <1>5, Upto
<1>7. \A i \in 0 .. n : g[i] = IF i = 0 THEN s ELSE CHOOSE t \in {ActOnHeld(x, peers[i]) : x \in {g[i - 1]}} : TRUE
  <2> TAKE i \in 0 .. n
  <2>1. CASE i = 0
    BY <1>4, <2>1
  <2>2. CASE i # 0
    <3>1. i \in 1 .. n /\ i - 1 \in 0 .. n
      BY <1>0, <2>2
    <3>2. ActOnHeld(g[i - 1], peers[i]) \in Machines /\ g[i - 1] \in Machines
      BY <1>2, <1>4, <1>6, <3>1
    <3>3. g[i] = ActOnHeld(g[i - 1], peers[i])
      BY <1>3, <1>4, <3>1, <3>2
    <3> QED BY <2>2, <3>3
  <2> QED BY <2>1, <2>2
<1>8. Is(g)
  BY <1>4, <1>7
<1>9. Each(s, ActOnHeld, peers) = left[n]
  BY DEF Each, After, n
<1> HIDE DEF Is, T
<1>10. Is(left)
  BY <1>8
<1>11. Is(left) => \A i \in 0 .. n : left[i] = IF i = 0 THEN s ELSE ActOnHeld(left[i - 1], peers[i])
  <2> HIDE DEF left
  <2> QED BY DEF Is
<1> HIDE DEF left
<1>12. \A i \in 0 .. n : left[i] = IF i = 0 THEN s ELSE ActOnHeld(left[i - 1], peers[i])
  BY <1>10, <1>11
<1> DEFINE U == {i \in 0 .. n : P(i, left[i])}
<1>13. 0 \in U /\ \A i \in 1 .. n : i - 1 \in U => i \in U
  <2>1. 0 \in U
    BY <1>0, <1>1, <1>12
  <2>2. ASSUME NEW i \in 1 .. n, i - 1 \in U PROVE i \in U
    <3>1. left[i] = ActOnHeld(left[i - 1], peers[i]) /\ P(i - 1, left[i - 1])
      BY <1>0, <1>12, <2>2
    <3> QED BY <1>0, <1>2, <3>1
  <2> QED BY <2>1, <2>2
<1>14. 0 .. n \subseteq U
  <2> HIDE DEF U
  <2> QED BY <1>0, <1>13, Upto
<1>15. P(n, left[n])
  BY <1>0, <1>14
<1> QED BY <1>9, <1>15 DEF P

(* The claims due at a tick are of connected peers, each once. *)
LEMMA DueAre ==
  ASSUME IInv, m.queue = <<>>, NEW ps \in SUBSET Holding, NEW due \in SetToSeqs(ps)
  PROVE  /\ due \in Seq(Peers) /\ IsInjective(due)
         /\ \A i \in 1 .. Len(due) : due[i] \in m.connected /\ m.held[due[i]] # None
<1>1. IsFiniteSet(ps) /\ ps \subseteq Peers
  BY PeerAssumption, FS_Subset DEF Holding
<1> DEFINE n == Cardinality(ps)
<1>2. n \in Nat
  BY <1>1, FS_CardinalityType
<1>3. due \in [1 .. n -> ps] /\ IsInjective(due)
  BY DEF SetToSeqs, IsInjective
<1> HIDE DEF n
<1>4. due \in Seq(Peers) /\ Len(due) = n
  BY <1>1, <1>2, <1>3
<1>5. \A p \in Peers : m.held[p] # None => p \in m.connected
  BY DEF IInv, Sound, Well, Left, Told, Cleared
<1> QED BY <1>1, <1>3, <1>4, <1>5 DEF Holding

(* The timer ticks: marks are dropped, held claims acted on, wants asked again. *)
LEMMA TimerTickKeeps ==
  ASSUME IInv, TimerTick
  PROVE  Kept
<1>0. PICK due \in UNION {SetToSeqs(qs) : qs \in SUBSET Holding}, expired \in 0 .. Len(m.marks) :
        m' = OnTimerTick(due, expired)
  BY DEF TimerTick
<1>1. PICK ps \in SUBSET Holding : due \in SetToSeqs(ps)
  OBVIOUS
<1>2. m.queue = <<>> /\ peerTip' = peerTip /\ Sound(m, peerTip)
  BY DEF TimerTick, IInv
<1> DEFINE acted == Each(m, ActOnHeld, due)
           n == Min({expired, Len(acted.marks)})
           marks == SubSeq(acted.marks, n + 1, Len(acted.marks))
           kept == [acted EXCEPT !.marks = marks]
           looked == After(After(kept, RecomputePhase), EvaluateGate)
           pumped == KickBlockPump(looked)
<1>3. Sound(acted, peerTip) /\ Opened(m, acted)
  <2>1. /\ due \in Seq(Peers) /\ IsInjective(due)
        /\ \A i \in 1 .. Len(due) : due[i] \in m.connected /\ m.held[due[i]] # None
    BY <1>1, <1>2, DueAre
  <2> QED BY <1>2, <2>1, EachActs
<1>4. m' = looked \/ m' = pumped
  <2>1. After(looked, KickBlockPump) = pumped
    BY After1 DEF After
  <2>2. [acted EXCEPT !.marks = SubSeq(@, n + 1, Len(@))] = kept
    OBVIOUS
  <2>3. m' = IF n > 0 THEN After(looked, KickBlockPump) ELSE looked
    BY <1>0, <2>2 DEF OnTimerTick
  <2> QED BY <2>1, <2>3
<1> HIDE DEF acted
<1>5. marks \in Seq(Peers) /\ IsInjective(marks)
  <2>1. acted.marks \in Seq(Peers) /\ IsInjective(acted.marks) /\ Len(acted.marks) \in Nat
    BY <1>3 DEF Sound, Well, Typed, Machines
  <2>2. m.marks \in Seq(Peers)
    BY <1>2 DEF Sound, Well, Typed, Machines
  <2>3. expired \in Nat
    BY <2>2
  <2> DEFINE V == {expired, Len(acted.marks)}
  <2>4. V \subseteq Nat /\ V # {} /\ Len(acted.marks) \in V
    BY <2>1, <2>3
  <2> HIDE DEF V
  <2>5. Min(V) \in V /\ Min(V) <= Len(acted.marks)
    BY <2>4, MinOf
  <2>6. n = Min(V)
    BY DEF V
  <2> HIDE DEF n
  <2>7. n + 1 \in 1 .. Len(acted.marks) + 1
    <3>1. n \in Nat /\ n <= Len(acted.marks) /\ Len(acted.marks) \in Nat
      BY <2>1, <2>4, <2>5, <2>6
    <3> HIDE DEF acted
    <3> QED BY <3>1
  <2> DEFINE k == n + 1
  <2> HIDE DEF k
  <2>8. SubSeq(acted.marks, k, Len(acted.marks)) \in Seq(Peers)
        /\ IsInjective(SubSeq(acted.marks, k, Len(acted.marks)))
    BY <2>1, <2>7, PartOnce DEF k
  <2> QED BY <2>8 DEF k
<1> HIDE DEF marks, n
<1>6. Typed(kept)
  BY <1>3, <1>5 DEF Sound, Well, Typed, Machines
<1>7. /\ Alike(acted, kept) /\ kept.hRun = acted.hRun /\ kept.hOpen = acted.hOpen
      /\ kept.best = acted.best /\ kept.penalised = acted.penalised /\ kept.S = acted.S
  BY <1>3 DEF Sound, Well, Typed, Machines, Alike
<1> HIDE DEF kept
<1>8. Well(kept)
  <2>1. \A q \in Peers : q \in kept.hOpen => kept.hRun[q] # None /\ (q \in acted.hOpen \/ q \in acted.connected)
    BY <1>3, <1>7 DEF Sound, Well, Runs
  <2>2. \A q \in acted.connected : kept.hRun[q] # None => q \in kept.hOpen
    BY <1>3, <1>7 DEF Sound, Well, Runs
  <2> QED BY <1>3, <1>6, <1>7, <2>1, <2>2, WellHeaders DEF Sound
<1>9. Sound(kept, peerTip)
  BY <1>3, <1>7, <1>8 DEF Sound, Honest, Needless, Alike
<1>10. Well(looked) /\ Steady(kept, looked) /\ Applied(looked) /\ Shows(looked)
  BY <1>8, Tails
<1> HIDE DEF looked
<1>11. Well(pumped) /\ Steady(looked, pumped)
  BY <1>10, PumpSteady
<1> HIDE DEF pumped
<1>12. Steady(kept, pumped)
  BY <1>8, <1>10, <1>11, SteadyTrans DEF Well
<1>13. Sound(looked, peerTip) /\ Sound(pumped, peerTip)
  BY <1>9, <1>10, <1>11, <1>12, SoundHeard DEF Steady
<1>14. Shown(looked) /\ Shown(pumped)
  BY <1>10, <1>11 DEF Shown, Steady
<1>15. Grown(m, kept)
  BY <1>3, <1>7 DEF Grown, Opened, Alike
<1>16. Waits(m, looked) /\ Waits(m, pumped)
  BY <1>2, <1>10, <1>12, <1>15, GrownWaits DEF Steady, Sound
<1> QED BY <1>2, <1>4, <1>13, <1>14, <1>16 DEF Kept
-----------------------------------------------------------------------------
(* The node starts with nothing kept. *)
LEMMA InitIInv == Init => IInv
<1> SUFFICES ASSUME Init PROVE IInv
  OBVIOUS
<1>1. peerTip \in [Peers -> 0 .. Top] /\ boot \in BOOLEAN /\ used \in Spendings
  BY StartAssumption, FlagAssumption DEF Init, Spendings
<1>2. Typed(m)
  <2>1. <<>> \in Seq(Peers) /\ <<>> \in Seq(Events) /\ IsInjective(<<>>)
    BY DEF IsInjective
  <2>2. 0 \in 0 .. Top
    BY SizeAssumption
  <2>3. m \in Machines /\ m.order = <<>> /\ m.marks = <<>> /\ m.applied = 0 /\ m.best = 0 /\ m.staged = {}
    BY <2>1, <2>2 DEF Init, Machines
  <2> QED BY <2>1, <2>3 DEF Typed
<1>3. /\ m.hOpen = {} /\ m.bOpen = {} /\ m.connected = {} /\ m.closing = {} /\ m.outbound = {}
      /\ m.penalised = {} /\ m.phase = "idle" /\ m.queue = <<>>
      /\ \A i \in Ids : m.inFlight[i] = None
      /\ \A p \in Peers : /\ m.hRun[p] = None /\ m.bRun[p] = None
                          /\ m.claims[p] = None /\ m.held[p] = None /\ m.omitted[p] = {}
  BY DEF Init
<1>4. DOMAIN m.queue = {}
  BY <1>3
<1>5. Well(m)
  <2>1. Runs(m) /\ JudgedKnown(m)
    BY <1>3 DEF Runs, JudgedKnown
  <2>2. EventsSound(m)
    BY <1>4 DEF EventsSound
  <2>3. Left(m)
    BY <1>3, NoneAssumption DEF Left, Cleared
  <2> QED BY <1>2, <2>1, <2>2, <2>3 DEF Well
<1>6. Honest(m, peerTip) /\ Needless(m)
  BY <1>3, <1>4 DEF Honest, Needless, Own
<1>7. Shown(m)
  BY <1>3 DEF Shown, Applied, Shows
<1> QED BY <1>1, <1>5, <1>6, <1>7 DEF IInv, Sound

(* The environment's variables keep their types. *)
LEMMA OthersTyped ==
  ASSUME IInv, Next
  PROVE  boot' \in BOOLEAN /\ peerTip' \in [Peers -> 0 .. Top] /\ used' \in Spendings
<1>1. boot \in BOOLEAN /\ peerTip \in [Peers -> 0 .. Top] /\ used \in Spendings /\ Top \in Nat
  BY SizeAssumption DEF IInv
<1>2. /\ [used EXCEPT !.infos = @ + 1] \in Spendings /\ [used EXCEPT !.needs = @ + 1] \in Spendings
      /\ [used EXCEPT !.faults = @ + 1] \in Spendings /\ [used EXCEPT !.aborts = @ + 1] \in Spendings
      /\ [used EXCEPT !.drops = @ + 1] \in Spendings
  BY <1>1 DEF Spendings
<1>3. CASE Dispatch \/ TimerTick \/ BootstrapSettled \/ BestDrops
  BY <1>1, <1>2, <1>3 DEF Dispatch, TimerTick, BootstrapSettled, BestDrops, Fault
<1>4. ASSUME NEW p \in Peers, RunStep(p) PROVE boot' = boot /\ peerTip' = peerTip /\ used' \in Spendings
  BY <1>1, <1>2, <1>4
     DEF RunStep, HeadersFail, HeadersMisshapen, HeadersArrive, HeadersUntaken, HeadersJudged,
         BlocksFail, BlocksArrive, BlocksAborted, BlocksThrew, BlocksJudged, Fault
<1>5. ASSUME NEW p \in Peers, Connect(p) \/ Disconnect(p) \/ HungUp(p) \/ SendSyncInfo(p) \/ NeedHeaders(p)
      PROVE  boot' = boot /\ peerTip' = peerTip /\ used' \in Spendings
  BY <1>1, <1>2, <1>5 DEF Connect, Disconnect, HungUp, SendSyncInfo, NeedHeaders
<1>6. ASSUME NEW p \in Peers, PeerAdvances(p)
      PROVE  boot' = boot /\ peerTip' \in [Peers -> 0 .. Top] /\ used' = used
  BY <1>1, <1>6 DEF PeerAdvances
<1> QED BY <1>1, <1>3, <1>4, <1>5, <1>6 DEF Next

(* Every step keeps the inductive invariant, and waits for what it must. *)
LEMMA NextKeeps == IInv /\ [Next]_vars => IInv' /\ (Kept \/ m' = m)
<1> SUFFICES ASSUME IInv, [Next]_vars PROVE IInv' /\ (Kept \/ m' = m)
  OBVIOUS
<1>1. CASE UNCHANGED vars
  <2>1. m' = m /\ boot' = boot /\ peerTip' = peerTip /\ used' = used
    BY <1>1 DEF vars
  <2>2. Sound(m', peerTip') /\ Shown(m')
    BY <2>1 DEF IInv
  <2> QED BY <2>1, <2>2 DEF IInv
<1>2. CASE Next
  <2>1. boot' \in BOOLEAN /\ peerTip' \in [Peers -> 0 .. Top] /\ used' \in Spendings
    BY <1>2, OthersTyped
  <2>2. Kept
    <3>1. CASE Dispatch
      BY <3>1, DispatchKeeps
    <3>2. CASE TimerTick
      BY <3>2, TimerTickKeeps
    <3>3. ASSUME NEW p \in Peers, RunStep(p) PROVE Kept
      <4>1. CASE HeadersFail(p)
        BY <4>1, HeadersFailKeeps
      <4>2. CASE HeadersMisshapen(p)
        BY <4>2, HeadersMisshapenKeeps
      <4>3. CASE HeadersArrive(p)
        BY <4>3, HeadersArriveKeeps
      <4>4. ASSUME NEW verdict \in {"again", "refused", "threw"}, HeadersUntaken(p, verdict) PROVE Kept
        BY <4>4, HeadersUntakenKeeps
      <4>5. CASE HeadersJudged(p)
        BY <4>5, HeadersJudgedKeeps
      <4>6. CASE BlocksFail(p)
        BY <4>6, BlocksFailKeeps
      <4>7. CASE BlocksArrive(p)
        BY <4>7, BlocksArriveKeeps
      <4>8. CASE BlocksAborted(p)
        BY <4>8, BlocksAbortedKeeps
      <4>9. CASE BlocksThrew(p)
        BY <4>9, BlocksThrewKeeps
      <4>10. CASE BlocksJudged(p)
        BY <4>10, BlocksJudgedKeeps
      <4> QED BY <3>3, <4>1, <4>2, <4>3, <4>4, <4>5, <4>6, <4>7, <4>8, <4>9, <4>10 DEF RunStep
    <3>4. ASSUME NEW p \in Peers, Connect(p) PROVE Kept
      BY <3>4, ConnectKeeps
    <3>5. ASSUME NEW p \in Peers, Disconnect(p) \/ HungUp(p) PROVE Kept
      BY <3>5, ClosesKeeps
    <3>6. ASSUME NEW p \in Peers, SendSyncInfo(p) PROVE Kept
      BY <3>6, SendSyncInfoKeeps
    <3>7. ASSUME NEW p \in Peers, NeedHeaders(p) PROVE Kept
      BY <3>7, NeedHeadersKeeps
    <3>8. ASSUME NEW p \in Peers, PeerAdvances(p) PROVE Kept
      BY <3>8, PeerAdvancesKeeps
    <3>9. CASE BootstrapSettled
      BY <3>9, BootstrapKeeps
    <3>10. CASE BestDrops
      BY <3>10, BestDropsKeeps
    <3> QED BY <1>2, <3>1, <3>2, <3>3, <3>4, <3>5, <3>6, <3>7, <3>8, <3>9, <3>10 DEF Next
  <2>3. Sound(m', peerTip') /\ Shown(m')
    BY <2>2 DEF Kept
  <2> QED BY <2>1, <2>2, <2>3 DEF IInv
<1> QED BY <1>1, <1>2

(* The inductive invariant is one. *)
LEMMA IInvHolds == Spec => []IInv
<1>1. IInv /\ [Next]_vars => IInv'
  BY NextKeeps
<1> QED BY <1>1, InitIInv, PTL DEF Spec

(* The scheduler's tables agree with each other at every step: an open flag has its run and a
   run of a connected peer its flag, what is in flight belongs to a run that asked for it, and
   once the loop is idle nothing is kept of a peer that has gone (endHeaderRun, endBlockRun and
   onPeerDisconnect clear what startHeaderRun and startBlockRun set). *)
THEOREM SchedulerHolds == Spec => [](TypeOK /\ NothingHungUp /\ GoneLeavesNothing)
<1>1. IInv => TypeOK /\ NothingHungUp /\ GoneLeavesNothing
  <2> SUFFICES ASSUME IInv PROVE TypeOK /\ NothingHungUp /\ GoneLeavesNothing
    OBVIOUS
  <2>1. TypeOK
    BY PeerAssumption DEF IInv, Sound, Well, Typed, Machines, TypeOK
  <2>2. NothingHungUp
    BY DEF IInv, Sound, Well, Runs, NothingHungUp
  <2>3. GoneLeavesNothing
    <3> SUFFICES ASSUME NEW p \in Peers, Gone(p)
                 PROVE  /\ m.claims[p] = None /\ m.held[p] = None /\ m.omitted[p] = {}
                        /\ p \notin m.outbound \cup m.hOpen \cup m.bOpen
                        /\ \A i \in Ids : m.inFlight[i] # p
      BY DEF GoneLeavesNothing
    <3>1. ~ Told(m, p)
      BY DEF Gone, Told, IInv, Sound, Well, Typed, Machines
    <3>2. Cleared(m, p) /\ m.omitted[p] = {}
      BY <3>1 DEF Gone, IInv, Sound, Well, Left
    <3> QED BY <3>2 DEF Cleared
  <2> QED BY <2>1, <2>2, <2>3
<1> QED BY <1>1, IInvHolds, PTL

(* While a header or a block run is open the phase reads syncing (recomputePhase at the end of
   each handler), provided that the intake never asks for headers on its own: onNeedHeaders
   opens a run without a recomputePhase. *)
THEOREM ShowsHold == ASSUME MaxNeeds = 0 PROVE Spec => []StateShowsPeers
<1>1. IInv => OpenRunsShow
  BY DEF IInv, Shown, Shows, OpenRunsShow
<1> QED BY <1>1, IInvHolds, SchedulerHolds, PTL DEF StateShowsPeers

(* A peer whose claims were its own tips is never penalised: the settle of a header run
   blames only a peer that left an unreplaced claim unreached by a page with room for it. *)
THEOREM HonestHold == Spec => []HonestNeverPenalised
<1>1. IInv => HonestNeverPenalised
  BY DEF IInv, Sound, Honest, HonestNeverPenalised
<1> QED BY <1>1, IInvHolds, PTL

(* When the loop is idle and the phase reads synced, the applied chain is the best chain:
   whatever moves either announces it, and onChainMoved looks at the phase again. *)
THEOREM SyncedHolds == Spec => []SyncedIsApplied
<1>1. IInv => SyncedIsApplied
  BY DEF IInv, Shown, Applied, SyncedIsApplied
<1> QED BY <1>1, IInvHolds, PTL

(* The download window rises only when every outbound connection with a header run through
   the step is marked as stalled (evaluateGate), whichever handler raised it. *)
THEOREM GateHold == Spec => GateWaits
<1>1. IInv /\ [Next]_vars =>
        [m'.S > m.S =>
           \A p \in m.connected \cap m.outbound :
             m.hRun[p] # None /\ m'.hRun[p] # None => Marked(m, p) \/ Marked(m', p)]_vars
  <2> SUFFICES ASSUME IInv, [Next]_vars
               PROVE  m'.S > m.S =>
                        \A p \in m.connected \cap m.outbound :
                          m.hRun[p] # None /\ m'.hRun[p] # None => Marked(m, p) \/ Marked(m', p)
    OBVIOUS
  <2>1. Kept \/ m' = m
    BY NextKeeps
  <2>2. CASE Kept
    BY <2>2 DEF Kept, Waits
  <2>3. CASE m' = m
    <3>1. m.S \in Int
      BY DEF IInv, Sound, Well, Typed, Machines
    <3> QED BY <2>3, <3>1
  <2> QED BY <2>1, <2>2, <2>3
<1> QED BY <1>1, IInvHolds, PTL DEF Spec, GateWaits
=============================================================================
