---------------------------- MODULE SyncMachine ----------------------------
(***************************************************************************)
(* The sync scheduler of net: it keeps peers' claims, this node's open     *)
(* requests and its stall marks, and decides whom to ask for what.  It is  *)
(* single threaded but asynchronous: a run is a coroutine, suspended while *)
(* its request is on the wire.  Once the answer is there the intake takes  *)
(* it synchronously, but the run goes on only some microtasks later: the   *)
(* event loop, and other runs, come first.  Nothing that needs the network *)
(* or a timer comes in between (Quiet).  Each action is the code between   *)
(* two suspension points.                                                  *)
(*                                                                         *)
(* Its surroundings are as small as it can tell: one chain of headers      *)
(* 1..Top, of which a header is its height, and the node's chain view of   *)
(* it.  Forks, and the pipeline that decides between them, are the modules *)
(* HeaderPipeline and Intake.  A closed connection fails its streams       *)
(* before the peer is back, so a peer has one run of each kind at most.    *)
(*                                                                         *)
(*   m        the scheduler's fields, the connected set and the chain view *)
(*            it reads: one record, since one call chain changes many      *)
(*   boot     every bootstrap dial has settled                             *)
(*   peerTip  each peer's own applied tip, which only rises                *)
(*   used     how much of each bound below has been spent                  *)
(***************************************************************************)
EXTENDS Integers, FiniteSets, SequencesExt

CONSTANTS
  Peers, None,
  Outbound,       \* the peers this node dials
  Liars,          \* peers that answer with any page, and claim FalseClaims
  FalseClaims,    \* claims no chain backs
  Top,            \* the highest header there is
  StartTips,      \* where the peers' tips may stand at the start
  MaxItems,       \* MAX_CHAIN_RESPONSE_ITEMS
  MaxServed,      \* how many blocks fit MAX_SERVE_BODY_BYTES
  MaxStallMarks,  \* MAX_STALL_MARKS
  MaxReorgDepth,  \* the profile's maxReorgDepth
  HasBootstrap,   \* whether any bootstrap address is configured
  Polling,        \* TRUE when peers report without end (liveness)
  MaxInfos,       \* bound on SyncInfo reports
  MaxNeeds,       \* bound on needHeaders calls
  MaxFaults,      \* bound on failed requests and refused deliveries
  MaxAborts,      \* bound on blocks whose apply the pipeline aborts
  MaxDrops        \* bound on connections that close

ASSUME PeerAssumption == IsFiniteSet(Peers) /\ Outbound \subseteq Peers /\ Liars \subseteq Peers
ASSUME ClaimAssumption == FalseClaims \subseteq [tipHeight : Nat, tipHash : Nat]
ASSUME SizeAssumption ==
  /\ Top \in Nat /\ MaxReorgDepth \in Nat
  /\ MaxItems \in Nat \ {0} /\ MaxServed \in Nat \ {0} /\ MaxStallMarks \in Nat \ {0}
ASSUME StartAssumption == StartTips \subseteq [Peers -> 0 .. Top]
ASSUME FlagAssumption == HasBootstrap \in BOOLEAN /\ Polling \in BOOLEAN
ASSUME LimitAssumption ==
  MaxInfos \in Nat /\ MaxNeeds \in Nat /\ MaxFaults \in Nat /\ MaxAborts \in Nat
    /\ MaxDrops \in Nat

VARIABLES m, boot, peerTip, used
vars == <<m, boot, peerTip, used>>

Ids == 1 .. Top
TipAt(h) == [tipHeight |-> h, tipHash |-> h]
Claims == {TipAt(h) : h \in 0 .. Top} \cup FalseClaims

HeaderRuns ==
  [at : {"asked", "judged"}, claim : Claims \cup {None}, from : 0 .. Top,
   upto : 0 .. Top, verdict : {"none", "taken", "again", "refused", "threw"}]
BlockRuns == [at : {"asked", "judged", "threw"}, ids : SUBSET Ids]

ASSUME NoneAssumption ==
  None \notin Nat /\ None \notin Peers /\ None \notin Claims
    /\ None \notin HeaderRuns /\ None \notin BlockRuns

EventTypes == {"peer-active", "peer-disconnect", "sync-info", "need-headers",
               "chain-moved", "bootstrap-settled"}
Events == [type : EventTypes, peer : Peers \cup {None}, claim : Claims \cup {None}]

TypeOK ==
  /\ m.claims \in [Peers -> Claims \cup {None}]
  /\ m.order \in Seq(Peers) /\ m.marks \in Seq(Peers)
  /\ IsInjective(m.order) /\ IsInjective(m.marks)
  /\ m.outbound \subseteq Peers /\ m.hOpen \subseteq Peers /\ m.bOpen \subseteq Peers
  /\ m.inFlight \in [Ids -> Peers \cup {None}]
  /\ m.omitted \in [Peers -> SUBSET Ids]
  /\ m.settled \in BOOLEAN
  /\ m.phase \in {"idle", "syncing", "synced"}
  /\ m.acted \subseteq Peers /\ m.held \in [Peers -> Claims \cup {None}]
  /\ m.penalised \subseteq Peers
  /\ m.hRun \in [Peers -> HeaderRuns \cup {None}]
  /\ m.bRun \in [Peers -> BlockRuns \cup {None}]
  /\ m.queue \in Seq(Events)
  /\ m.applied \in 0 .. m.best /\ m.best \in 0 .. Top /\ m.S \in 0 .. Top
  /\ m.staged \subseteq m.applied + 1 .. m.best
  /\ m.connected \subseteq Peers /\ m.closing \subseteq Peers /\ m.banned \subseteq Peers
  /\ boot \in BOOLEAN
  /\ peerTip \in [Peers -> 0 .. Top]

Init ==
  /\ m = [claims |-> [p \in Peers |-> None], order |-> <<>>, marks |-> <<>>,
          outbound |-> {}, hOpen |-> {}, bOpen |-> {},
          inFlight |-> [i \in Ids |-> None], omitted |-> [p \in Peers |-> {}],
          settled |-> FALSE, phase |-> "idle",
          acted |-> {}, held |-> [p \in Peers |-> None], penalised |-> {},
          hRun |-> [p \in Peers |-> None], bRun |-> [p \in Peers |-> None],
          queue |-> <<>>, connected |-> {}, closing |-> {}, banned |-> {}, best |-> 0, applied |-> 0, staged |-> {}, S |-> 0]
  /\ boot = ~HasBootstrap
  /\ peerTip \in StartTips
  /\ used = [infos |-> 0, needs |-> 0, faults |-> 0, aborts |-> 0, drops |-> 0]

-----------------------------------------------------------------------------
(* The chain view: what the scheduler may read of the node, and the hold   *)
(* it reports back.                                                        *)

KnowsTip(s, hash) == hash \in 0 .. s.best
FullyApplied(s) == s.applied = s.best
Window(s) == s.S + MaxReorgDepth

WantedBlocks(s) ==
  {i \in s.applied + 1 .. s.best : i <= Window(s) /\ i \notin s.staged}

Event(type, p, claim) == [type |-> type, peer |-> p, claim |-> claim]
ChainMovedEvent == Event("chain-moved", None, None)

\* chainMoved.  Two in a row say what one says.
ChainMoved(s) ==
  IF s.queue # <<>> /\ Last(s.queue) = ChainMovedEvent THEN s
  ELSE [s EXCEPT !.queue = Append(@, ChainMovedEvent)]

\* Mutated form of Drain: what is applied stays staged.
DrainKeepingStaged(s) ==
  LET next == Max({a \in s.applied .. s.best :
                     a <= Max({s.applied, Window(s)}) /\ s.applied + 1 .. a \subseteq s.staged})
  IN  IF next = s.applied THEN s ELSE ChainMoved([s EXCEPT !.applied = next])

\* drainExtension: the staged run above the applied tip, up to the window.
Drain(s) ==
  LET next == Max({a \in s.applied .. s.best :
                     a <= Max({s.applied, Window(s)}) /\ s.applied + 1 .. a \subseteq s.staged})
  IN  IF next = s.applied THEN s
      ELSE ChainMoved([s EXCEPT !.applied = next, !.staged = @ \ (1 .. next)])

GateHeld(s) ==
  LET raised == [s EXCEPT !.S = s.best]
  IN  IF s.best <= s.S THEN raised ELSE Drain(raised)

-----------------------------------------------------------------------------
(* What every handler ends with: the phase, the gate, the block pump.      *)

\* Op(s), its argument evaluated once: what one call leaves, the next reads.
After(s, Op(_)) == CHOOSE t \in {Op(x) : x \in {s}} : TRUE

\* Op once for each peer of a sequence.
Each(s, Op(_, _), peers) ==
  LET left[i \in 0 .. Len(peers)] ==
        IF i = 0 THEN s ELSE After(left[i - 1], LAMBDA x : Op(x, peers[i]))
  IN  left[Len(peers)]

Marked(s, p) == p \in Range(s.marks)

Unsettled(s, p) == s.claims[p] = None \/ ~KnowsTip(s, s.claims[p].tipHash)

ComputePhase(s) ==
  CASE s.hOpen # {} \/ s.bOpen # {} \/ ~FullyApplied(s) -> "syncing"
    [] OTHER ->
       CASE ~s.settled -> "idle"
         [] \E p \in s.connected : ~Marked(s, p) /\ Unsettled(s, p) -> "syncing"
         [] OTHER -> "synced"

\* Entering synced clears every stall mark.
RecomputePhase(s) ==
  LET next == ComputePhase(s)
  IN  [s EXCEPT !.phase = next,
                !.marks = IF next = "synced" /\ s.phase # "synced" THEN <<>> ELSE @]

\* Mutated form of GateHolds: the dials of the bootstrap peers alone.
GateOnDials(s) == boot

GateHolds(s) ==
  boot /\ \A p \in s.hOpen : Marked(s, p) \/ p \notin s.outbound

EvaluateGate(s) == IF GateHolds(s) THEN GateHeld(s) ELSE s

Lowest(ids, n) == {i \in ids : Cardinality({j \in ids : j < i}) < n}

\* The lowest ids the peer's settled claim covers, that it has not omitted
\* and nobody is asked for.
Batch(s, p) ==
  LET eligible == {i \in WantedBlocks(s) : /\ i <= s.claims[p].tipHeight
                                           /\ i \notin s.omitted[p]
                                           /\ s.inFlight[i] = None}
  IN  IF Unsettled(s, p) THEN {} ELSE Lowest(eligible, MaxItems)

\* startBlockRun up to its request.  An open run makes the phase syncing.
StartBlockRun(s, p) ==
  LET ids == Batch(s, p)
  IN  IF ids = {} \/ p \notin s.connected \/ Marked(s, p) \/ p \in s.bOpen THEN s
      ELSE [s EXCEPT !.bOpen = @ \cup {p},
                     !.inFlight = [i \in Ids |-> IF i \in ids THEN p ELSE @[i]],
                     !.bRun[p] = [at |-> "asked", ids |-> ids],
                     !.phase = "syncing"]

KickBlockPump(s) ==
  LET wanted == WantedBlocks(s)
      purged == [s EXCEPT !.omitted = [p \in Peers |-> @[p] \cap wanted],
                          !.inFlight = [i \in Ids |-> IF i \in wanted THEN @[i] ELSE None]]
  IN  Each(purged, StartBlockRun, s.order)

FreeIds(s, p, ids) ==
  [s EXCEPT !.inFlight = [i \in Ids |-> IF i \in ids /\ @[i] = p THEN None ELSE @[i]]]

MarkPeer(s, p) ==
  LET marks  == Append(RemoveFirst(s.marks, p), p)
      kept   == IF Len(marks) > MaxStallMarks THEN Tail(marks) ELSE marks
      marked == After([s EXCEPT !.marks = kept], EvaluateGate)
  IN  After(FreeIds(marked, p, Ids), KickBlockPump)

-----------------------------------------------------------------------------
(* Header runs, from one suspension to the next.                           *)

\* What a header run's loop does before it suspends on its request.
Request(s, p) ==
  [s EXCEPT !.hRun[p] = [at |-> "asked", claim |-> s.claims[p], from |-> s.best,
                         upto |-> 0, verdict |-> "none"]]

\* startHeaderRun up to its first request.
StartHeaderRun(s, p) ==
  IF p \notin s.connected \/ Marked(s, p) \/ p \in s.hOpen THEN s
  ELSE Request([s EXCEPT !.hOpen = @ \cup {p}], p)

\* startHeaderRun's finally.
EndHeaderRun(s, p) ==
  After(After(After([s EXCEPT !.hRun[p] = None, !.hOpen = @ \ {p}],
                    RecomputePhase), EvaluateGate), KickBlockPump)

\* The head of runHeaders' loop.
AskAgain(s, p) ==
  IF p \notin s.connected \/ Marked(s, p) THEN EndHeaderRun(s, p) ELSE Request(s, p)

Short(r) == r.upto - r.from < MaxItems

ReachedClaim(r) == r.claim # None /\ r.upto > r.from /\ r.upto >= r.claim.tipHeight

HashOf(claim) == IF claim = None THEN None ELSE claim.tipHash

\* Mutated form of ClaimReplaced: the refute test never looks again.
ClaimNeverReplaced(s, p) == FALSE

\* The claim moved between the request and its answer's delivery.
ClaimReplaced(s, p) == HashOf(s.claims[p]) # HashOf(s.hRun[p].claim)

\* A ban ends the connection at once; the hang-up's own event is to come.
Ban(s, p) ==
  [s EXCEPT !.connected = @ \ {p}, !.closing = @ \cup {p}, !.banned = @ \cup {p},
            !.queue = Append(@, Event("peer-disconnect", p, None))]

\* penalizePeer: whether the score reaches the ban threshold is left open.
Penalise(s, p) ==
  LET scored == [s EXCEPT !.penalised = @ \cup {p}]
  IN  {scored, Ban(scored, p)}

MarkAndEnd(s, p) == After(MarkPeer(s, p), LAMBDA t : EndHeaderRun(t, p))

\* The rest of runHeaders once the pipeline has taken a page.
JudgeTaken(s, p) ==
  LET r       == s.hRun[p]
      settles == [s EXCEPT !.settled = TRUE]
  IN  CASE p \notin s.connected -> {EndHeaderRun(s, p)}
        [] p \in s.connected /\ ~Unsettled(s, p) -> {EndHeaderRun(settles, p)}
        [] p \in s.connected /\ Unsettled(s, p) /\ ClaimReplaced(s, p) -> {AskAgain(s, p)}
        [] OTHER ->
             IF ~(Short(r) \/ ReachedClaim(r)) THEN {AskAgain(s, p)}
             ELSE IF r.claim = None THEN {EndHeaderRun(settles, p)}
             ELSE {MarkAndEnd(t, p) : t \in Penalise(s, p)}

-----------------------------------------------------------------------------
(* The control events.                                                     *)

HandlePeerDisconnect(s, p) ==
  LET gone == [s EXCEPT !.claims[p] = None, !.order = RemoveFirst(@, p), !.outbound = @ \ {p},
                        !.hOpen = @ \ {p}, !.bOpen = @ \ {p}, !.omitted[p] = {},
                        !.acted = @ \ {p}, !.held[p] = None]
  IN  After(After(After(FreeIds(gone, p, Ids),
                        RecomputePhase), EvaluateGate), KickBlockPump)

HandlePeerActive(s, p) ==
  IF p \notin s.connected THEN s
  ELSE After(After([s EXCEPT !.outbound = IF p \in Outbound THEN @ \cup {p} ELSE @ \ {p}],
                   RecomputePhase), EvaluateGate)

ActOnSyncInfo(s, p, claim) ==
  LET moved   == HashOf(s.claims[p]) # claim.tipHash
      claimed == [s EXCEPT !.acted = @ \cup {p},
                           !.omitted[p] = IF moved THEN {} ELSE @,
                           !.claims[p] = claim,
                           !.order = IF p \in Range(@) THEN @ ELSE Append(@, p)]
      started == IF Unsettled(claimed, p) THEN StartHeaderRun(claimed, p)
                 ELSE [claimed EXCEPT !.settled = TRUE]
  IN  After(After(started, RecomputePhase), KickBlockPump)

\* Within its interval a report is held for the tick; whether it is within
\* is left open once one was acted on.
HandleSyncInfo(s, p, claim) ==
  IF p \notin s.connected THEN {s}
  ELSE {ActOnSyncInfo(s, p, claim)}
         \cup {h \in {[s EXCEPT !.held[p] = claim]} : p \in s.acted}

\* A claim the view no longer knows opens its peer's header run.
Reopen(s, p) == IF Unsettled(s, p) THEN StartHeaderRun(s, p) ELSE s

\* Mutated form of HandleChainMoved: the phase is not looked at again.
ChainMovedPhaseKept(s) ==
  After(Each(s, Reopen, s.order), KickBlockPump)

HandleChainMoved(s) ==
  After(After(Each(s, Reopen, s.order), KickBlockPump), RecomputePhase)

\* What a control event may leave behind.
Handled(s, e) ==
  CASE e.type = "peer-active" -> {HandlePeerActive(s, e.peer)}
    [] e.type = "peer-disconnect" -> {HandlePeerDisconnect(s, e.peer)}
    [] e.type = "sync-info" -> HandleSyncInfo(s, e.peer, e.claim)
    [] e.type = "need-headers" -> {StartHeaderRun(s, e.peer)}
    [] e.type = "chain-moved" -> {HandleChainMoved(s)}
    [] e.type = "bootstrap-settled" -> {EvaluateGate(s)}

\* One turn of the event loop.
Dispatch ==
  /\ m.queue # <<>>
  /\ \E s \in {[m EXCEPT !.queue = Tail(@)]} : m' \in Handled(s, Head(m.queue))
  /\ UNCHANGED <<boot, peerTip, used>>

ActOnHeld(s, p) == ActOnSyncInfo([s EXCEPT !.held[p] = None], p, s.held[p])

\* Mutated form of OnTimerTick: no mark expires.
TickKeepingMarks(due, expired) ==
  After(After(Each(m, ActOnHeld, due), RecomputePhase), EvaluateGate)

\* The tick: held reports past their interval, in the order they came, marks
\* past their expiry, the oldest first, the phase and the gate.
OnTimerTick(due, expired) ==
  LET acted  == Each(m, ActOnHeld, due)
      n      == Min({expired, Len(acted.marks)})
      kept   == [acted EXCEPT !.marks = SubSeq(@, n + 1, Len(@))]
      looked == After(After(kept, RecomputePhase), EvaluateGate)
  IN  IF n > 0 THEN After(looked, KickBlockPump) ELSE looked

Holding == {p \in Peers : m.held[p] # None}

\* The loop ticks once it has drained its queue.
TimerTick ==
  /\ m.queue = <<>>
  /\ \E due \in UNION {SetToSeqs(ps) : ps \in SUBSET Holding},
        expired \in 0 .. Len(m.marks) :
       m' = OnTimerTick(due, expired)
  /\ UNCHANGED <<boot, peerTip, used>>

-----------------------------------------------------------------------------
(* Where a suspended run goes on.                                          *)

HeaderRunAt(p, at) == m.hRun[p] # None /\ m.hRun[p].at = at
BlockRunAt(p, at) == m.bRun[p] # None /\ m.bRun[p].at = at

\* No microtask is left: every answer is dealt with, and the queue holds at
\* most what a tick has left in it, which waits for the next turn.
Quiet ==
  /\ \A p \in Peers : /\ m.hRun[p] # None => m.hRun[p].at = "asked"
                      /\ m.bRun[p] # None => m.bRun[p].at = "asked"
  /\ Range(m.queue) \subseteq {ChainMovedEvent}

Fault == used.faults < MaxFaults /\ used' = [used EXCEPT !.faults = @ + 1]

\* The pages a peer may answer a locator with, by their last height: all of
\* its own chain that fits, or for a liar any part.
Answers(p) ==
  LET full == m.hRun[p].from + MaxItems
  IN  IF p \in Liars THEN m.hRun[p].from .. Min({full, Top})
      ELSE {Min({full, peerTip[p]})}

\* The request fails or times out, or a closed connection fails it.
HeadersFail(p) ==
  /\ Quiet /\ HeaderRunAt(p, "asked")
  /\ IF p \in m.connected THEN Fault ELSE UNCHANGED used
  /\ m' = MarkAndEnd(m, p)
  /\ UNCHANGED <<boot, peerTip>>

\* A page of the wrong shape is penalised and ends the run.
HeadersMisshapen(p) ==
  /\ Quiet /\ HeaderRunAt(p, "asked") /\ p \in Liars \cap m.connected
  /\ Fault
  /\ m' \in {EndHeaderRun(s, p) : s \in Penalise(m, p)}
  /\ UNCHANGED <<boot, peerTip>>

\* The pipeline takes the page: the part above the best tip joins the chain.
\* An answer of a peer that has gone ends the run.
HeadersArrive(p) ==
  /\ Quiet /\ HeaderRunAt(p, "asked")
  /\ IF p \notin m.connected THEN m' = EndHeaderRun(m, p)
     ELSE \E upto \in Answers(p) :
            LET judged == [m EXCEPT !.hRun[p].at = "judged", !.hRun[p].upto = upto,
                                    !.hRun[p].verdict = "taken"]
            IN  m' = IF upto <= m.best THEN judged
                     ELSE ChainMoved([judged EXCEPT !.best = upto])
  /\ UNCHANGED <<boot, peerTip, used>>

\* The pipeline wants the page again, refuses it, which may ban a liar, or
\* its item ends in an error.
HeadersUntaken(p, verdict) ==
  /\ Quiet /\ HeaderRunAt(p, "asked") /\ p \in m.connected
  /\ Fault
  /\ LET judged == [m EXCEPT !.hRun[p].at = "judged", !.hRun[p].verdict = verdict]
     IN  \/ m' = judged
         \/ p \in Liars /\ verdict = "refused" /\ m' = Ban(judged, p)
  /\ UNCHANGED <<boot, peerTip>>

HeadersJudged(p) ==
  /\ HeaderRunAt(p, "judged")
  /\ m' \in CASE m.hRun[p].verdict = "taken" -> JudgeTaken(m, p)
              [] m.hRun[p].verdict = "again" -> {AskAgain(m, p)}
              [] OTHER -> {EndHeaderRun(m, p)}
  /\ UNCHANGED <<boot, peerTip, used>>

\* startBlockRun's finally.
EndBlockRun(s, p) ==
  LET freed == FreeIds(s, p, s.bRun[p].ids)
  IN  After(After([freed EXCEPT !.bRun[p] = None, !.bOpen = @ \ {p}],
                  RecomputePhase), KickBlockPump)

BlocksFail(p) ==
  /\ Quiet /\ BlockRunAt(p, "asked")
  /\ IF p \in m.connected THEN Fault ELSE UNCHANGED used
  /\ m' = After(MarkPeer(m, p), LAMBDA t : EndBlockRun(t, p))
  /\ UNCHANGED <<boot, peerTip>>

\* What a peer may answer with: the blocks it has, as far as they fit one
\* answer, or for a liar any of them.
Served(p) ==
  LET has == m.bRun[p].ids \cap (1 .. peerTip[p])
  IN  IF p \in Liars THEN SUBSET has ELSE {Lowest(has, MaxServed)}

Staged(ids) == [m EXCEPT !.staged = @ \cup (ids \cap WantedBlocks(m))]

\* The pipeline stages what it still wants of the answer and drains.  A block
\* that does not bind may ban its peer.  An answer of a peer that has gone
\* ends the run.
BlocksArrive(p) ==
  /\ Quiet /\ BlockRunAt(p, "asked")
  /\ IF p \notin m.connected THEN m' = EndBlockRun(m, p)
     ELSE \E got \in Served(p) :
            LET judged == After([Staged(got) EXCEPT !.bRun[p].at = "judged"], Drain)
            IN  \/ m' = judged
                \/ p \in Liars /\ got # m.bRun[p].ids /\ m' = Ban(judged, p)
  /\ UNCHANGED <<boot, peerTip, used>>

\* The apply of the lowest block it stages aborts: a refusal of this node's
\* clock or a local fault.  The block leaves staging again.
BlocksAborted(p) ==
  /\ Quiet /\ BlockRunAt(p, "asked") /\ p \in m.connected
  /\ used.aborts < MaxAborts /\ used' = [used EXCEPT !.aborts = @ + 1]
  /\ \E got \in Served(p) :
       /\ m.applied + 1 \in got \cap WantedBlocks(m)
       /\ m' = [Staged(got \ {m.applied + 1}) EXCEPT !.bRun[p].at = "judged"]
  /\ UNCHANGED <<boot, peerTip>>

\* The item ends in an error and takes nothing.
BlocksThrew(p) ==
  /\ Quiet /\ BlockRunAt(p, "asked") /\ p \in m.connected
  /\ Fault
  /\ m' = [m EXCEPT !.bRun[p].at = "threw"]
  /\ UNCHANGED <<boot, peerTip>>

\* What is still wanted counts as omitted by the peer, connected or not.
BlocksJudged(p) ==
  /\ BlockRunAt(p, "judged") \/ BlockRunAt(p, "threw")
  /\ LET still == IF m.bRun[p].at = "threw" THEN {} ELSE m.bRun[p].ids \cap WantedBlocks(m)
     IN  m' = EndBlockRun([m EXCEPT !.omitted[p] = @ \cup still], p)
  /\ UNCHANGED <<boot, peerTip, used>>

-----------------------------------------------------------------------------
(* The surroundings: the host, the peers, the pipeline's own moves.        *)

Pushed(s, type, p, claim) == [s EXCEPT !.queue = Append(@, Event(type, p, claim))]

\* A handshake completes.
Connect(p) ==
  /\ Quiet /\ p \notin m.connected \cup m.closing \cup m.banned
  /\ m.hRun[p] = None /\ m.bRun[p] = None
  /\ m' = Pushed([m EXCEPT !.connected = @ \cup {p}], "peer-active", p, None)
  /\ UNCHANGED <<boot, peerTip, used>>

\* A connection closes.
Disconnect(p) ==
  /\ Quiet /\ p \in m.connected
  /\ used.drops < MaxDrops /\ used' = [used EXCEPT !.drops = @ + 1]
  /\ m' = Pushed([m EXCEPT !.connected = @ \ {p}], "peer-disconnect", p, None)
  /\ UNCHANGED <<boot, peerTip>>

\* The connection of a banned peer has closed: its second disconnect event.
HungUp(p) ==
  /\ Quiet /\ p \in m.closing
  /\ m' = Pushed([m EXCEPT !.closing = @ \ {p}], "peer-disconnect", p, None)
  /\ UNCHANGED <<boot, peerTip, used>>

\* A peer reports its tip; the report may arrive after it has gone.
SendSyncInfo(p) ==
  /\ Quiet
  /\ \/ Polling /\ p \in m.connected /\ m.held[p] = None /\ UNCHANGED used
     \/ ~Polling /\ used.infos < MaxInfos /\ used' = [used EXCEPT !.infos = @ + 1]
  /\ \E claim \in {TipAt(peerTip[p])} \cup IF p \in Liars THEN FalseClaims ELSE {} :
       m' = Pushed(m, "sync-info", p, claim)
  /\ UNCHANGED <<boot, peerTip>>

\* The intake met a gossiped block whose parent it lacks.
NeedHeaders(p) ==
  /\ Quiet
  /\ used.needs < MaxNeeds /\ used' = [used EXCEPT !.needs = @ + 1]
  /\ m' = Pushed(m, "need-headers", p, None)
  /\ UNCHANGED <<boot, peerTip>>

BootstrapSettled ==
  /\ Quiet /\ ~boot
  /\ boot' = TRUE
  /\ m' = Pushed(m, "bootstrap-settled", None, None)
  /\ UNCHANGED <<peerTip, used>>

PeerAdvances(p) ==
  /\ peerTip[p] < Top
  /\ peerTip' = [peerTip EXCEPT ![p] = @ + 1]
  /\ UNCHANGED <<m, boot, used>>

\* The intake refuses a body, one no honest peer's chain holds, and drops
\* its header; the penalty may ban the peer it came from.
BestDrops ==
  /\ Quiet /\ m.applied < m.best
  /\ \A p \in Peers \ Liars : peerTip[p] < m.best
  /\ Fault
  /\ LET dropped == ChainMoved([m EXCEPT !.best = @ - 1, !.staged = @ \ {m.best}])
     IN  m' = dropped \/ \E p \in Liars \cap m.connected : m' = Ban(dropped, p)
  /\ UNCHANGED <<boot, peerTip>>

-----------------------------------------------------------------------------
RunStep(p) ==
  \/ HeadersFail(p) \/ HeadersMisshapen(p) \/ HeadersArrive(p)
  \/ \E verdict \in {"again", "refused", "threw"} : HeadersUntaken(p, verdict)
  \/ HeadersJudged(p)
  \/ BlocksFail(p) \/ BlocksArrive(p)
  \/ BlocksAborted(p) \/ BlocksThrew(p) \/ BlocksJudged(p)

Next ==
  \/ Dispatch \/ TimerTick
  \/ \E p \in Peers : \/ RunStep(p)
                      \/ Connect(p) \/ Disconnect(p) \/ HungUp(p)
                      \/ SendSyncInfo(p) \/ NeedHeaders(p) \/ PeerAdvances(p)
  \/ BootstrapSettled \/ BestDrops

Spec == Init /\ [][Next]_vars

\* A tick long after the last: every report is due, every mark expires.
LateTick ==
  /\ m.queue = <<>>
  /\ \E due \in SetToSeqs(Holding) : m' = OnTimerTick(due, Len(m.marks))
  /\ UNCHANGED <<boot, peerTip, used>>

\* Microtasks run out before anything else comes (WF), and no kind of event
\* keeps another away for ever (SF): a turn of the loop ends with a look at
\* the clock, a request ends by its answer or its deadline, a connected peer
\* reports every 30 seconds, and an honest one dials back.
Fairness ==
  /\ WF_vars(Dispatch \/ \E p \in Peers : HeadersJudged(p) \/ BlocksJudged(p))
  /\ SF_vars(LateTick) /\ SF_vars(BootstrapSettled)
  /\ \A p \in Peers :
       SF_vars(HeadersArrive(p)) /\ SF_vars(BlocksArrive(p)) /\ SF_vars(SendSyncInfo(p))
  /\ \A p \in Peers \ Liars : SF_vars(Connect(p)) /\ WF_vars(PeerAdvances(p))

FairSpec == Spec /\ Fairness

-----------------------------------------------------------------------------
(* Properties.                                                             *)

\* Nothing waits for a run that is no more: a peer listed as busy has a live
\* run, and an id in flight is in the request of the peer it is placed with.
\* Otherwise the peer is never asked again, the gate never holds, or the id
\* is never asked of anyone.  And a connected peer's run is listed, so no
\* second one opens beside it.
NothingHungUp ==
  /\ \A p \in Peers : p \in m.hOpen => m.hRun[p] # None
  /\ \A p \in Peers : p \in m.bOpen => m.bRun[p] # None
  /\ \A i \in Ids : m.inFlight[i] # None =>
       m.bRun[m.inFlight[i]] # None /\ i \in m.bRun[m.inFlight[i]].ids
  /\ \A p \in m.connected : /\ m.hRun[p] # None => p \in m.hOpen
                            /\ m.bRun[p] # None => p \in m.bOpen

\* A peer that only ever reports its own tip and serves its own chain is
\* never penalised, however its tip rises while a page of it is on the wire
\* and its run waits to go on.
HonestNeverPenalised == m.penalised \subseteq Liars

\* Once the loop has caught up with its events, synced means applied.
SyncedIsApplied == m.phase = "synced" /\ m.queue = <<>> => FullyApplied(m)

\* The phase reads syncing while a header sync or a block request is open.
OpenRunsShow == m.phase # "syncing" => m.hOpen = {} /\ m.bOpen = {}

\* The gate holds, and the window rises, only while no unmarked outbound
\* peer has a header sync under way.
GateWaits ==
  [][m'.S > m.S =>
       \A p \in m.connected \cap m.outbound :
         m.hRun[p] # None /\ m'.hRun[p] # None => Marked(m, p) \/ Marked(m', p)]_vars

\* The peer has gone, its connection is closed, and the loop has been told.
Gone(p) ==
  p \notin m.connected \cup m.closing /\ \A i \in 1 .. Len(m.queue) : m.queue[i].peer # p

\* A peer that has gone leaves no claim, direction, held report, omission or
\* open run behind, and no id waits for it.
GoneLeavesNothing ==
  \A p \in Peers : Gone(p) =>
    /\ m.claims[p] = None /\ m.held[p] = None /\ m.omitted[p] = {}
    /\ p \notin m.outbound \cup m.hOpen \cup m.bOpen
    /\ \A i \in Ids : m.inFlight[i] # p

\* What the machine keeps of its peers is typed, belongs to a live run, shows in the phase,
\* and goes with the peer (onPeerDisconnect, endBlockRun, phase).
StateShowsPeers == TypeOK /\ NothingHungUp /\ OpenRunsShow /\ GoneLeavesNothing

\* The chain an honest peer serves is applied in the end, and the node says
\* so again and again, through failed requests, refusals, marks, reconnects
\* and a liar's claims and answers.
CatchesUp == <>[](m.applied = Top) /\ []<>(m.phase = "synced")
=============================================================================
