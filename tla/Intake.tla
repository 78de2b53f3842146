------------------------------- MODULE Intake -------------------------------
(***************************************************************************)
(* The intake: the one place a delivery enters fork choice.  An item is a  *)
(* delivered page, answer, gossiped or mined block, or a hold of net's     *)
(* gate.  It starts on an empty agenda, and its own steps run to the end   *)
(* before the next item starts.  A crash may fall between any two steps    *)
(* and loses everything but the store.                                     *)
(*                                                                         *)
(*   S          the best chain's height at the last hold of net's gate     *)
(*   pending    pendingBlocks: per peer a gossiped block without a parent. *)
(*              The map's order is left open                               *)
(*   attempted  the peers the running pending pass has tried               *)
(*   crashes    how many times the process was killed, at most MaxCrashes  *)
(***************************************************************************)
EXTENDS HeaderPipeline

CONSTANTS
  PageInputs,        \* <<claim, page>> pairs a peer may answer with
  AnswerInputs,      \* block sequences a peer may answer with
  GossipInputs,      \* blocks a peer may relay
  MinedInputs,       \* blocks this node's miner may find
  BlockFetchWindow,  \* BLOCK_FETCH_WINDOW
  MinimumChainWork,  \* the profile's minimumChainWork
  MaxCrashes         \* bound on crashes

ASSUME InputAssumption ==
  /\ PageInputs \subseteq (Blocks \cup {NoClaim}) \X Seq(Blocks)
  /\ AnswerInputs \subseteq Seq(Blocks)
  /\ GossipInputs \subseteq Blocks /\ MinedInputs \subseteq Blocks
ASSUME BoundAssumption ==
  /\ BlockFetchWindow \in Nat /\ MinimumChainWork \in Nat /\ MaxCrashes \in Nat

VARIABLES S, pending, attempted, crashes
intakeVars == <<S, pending, attempted, crashes>>
vars == <<storeVars, pipelineVars, intakeVars>>

\* The agenda's entries: of one block, of a run of headers, or of the state.
BlockOps == {"insert", "move", "bind", "extend", "inhand", "unstage", "mark", "remove"}
StateOps == {"prune", "rechooseafter", "rechoose", "pass", "drain", "switch"}

Entries ==
  [op : BlockOps, by : Peers \cup {Self}, bs : {<<b>> : b \in Blocks}]
    \cup [op : {"put"}, by : {Self}, bs : Seq(Blocks) \ {<<>>}]
    \cup [op : StateOps, by : {Self}, bs : {<<>>}]

TypeOK ==
  /\ StoreTypeOK
  /\ running \in [Peers -> Branches \cup {None}]
  /\ memo \in [Peers -> Blocks \cup {None}]
  /\ agenda \in Seq(Entries)
  /\ halted \in {"no", "InconsistentHeaderTree", "UnreachableForkPoint", "MissingJournal"}
  /\ S \in Nat
  /\ pending \in [Peers -> Blocks \cup {None}]
  /\ attempted \subseteq Peers
  /\ crashes \in 0 .. MaxCrashes

Init ==
  /\ StoreInit
  /\ running = [p \in Peers |-> None]
  /\ memo = NoMemo
  /\ agenda = <<>>
  /\ halted = "no"
  /\ S = 0
  /\ pending = [p \in Peers |-> None]
  /\ attempted = {}
  /\ crashes = 0

Idle == agenda = <<>> /\ halted = "no"

Plain(op) == Do(op, Self, <<>>)

\* Mutated form of Close: the item ends without the switch.
CloseWithoutSwitch == <<Plain("pass"), Plain("drain")>>

\* How every item but a mined block ends.
Close == <<Plain("pass"), Plain("drain"), Plain("switch")>>

-----------------------------------------------------------------------------
(* Predicates. *)

WindowOpen == Height(tip) < S + MaxReorgDepth

CanExtendAppliedTip(b) ==
  /\ Parent(b) = tip
  /\ WindowOpen
  /\ BestTip # Root
  /\ Height(BestTip) - Height(tip) <= MaxReorgDepth

Binds(b) == b \in headers /\ (b \in best \/ CanExtendAppliedTip(b))

\* The funnel refuses a block that does not link to the applied tip.
ConsensusRefused(b) == Parent(b) # tip \/ b \in InvalidBodies

\* trySwitch and wantedBlocks: the fork height, the highest on both chains
\* above the floor, else the floor or the height below the tip.
SwitchFork ==
  LET common == {h \in 1 .. Height(tip) - 1 :
                   h > ReachFloor /\ Chain[tip][h] \in best}
  IN  IF common # {} THEN Max(common) ELSE Min({ReachFloor, Height(tip) - 1})

\* Mutated form of PrefixHeights: the first block above the fork, whatever its work.
FirstHeightOnly == {SwitchFork + 1}

\* The heights of the shortest heavier prefix: up to the first heavier block
\* of the index, or the whole of it when none is.
PrefixHeights ==
  {h \in 1 .. Height(BestTip) :
     h > SwitchFork /\ \A b \in best : Height(b) \in (SwitchFork + 1) .. (h - 1)
                                       => Work[b] <= Work[tip]}

Prefix == {b \in best : Height(b) \in PrefixHeights}

ExtensionUpper ==
  Min({Height(BestTip), Height(tip) + BlockFetchWindow, S + MaxReorgDepth})

\* The index has an entry at every height above h up to b.
Unbroken(h, b) == \A i \in (h + 1) .. Height(b) : \E c \in best : Height(c) = i

\* Mutated form of Wanted: on a switch too, only what is above the applied tip.
WantedAboveTip ==
  {b \in best : /\ Height(b) \in (Height(tip) + 1) .. ExtensionUpper
                /\ Unbroken(Height(tip), b)} \ staged

\* wantedBlocks(): on the extension the fetch window, on a switch the prefix.
Wanted ==
  IF BestTip = Root \/ Work[BestTip] < MinimumChainWork THEN {}
  ELSE IF tip = Root \/ tip \in best
  THEN {b \in best : /\ Height(b) \in (Height(tip) + 1) .. ExtensionUpper
                     /\ Unbroken(Height(tip), b)} \ staged
  ELSE {b \in Prefix : Unbroken(SwitchFork, b)} \ staged

-----------------------------------------------------------------------------
(* The steps of an item. *)

Now == Head(agenda)
At(op) == halted = "no" /\ agenda # <<>> /\ Now.op = op
Subject == Now.bs[1]

DoInsert ==
  /\ At("insert")
  /\ InsertHeader(Subject)
  /\ Instead(<<>>)
  /\ UNCHANGED <<running, memo, halted, intakeVars>>

DoPut == At("put") /\ PutOnBest(Now.bs) /\ UNCHANGED intakeVars

DoMove == At("move") /\ MoveBestTo(Subject) /\ UNCHANGED intakeVars

DoUnstage ==
  /\ At("unstage")
  /\ UnstageBlock(Subject)
  /\ Instead(<<>>)
  /\ UNCHANGED <<running, memo, halted, intakeVars>>

DoPrune == At("prune") /\ PruneHeaderTree /\ UNCHANGED intakeVars

DoRechooseAfterApply ==
  At("rechooseafter") /\ RechooseAfterApply /\ UNCHANGED intakeVars

\* markRefused, one commit at a time.
DoMark ==
  /\ At("mark")
  /\ InsertRefusedHeader(Subject)
  /\ Instead(<<>>)
  /\ UNCHANGED <<running, memo, halted, intakeVars>>

DoRemove ==
  /\ At("remove")
  /\ RemoveHeaderSubtree(Subject)
  /\ Instead(<<>>)
  /\ UNCHANGED <<running, memo, halted, intakeVars>>

DoRechoose == At("rechoose") /\ RechooseBestChain /\ UNCHANGED intakeVars

MarkRefused(b) ==
  <<Do("mark", Self, <<b>>), Do("remove", Self, <<b>>), Plain("rechoose")>>

\* bindBlock and stageBlock.  Off the index the block is applied at once; an
\* own block that binds goes on to extension and the pass, any other ends.
DoBind ==
  /\ At("bind")
  /\ LET b == Subject
         own == Now.by = Self
     IN  \/ /\ Binds(b)
            /\ StageBlock(b)
            /\ Instead((IF b \in best THEN <<>> ELSE <<Do("inhand", Self, <<b>>)>>)
                       \o (IF own THEN <<Plain("drain"), Plain("pass"), Plain("drain")>>
                           ELSE <<>>))
         \/ /\ ~Binds(b) \/ (b \in ForgedBodies /\ ~own)
            /\ Instead(<<>>)
            /\ UNCHANGED storeVars
  /\ UNCHANGED <<running, memo, halted, intakeVars>>

\* Mutated form of ApplyStagedBlock: an aborted block stays staged.
ApplyKeepingAborted(b, next) ==
  /\ \/ /\ ~ConsensusRefused(b)
        /\ CommitBlock(b)
        /\ Instead(<<Do("unstage", Self, <<b>>), Plain("prune")>> \o next)
     \/ /\ ConsensusRefused(b)
        /\ Instead(MarkRefused(b))
        /\ UNCHANGED storeVars
     \/ /\ b \in AbortingBodies
        /\ Instead(<<>>)
        /\ UNCHANGED storeVars
  /\ UNCHANGED <<running, memo, halted, intakeVars>>

\* applyStagedBlockAtHeight; next is what an applied block is followed by.
ApplyStagedBlock(b, next) ==
  /\ \/ /\ ~ConsensusRefused(b)
        /\ CommitBlock(b)
        /\ Instead(<<Do("unstage", Self, <<b>>), Plain("prune")>> \o next)
     \/ /\ ConsensusRefused(b)
        /\ Instead(MarkRefused(b))
        /\ UNCHANGED storeVars
     \/ /\ b \in AbortingBodies
        /\ Instead(<<Do("unstage", Self, <<b>>)>>)
        /\ UNCHANGED storeVars
  /\ UNCHANGED <<running, memo, halted, intakeVars>>

DoExtend == At("extend") /\ ApplyStagedBlock(Subject, <<Plain("drain")>>)

DoInHand == At("inhand") /\ ApplyStagedBlock(Subject, <<Plain("rechooseafter")>>)

\* drainExtension's next block: the staged child height of an applied tip
\* that is on the index, while the window is open.
NextToExtend ==
  {b \in best \cap staged : /\ Height(b) = Height(tip) + 1
                            /\ Height(b) <= Height(BestTip)
                            /\ tip = Root \/ tip \in best
                            /\ WindowOpen}

DoDrain ==
  /\ At("drain")
  /\ \/ \E b \in NextToExtend : Instead(<<Do("extend", Self, <<b>>)>>)
     \/ NextToExtend = {} /\ Instead(<<>>)
  /\ UNCHANGED <<storeVars, running, memo, halted, intakeVars>>

-----------------------------------------------------------------------------
(* The switch. *)

NoSwitchDue == BestTip = Root \/ tip = Root \/ tip \in best

SwitchReachable ==
  \/ SwitchFork > 0 /\ Chain[tip][SwitchFork] \in best
  \/ SwitchFork = 0 /\ ReachFloor = 0

PrefixReadable ==
  /\ tip \in headers
  /\ \A h \in PrefixHeights : \E b \in best \cap headers : Height(b) = h

ForkNode == IF SwitchFork = 0 THEN Root ELSE Chain[tip][SwitchFork]

\* Inside the transaction each block must link to the one applied before it.
ReorgRefused(b) ==
  \/ Parent(b) \notin Prefix \cup {ForkNode}
  \/ b \in InvalidBodies

\* The blocks of the prefix the funnel reaches: all below them applied.
ReorgReaches == {b \in Prefix : \A c \in Prefix : Height(c) < Height(b) => ~ReorgRefused(c)}

\* Where a reorg that applies the whole prefix leaves the applied tip.
ReorgTips ==
  IF Prefix = {} THEN {ForkNode}
  ELSE {b \in Prefix : \A c \in Prefix : Height(c) <= Height(b)}

\* The corruption errors of the switch, in the order the code meets them.
SwitchErrors ==
  IF ~SwitchReachable THEN {"UnreachableForkPoint"}
  ELSE IF ~PrefixReadable THEN {"InconsistentHeaderTree"}
  ELSE IF /\ Prefix \subseteq staged
          /\ ~((SwitchFork + 1) .. Height(tip) \subseteq journals)
  THEN {"MissingJournal"}
  ELSE {}

\* reorg, all or nothing: committed whole, or rolled back by the first block
\* the funnel does not apply.
Reorg ==
  \/ /\ \A b \in Prefix : ~ReorgRefused(b)
     /\ \E b \in ReorgTips : CommitReorg(SwitchFork, Prefix, b)
     /\ Instead(<<Plain("drain")>>)
  \/ \E b \in ReorgReaches :
       /\ ReorgRefused(b)
       /\ Instead(MarkRefused(b))
       /\ UNCHANGED storeVars
  \/ \E b \in ReorgReaches \cap AbortingBodies :
       /\ Instead(<<Do("unstage", Self, <<b>>)>>)
       /\ UNCHANGED storeVars

TrySwitch ==
  \/ /\ NoSwitchDue \/ (SwitchErrors = {} /\ ~(Prefix \subseteq staged))
     /\ Instead(<<>>)
     /\ UNCHANGED <<storeVars, halted>>
  \/ /\ ~NoSwitchDue
     /\ \E error \in SwitchErrors : Halt(error)
     /\ UNCHANGED storeVars
  \/ /\ ~NoSwitchDue /\ SwitchErrors = {} /\ Prefix \subseteq staged
     /\ Reorg
     /\ UNCHANGED halted

DoSwitch ==
  At("switch") /\ TrySwitch /\ UNCHANGED <<running, memo, intakeVars>>

-----------------------------------------------------------------------------
(* Gossiped blocks and the pending pass. *)

Bind(p, b) == <<Do("bind", p, <<b>>)>>

\* gossipedBody, over the pending map pend.
GossipedBody(p, b, pend, rest) ==
  \/ b \in headers /\ agenda' = Bind(p, b) \o rest /\ pending' = pend
  \/ OrphanHeader(b) /\ agenda' = rest /\ pending' = [pend EXCEPT ![p] = b]
  \/ RefusableHeader(b) /\ agenda' = rest /\ pending' = pend
  \/ /\ VerifiableHeader(b)
     /\ LET stores == StoreHeader(b, CanExtendAppliedTip(b))
        IN  agenda' = IF stores = <<>> THEN rest ELSE stores \o Bind(p, b) \o rest
     /\ pending' = pend

PassCandidates ==
  {p \in Peers \ attempted : pending[p] # None /\ Parent(pending[p]) \in headers}

DoPass ==
  /\ At("pass")
  /\ \/ \E p \in PassCandidates :
          /\ attempted' = attempted \cup {p}
          /\ GossipedBody(p, pending[p], [pending EXCEPT ![p] = None], agenda)
     \/ /\ PassCandidates = {}
        /\ attempted' = {}
        /\ Instead(<<>>)
        /\ UNCHANGED pending
  /\ UNCHANGED <<storeVars, running, memo, halted, S, crashes>>

Step ==
  \/ DoInsert \/ DoPut \/ DoMove \/ DoUnstage \/ DoPrune \/ DoRechooseAfterApply
  \/ DoMark \/ DoRemove \/ DoRechoose \/ DoBind \/ DoExtend \/ DoInHand
  \/ DoDrain \/ DoSwitch \/ DoPass

-----------------------------------------------------------------------------
(* The items. *)

DeliverHeaders(p, claim, page) ==
  /\ Idle
  /\ AdmitPage(p, claim, page, Close)
  /\ UNCHANGED intakeVars

DeliverBlocks(p, blocks) ==
  /\ Idle
  /\ agenda' = [i \in 1 .. Len(blocks) |-> Do("bind", p, <<blocks[i]>>)] \o Close
  /\ UNCHANGED <<storeVars, running, memo, halted, intakeVars>>

DeliverGossipedBlock(p, b) ==
  /\ Idle
  /\ GossipedBody(p, b, pending, Close)
  /\ UNCHANGED <<storeVars, running, memo, halted, S, attempted, crashes>>

\* A template is built on the applied tip and voided when it moves.  A refused
\* header ends the item with nothing changed.
DeliverMinedBlock(b) ==
  /\ Idle
  /\ Parent(b) = tip
  /\ \/ b \in headers /\ agenda' = Bind(Self, b)
     \/ /\ VerifiableHeader(b)
        /\ agenda' = StoreHeader(b, CanExtendAppliedTip(b)) \o Bind(Self, b)
  /\ UNCHANGED <<storeVars, running, memo, halted, intakeVars>>

GateHeld ==
  /\ Idle
  /\ S' = Height(BestTip)
  /\ agenda' = IF S' > S THEN Close ELSE <<>>
  /\ UNCHANGED <<storeVars, running, memo, halted, pending, attempted, crashes>>

PeerDisconnected(p) ==
  /\ Idle
  /\ running' = [running EXCEPT ![p] = None]
  /\ memo' = [memo EXCEPT ![p] = None]
  /\ pending' = [pending EXCEPT ![p] = None]
  /\ UNCHANGED <<storeVars, agenda, halted, S, attempted, crashes>>

\* What a new process starts with: the store, and nothing else.
LoseMemory ==
  /\ running' = [p \in Peers |-> None]
  /\ memo' = NoMemo
  /\ agenda' = <<>>
  /\ halted' = "no"
  /\ S' = 0
  /\ pending' = [p \in Peers |-> None]
  /\ attempted' = {}
  /\ UNCHANGED storeVars

Crash ==
  /\ halted = "no" /\ crashes < MaxCrashes
  /\ crashes' = crashes + 1
  /\ LoseMemory

\* The operator starts the process again after a fail-stop.
Restart ==
  /\ halted # "no"
  /\ LoseMemory
  /\ UNCHANGED crashes

Deliver(p) ==
  \/ \E input \in PageInputs : DeliverHeaders(p, input[1], input[2])
  \/ \E blocks \in AnswerInputs : DeliverBlocks(p, blocks)
  \/ \E b \in GossipInputs : DeliverGossipedBlock(p, b)
  \/ PeerDisconnected(p)

Next ==
  \/ Step
  \/ \E p \in Peers : Deliver(p)
  \/ \E b \in MinedInputs : DeliverMinedBlock(b)
  \/ GateHeld
  \/ Crash
  \/ Restart

Spec == Init /\ [][Next]_vars

-----------------------------------------------------------------------------
(* Properties. *)

\* The index is always one chain of stored headers, each entry the child of
\* the one below it, between any two commits (rewriteBestChain's callers).
BestIsOneChain == best \subseteq headers /\ best = Path(BestTip)

\* Between items the best chain holds the applied tip or is strictly heavier
\* than it: it leaves the applied chain only while heavier.
BestNotLighter == Idle => NoSwitchDue \/ Work[BestTip] > Work[tip]

\* Between items the best chain forks from the applied chain at or above the
\* reach floor, so the switch's walk always finds its fork point.
BestStaysReachable == Idle => NoSwitchDue \/ SwitchReachable

\* Between items no stored header heavier than the best tip is reachable.
NoHeavierInReach ==
  Idle => \A t \in HeadersHeavierThan(Work[BestTip]) : ~ReachableFromApplied(t)

\* The best chain is the heaviest the node could switch to: no re-choice, prune
\* or mark leaves it out of reach or behind a better row.
BestIsHeaviest == BestStaysReachable /\ NoHeavierInReach

\* Every applied header stays a row of the tree, whatever is pruned below
\* the floor or removed under a mark.
AppliedRowsKept == Path(tip) \subseteq headers

\* Between items no header at or above a marked one is in the tree.
MarkedStayOut == Idle => \A b \in refused : \A d \in headers : b \notin Path(d)

\* The process stands between two items and no kill has cut one short: after
\* a kill, what the tail of the lost item would have done waits for the next.
BetweenWholeItems == Idle /\ crashes = 0

\* A staged body has its header in the tree: what prunes, removes or rewrites
\* headers takes the bodies under them in the same commit.
StagedHasHeader == staged \subseteq headers

\* No walk or revert meets a state the code calls corruption.
NeverHalts == halted = "no"

\* Every block a switch may revert, down to the reach floor, has its journal.
RevertsCovered == (ReachFloor + 1) .. Height(tip) \subseteq journals

\* A memo entry tells net not to ask a peer again: its claim is no heavier
\* than the best tip.
MemoSound == Idle => \A p \in Peers : memo[p] # None => Work[memo[p]] <= Work[BestTip]

\* A node between items that is not at its best tip waits for a block it
\* names, or for the gate to open the window: it never holds all it needs
\* and stays.
NeverStuck ==
  BetweenWholeItems /\ tip # BestTip =>
    \/ Wanted # {}
    \/ Work[BestTip] < MinimumChainWork
    \/ tip \in best \cup {Root} /\ ~WindowOpen

\* Between items no switch whose whole prefix is staged is left undone.
SwitchesOnceStaged == BetweenWholeItems => NoSwitchDue \/ ~(Prefix \subseteq staged)

\* A step that moves the applied tip moves it to more work.
TipGainsWork == [][tip' # tip => Work[tip'] > Work[tip]]_vars
=============================================================================
