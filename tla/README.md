# Notis: specification, checks and proofs

Notis (`@dagsocial/*`) is a proof-of-work chain that carries a social network's
posts, likes, vouches and karma. This directory specifies the parts that carry
its own logic: how a node decides, from headers and blocks that peers deliver in
any order, which chain is best and moves its ledger to it; how it decides whom to
ask for what; what a block does to karma and credits; how the state tree and its
journal follow; the pool and the template; and, on the other side, the browser
client that holds a chain without applying it, and its wallet.

Lines below refer to `src/` at the commit the project was written against.

## 1. The system

| Part | State it keeps | Operations | What makes it correct |
|---|---|---|---|
| Header tree (`node/store/header-tree.ts`, `refused-headers.ts`) | `block_headers`, `best_chain`, `staged_blocks`, `refused_headers` | insert, rewrite the index, remove a subtree, prune, stage, unstage, mark | the index is one chain; no body without its header |
| Journals (`node/store/journal.ts`) | one undo record per applied height | insert, delete, purge | every block a switch may revert has one, and its undo is exact |
| Header pipeline (`node/services/header-pipeline.ts`) | per peer a running branch and a memo | admit a header, admit a page (score, then store), choose again after an apply or a mark, prune, locator | the best chain is the heaviest one in reach; a memo never hides a heavier claim |
| Intake (`node/services/intake.ts`) | the window `S`, a pending block per peer | deliver headers, blocks, a gossiped or mined block; gate hold; disconnect | the applied tip follows the best chain, gains work at every move, never gets stuck |
| Switch and apply funnel (`fork-resolution.ts`, `block-apply.ts`) | the applied chain and the ledger | apply a block, revert, reorg | all or nothing |
| Net (`net/sync-machine.ts`, `node.ts`) | claims, open runs, stall marks, omission memory, the gate | header runs, block runs, gate evaluation, serving | an honest peer is asked until its chain is held; never penalised |
| Consensus (`packages/consensus`) | boxes, records, counters | apply a body, settle | conservation; counters equal what they count |
| State tree (`node/state`, `tree-writes.ts`) | node rows with lifetimes, versions, the prover, recent roots | checkpoint, rollback, prune, prove, speculate | the tree is the ledger's; nothing kept too short or too long |
| Mempool and block creator | pool entries, the template and its claim | admit, displace, expire, follow a block, return, build, submit, sweep | the pool applies as a whole; a template is a block the node applies |
| Mesh client (`web/src/mesh`) | node list, held chain, kept verdicts, timers | check, gossip, dial, edit by hand | it ends on the heaviest chain; no honest node is blacklisted |
| Wallet (`web/src/wallet`, parts of `app.ts`) | waiting writes and their base, pending entries, a lock | press, sign, send, send pass, reconcile | no box offered twice; whatever waits ends, and truthfully |
| Routes, codecs, views, tools | their own | | I/O and presentation, not modelled |

Net hands the node pages and blocks through `setPipeline` and reads it through
the chain view (`locatorFor`, `knowsTip`, `wantedBlocks`, `gateHeld`). The node
is single threaded; `wireNet` runs each delivery as an *item*, to its end. An item
may apply blocks: the funnel calls `applyBlock` of consensus on an overlay, writes
the effects with their journal, checkpoints the tree and lets the pool follow. The
miner's template reads the pool and the prover. The browser client reads nodes over
HTTP or mesh streams; its wallet writes to them. What is hard lies between steps and
inside them:

* items of different peers interleave, so what a running branch remembers (the
  best tip it was scored against, the height it has stored up to, that it has
  switched) may be stale at its next page;
* an item makes several SQLite commits, and a kill may fall between any two;
* marks, prunes and purges remove what other state refers to;
* a switch may fail at any of its blocks and must leave everything as it was, and
  what SQLite does not roll back (prover, kept roots, template) is put back by hand;
* progress needs the wanted set, the window and the gate to agree;
* net's runs, the mesh client's check and the wallet's flows are coroutines: while
  one waits, its peer, its list or its store may change;
* counters are moved by increments and amounts divided with remainders, in several
  places of one block.

`PROJECT.json` lists the hazards one by one, each with its line.

## 2. The modules

```
HeaderTree  <-  ChainStore  <-  HeaderPipeline  <-  Intake  <-  Convergence
   |                                                  |  \           \
   |                                         IntakeProofs  MCIntake  <-  MCConvergence
   +---- HeldChain --+
                     +--  MeshClient  <-  MCMeshClient
Lists <- NodeList  --+        |
  |                     MeshProofs -> SumProofs
  +---  Wallet  <-  MCWallet
           |
      WalletProofs -> SumProofs

Sums  <-  KarmaLedger  <-  CreditLedger  <-  MCLedger
  |                             |
  |                       KarmaInvariant
  |                             |
  +--  SumProofs  <---  LedgerProofs

AppliedChain  <==  StateTree  <-  MCStateTree        (refinement)
                       |
                StateTreeProofs

SyncMachine <- MCSync      Mempool <- MCMempool
     |                        |
SyncProofs -> SumProofs <- MempoolProofs
```

**HeaderTree.** The tree of all blocks anyone can show the node, as constants:
`Chain[b]` is the path to `b`, `Work[b]` its cumulative work. A header commits to
its parent's hash, so a hash stands for its path and the model needs no hashing.
Five constant sets say what checks outside the model answer: `BadHeaders` and
`EarlyHeaders` for `verifyHeaderChain` (refused for good; perhaps refused by this
node's clock), `ForgedBodies` for the bindings of `bindBlock`, `InvalidBodies` and
`AbortingBodies` for the funnel (class `consensus`; classes `acceptance`, `local`).
An early header and an aborting body are refused or not at each attempt.

**ChainStore.** The durable state, one variable per table, and one operator per
transaction. `best_chain` is the set of its hashes: a row's height is always its
header's own, since the apply link and `prev_hash` fix both. `ordering_blocks` is
the one variable `tip`, because the funnel refuses a block that does not link to
the applied tip. `journals` is the set of journaled heights.

**HeaderPipeline.** `admitHeader` is the three predicates `OrphanHeader`,
`RefusableHeader`, `VerifiableHeader` and `StoreHeader`. `admitPage` is `AdmitPage`:
held headers skipped (`Fresh`), the page's branch found (`Continues`, `Grounded`),
refusals (an unlinked page, `Linked`, among them), pass 1 (`Scored`, `WinFirstPage`, `WinLaterPage`, `NotWon`) and pass 2
(`OffRecord`, `StorePass2Page`). `MoveBestTo` is `branchToBestChain` followed by
`rewriteBestChain`; a missing row on its walk stops the process, as the code does.
`RechooseAfterApply` and `RechooseBestChain` are the two re-choices.
`LocatorFor` and `ServeHeaders` are what a header run exchanges; the cap
`MAX_LOCATOR_HASHES` is above any locator of these heights and is left out.

**Intake.** An item starts on an empty `agenda` and its commits are the agenda's
entries, in the code's order, so a crash can fall between any two of them while
nothing else can. An entry that depends on what earlier entries did (extension,
the switch, the pending pass, a re-choice) reads the store when its turn comes.
`Close` is the tail of every item but a mined block's. `Crash` keeps the store and
loses the rest; `Restart` is the operator's start after a fail-stop (`halted`).
The order in which the pending map is walked is left open.

**Convergence.** The intake with one honest peer: header runs ask it for the page
above the node's locator while its claim is not known, block runs for the wanted
blocks its claim covers. Other peers deliver anything.

**SyncMachine.** The scheduler of `net/sync-machine.ts`, over a chain view cut down
to what it can tell apart: one chain of headers `1..Top`, the node's best and
applied heights, what is staged and the window. All fields are one record `m`,
because a handler is a chain of calls (`recomputePhase`, `evaluateGate`,
`kickBlockPump`, `markPeer`) each of which reads what the one before left; every
operator takes the record and returns it, and an action is one such chain.

The actions follow JavaScript's scheduling. A run (`hRun[p]`, `bRun[p]`) is `asked`
while its request is on the wire. The intake is synchronous, so the answer is taken
in the step that receives it; the run is then `judged` and goes on some microtasks
later. In between the event loop may turn (`Dispatch`, `TimerTick`) and other runs may
go on, but nothing from the network comes (`Quiet`). `openHeaderRuns` and
`openBlockRuns` (`hOpen`, `bOpen`) are kept apart from the runs themselves: a
disconnect empties the lists and cannot stop the coroutines. A penalty may ban, and a
ban takes the peer out of the connected set at once, inside whatever call made it.
Whether an interval or an expiry has passed is left open; the order of `claims`,
which the block pump walks, and of the marks is kept.

Assumed: a closed connection has failed its streams before its peer is connected
again; an honest peer's tip only rises (a tip that falls is penalised `transient`
by contract) and it answers a request with what it has. Left out: the reports this
node sends (`replySyncInfo`, `sendSyncInfo` and their four stamp maps, which nothing
else reads), the setters, and `stop`.

Left out of the modules before it: penalties, `chainMoved`, `needHeaders` (messages to
net, with no effect on the node's state), logs, and `RunningBranch.claimHash`, which is
stored and never read.

**KarmaLedger**, **CreditLedger.** Block application: `BeginBlock` takes the captures
`applyBlock` takes from the state before the body, one action per kind of transaction
takes its guard and effect from `checkTransitions`, and `EndBlock` is the settlement,
the lapse, grant and membership passes and the decay clocks. Karma boxes are amounts,
because an identity holds at most one box of its own and one of income; credit boxes
are a bag. A total is `SumOver` of `Sums`, over boxes or identities. `CreditLedger` adds emission, fees, rent, the backers' pool and the coinbase
split, with the code's divisions. A transaction a block refuses is an action not
enabled: a refused block's overlay leaves no trace. The escrow box keeps no target, as
in the code. Record lengths are abstracted to `Charge` and `MinValue`.

**AppliedChain**, **StateTree.** `AppliedChain` is what the node promises: the ledger is
the replay of the chain from genesis, and the chain changes by one block or by a whole
switch no deeper than the horizon. `StateTree` is how: tables, journals undone last
entry first, node rows with the heights they live from and to, versions, the prover's
root and proof cycle, the ring of recent roots; applies that are refused, switches rolled
back at any block, the speculative root of a template, proofs of a past height, bodies
that arrive late, and a kill at any step. A post's row is pending while its transaction is in
the pool, and the pool is here as far as it decides about rows: `followAppliedBlock`, the last
call of `writeBlockEffects`, and every other way an entry leaves delete the pending rows of all
that leaves, bodies included; a switch returns what it reverted before it applies its branch.
`Txs` are the transactions that are not credit-side: the credit side carries no post and spends
no box of theirs. Which entries are past expiry or ceiling at a block, which a creator evicts or
an arrival displaces, and which the pool refuses to take back are left open. A tree is the rows it commits to; its nodes are
its leaves and a spine that changes with any of them, so that lifetimes are shared and
ended as in a real tree. `Abstract` maps a running apply or switch to the state before it.

**Mempool.** The pool, the template and the chain they follow. A transaction is its
inputs, outputs, class, rate, ceiling, what it refers to and what may be done once;
`spoils` is what a block changes besides boxes that invalidates a pooled transaction;
`makes` are the boxes of its settlement, which no transaction can make again once a switch
has reverted it. `Selection` draws the entries one by one in the order of the two classes.
`Build` is one attempt of `createOrderingBlock` (selection, screen, eviction of what the
screen refuses), `SubmitApplied` and `Sweep` the two halves of `submitMinedBlock` between
which the applied block has already been followed, `StartSwitch` to `EndSwitch` a switch
with its re-insertion. `dropped` is history: what a switch reverted and could not put back,
or put back and displaced again. A switch rolled back whole is `StateTree`'s subject.

**HeldChain**, **NodeList**, **MeshClient.** `HeldChain` is the window of headers a client
holds and what it answers of a hash, on the same `HeaderTree` constants; `OffSchedule` are the
headers whose target is not the scheduled one, which gossip refuses without a lie and only while
the parent is held; `NodeList` the
statuses. `MeshClient` is the check, each action the code between two suspensions, with
links, gossip, discovery, the reader's edits, faults and timers around it. Honest nodes
answer with their own tip, which may move; the others with anything. An API host may lie
in an honest key's name. A read waits while its link's handshake runs. What the code does in a
loop over the tips read is `Each`, and what it filters is `Among`; the honest nodes' own chains
carry their work (`TipAssumption`), since their validation refuses a header without it.

**Wallet.** Two pages of one browser on one identity. `store` is localStorage, a page's
`job` the flow or pass that holds the lock, from its read to its answer. A pass takes its turn
in the page's queue first and reads the chain it sends for (`TakeTurn`, `passChain`); it has the
lock only later (`BeginFlush`), when the tip run may have named another chain. A request may
not reach the node, reach it and lose its answer, or be answered; pages close and open;
the node's blocks confirm; the network may start over on another chain. `ended` and
`clean` are history: what the reader was told, and whether the wallet has known the fate
of each send and of the change of each write refused. Left out: amounts (which boxes a spend selects is open) and the effective
floor, unvouch, a change of identity, a first run with no chain remembered.

Definitions introduced by "Mutated form of" are deliberate faults. No action uses
them; each replaces one definition to show that a property notices.

## 3. What is checked

For fork choice the tree has two chains from the root, `a1 a2 a3` and `b1 b2 b3`, and a
fork `a1 c2 c3`: forks at the root and above it, overtaking, and a branch off a branch.
With `DistinctWork` heights and work disagree, so a shorter chain can be heavier
and a switch may need one block or two.

| Run | Instance | Properties |
|---|---|---|
| `Forks` | 8 blocks, two invalid, horizon 1, whole pages, answers of one or two blocks in either order | `TypeOK`, `BestIsHeaviest` (in reach, and nothing heavier in reach), `MarkedStayOut`, `MemoSound`, `TipGainsWork` |
| `TwoPass` | 6 blocks, pages of one header toward claims, horizon 2 | `BestIsOneChain`, `BestNotLighter`, `NeverHalts` |
| `Faults` | 2 peers, 6 blocks, every class of bad header and body, an unlinked page, a minimum chain work, one crash | `AppliedRowsKept`, `StagedHasHeader`, `RevertsCovered`, `NeverStuck`, `SwitchesOnceStaged` |
| `Converge` | 2 peers, one honest, 5 blocks, one invalid | `Converges` |
| `SyncRaces` | an honest peer and a liar, 2 headers, pages and answers of one, one mark, two reports, one fault, one disconnect, one aborted block, bans | `StateShowsPeers` (type, nothing in flight without its run, open runs show in the phase, a peer gone leaves nothing), `HonestNeverPenalised`, `SyncedIsApplied`, `GateWaits` |
| `SyncCatchUp` | one honest peer, 2 headers, a window of one, two disconnects, two faults, a gossiped orphan | `CatchesUp` |
| `Ledger` | 4 identities, 3 transactions over three or four blocks, from genesis and from a chain of 9 blocks with standing, bonds and backers | `RecordsExact`, `KarmaConserved`, `SpendsWithinEffective`, `LapsedStakesLeave`, `CreditsSound`, `MinerFloorHeld` |
| `StateTree` | a record, two boxes and a post, the transaction that makes it, its withdrawal and a rival for its input, five kinds of block, height 4, horizon 2, history 3 | `StorageExact`, `NeverFailStops`, `BodiesKept`, `RefinesAppliedChain` |
| `Mempool` | 7 transactions in two classes of two, 4 peer blocks, height 2, three rows, expiry after one block | `PoolSound`, `TemplateApplies`, `SweepTakesNothing`, `BuildEnds` |
| `MeshChecks` | 3 keys (an anchor whose API host lies, an honest node, a liar), a fork at height 3, a header without work and one off the schedule, window 2, two events | `HonestKept`, `StatusTellsTip`, `CheckFindsHeaviest`, `ChecksGoOn` |
| `Wallet` | 2 pages, one box, two spends (the second leaves no change), two chains, one event | `ViewSound`, `RefusedRightly`, `WaitingEnds` |

Why the bounds suffice: three heights and a horizon of 1 put every fork point
above, at and below the floor and purge journals; pages of one header make a
branch of three take three pages per pass; two peers are what a pending block, a
stale branch or a race for the memo needs. `MaxCrashes` is 1: the store is all a crash
leaves, and a crash may come at any step, so one meets every store the instance can write.
`BlockFetchWindow` is 3: the window in force is the gate's.

For the scheduler two headers and pages of one give a full page below the claim, a
short page and a page at the claim. Two peers are what moving an id, dropping the
oldest mark (`MaxStallMarks` is 1) and a gate held by another's run need. Two reports
are a claim and its replacement while a page is on the wire, or a claim of each peer.
The liar holds the whole chain from the start. One disconnect, with a ban beside it,
leaves every kind of run behind at every point. `MaxServed`, the blocks that fit one
answer, is the size of a request wherever answers are not cut.

For the ledger the second start state puts a membership, a lapse, a bond's settlement, a
decay and an escrow's return within three blocks, which from genesis would take nine.
Prices and percentages are chosen so that the divisions leave remainders. A behaviour's transactions are of one scope (standing, spending, credits):
what one scope's kinds write is read by the kinds of another only through amounts and
standing, which the start states vary.

`BodiesKept` is stated with its exceptions: a post whose row leaves with its pool entry, and
within one switch a post that was only pending when the switch began. Section 4 says why.

`LapsedStakesLeave` is stated with its exception: a block that took as many lapses as
`MAX_LAPSE_WITHDRAWALS_PER_BLOCK` allows leaves the rest for the next.

For the state tree height 4 and horizon 2 make the prune, the ring's eviction and the
deepest switch all happen; a record written twice in one block and a box inserted and
consumed are what an undo in the wrong order gets wrong. The post can be confirmed, withdrawn,
reverted, and lost to its rival, to an expiry or to an eviction; replies, whose row goes with
their parent's, are in the model and in the proof, and not in this instance. For the pool two entries per
class make displacement and a refused insert, and three rows a rowid that could be used
again; of the three credit transactions one spends another's output and one a box that only
a settlement makes. For the mesh client a window of 2 under a chain of 4 gives each placement, and two
events are a fault and another actor's step. The wallet's invariants were also checked with three
spends of one and of two inputs, of two boxes, on one page and on two; for every number the
theorems of section 5 stand.

Properties that compare two pieces of state hold *between items* (`Idle`), since
an item restores them with its last commits; those a restart relies on
(`AppliedRowsKept`, `StagedHasHeader`, `RevertsCovered`) hold in every state. In `Faults`,
`NeverStuck` and `SwitchesOnceStaged` are claimed while no kill has cut an item short: after
one, nothing names what to do until the next item comes. `StatusTellsTip` and the second
half of `CheckFindsHeaviest` are claimed after a *calm* check, one that no fault and no
other actor disturbed and that compared every chain it read, as long as no earlier check
was cut short or took one tip's proof for another's (`whole`). `ViewSound` and
`RefusedRightly` are claimed while the wallet has known the fate of each send, and no pass cut
short has forgotten a change it stranded (`clean`).
Section 4 says what happens otherwise.

**Refinement.** `RefinesAppliedChain` is `Abstract!Spec` with the chain and ledger a reader
sees. TLC checks that every refused block, rolled-back switch, speculation, proof, late
body and kill is a stutter, and every commit one block or one whole switch.

**Fairness** (`Convergence`). `WF(Step)`: the event loop runs a synchronous item
to its end. The honest peer's answers and the gate are given strong fairness: a
header run re-asks as long as the claim is not known, `handleChainMoved` and every
run's end start the pump again, and other items come between. That is stated as
`[]<>Due => []<><<A>>_vars` with the enabling condition written out. Assumed of the
honest peer: it stays connected and its chain is valid, in time and the heaviest.
Stall marks, which can suspend its runs, are in `SyncMachine` only.

**Fairness** (`SyncMachine`). Microtasks run out before anything else comes: `WF` of a
turn of the loop or a run going on. Nothing keeps another kind of event away for
ever: `SF` of the tick (each turn drains the queue and then looks at the clock), of the
end of a request (its answer or its deadline), of the bootstrap dials, of the reports
of connected peers (every 30 seconds) and of an honest peer's reconnect. The reports
are needed: a connected peer without a claim, or with an unsettled one whose mark has
expired, keeps the node from `synced` until it reports again.

**Fairness** (`Mempool`). `WF` of `Build` and `Sweep`: they are steps of one synchronous
call, which goes on until it returns.

**Fairness** (`Wallet`). The reader answers a prompt and a request ends (`WF` of the job's
next step); an open page reads its corner again and a closed one is opened again; a tip
run names the chain; the browser grants its lock in order and the queue is first in first
out, so a pass gets its turn and then the lock (`SF` of `TakeTurn` or `BeginFlush`); and of the sends of passes some reach the node (`SF`).

## 4. Where the code departs from its contracts

`SplicedIndex` is a run expected to be violated: a late pass-2 page is written over an
index that has moved, and two chains are spliced (`header-pipeline.ts:738`;
`NODE_INTERFACE.md:5291`: the index "is always one chain").

TLC shows the others on the instance or property named, which is not kept as a run. The
passing runs of the same properties are instances where the cause is absent, so they show
that nothing else breaks the property; for the splice, the fail-stop, the rows of the applied
chain and the two properties of work section 5 proves it for every instance.

Fork choice and sync:

| Instance | What it shows |
|---|---|
| `Faults` with `NeverHalts` and the crash | a kill between the commit of a block in hand and its re-choice (`intake.ts:381`) leaves a best chain whose fork point the new floor has passed; the first switch fail-stops at every start (`NODE_INTERFACE.md:1465`: "admission holds every stored header's parent at or above the floor") |
| `Convergence` with one-header pages: a claim is always settled | in pass 2 a full page whose headers the tree holds is answered `taken` without moving the stored tip, so it is asked for again for ever (`header-pipeline.ts:395`; `NET_INTERFACE.md:783`) |
| requests of two blocks and `MaxServed = 1`: a missing block is asked again | blocks cut at the byte bound count as omitted and, with no other covering peer, are asked of nobody while the claim stands (`sync-machine.ts:796`; `NET_INTERFACE.md:1479`: it "asks for the ids still missing in its next request") |
| Equal work everywhere, `InvalidBodies = {a2}`: `BestNotLighter` | the choice after a mark can leave the applied chain for a branch of equal work (`NODE_INTERFACE.md:5267`: "a tie keeps the applied chain") |
| `TwoPass` with `InvalidBodies = {b1}`: `NeverHalts` | a mark removes rows under a running pass 2; its next page stops the process (`header-pipeline.ts:691`) |
| `Forks` with `AbortingBodies = {a2, b3, c3}`: `BestIsHeaviest` | an aborted block in hand leaves a heavier reachable header off the best chain (`intake.ts:299`) |
| `Faults` with every block in `MinedInputs`: `SwitchesOnceStaged` | a mined block's item can complete a switch's prefix and ends without switching (`intake.ts:721`) |
| `SyncRaces` with `MaxNeeds = 1`: `StateShowsPeers` | a gossiped orphan opens a header run and the phase still reads `synced` (`sync-machine.ts:571`) |
| `SyncRaces` without expiries, "a peer once penalised is asked no headers" | ending a refuted run enters `synced`, which clears the mark the run has just set (`sync-machine.ts:865`; `NET_INTERFACE.md:1303`: such a peer is "asked once an expiry") |

Ledger, state tree and pool:

| Where | What it shows |
|---|---|
| `utxo-engine.ts:2484` | a box whose value is above the rent charge by less than the least box value can be collected by no rent transaction: the successor is too small and the box not exhausted (`NODE_INTERFACE.md:1815`, `MINING_INTERFACE.md:50`) |
| `config.ts:402` | a `MAX_PROOF_HISTORY` equal to `maxReorgDepth` is accepted, and the deepest switch then asks for a version the prune has dropped (`NODE_INTERFACE.md:1461`); `StateTree` is checked with one more |
| `mempool.ts:1243`, `posts.ts:243` | a post's pending row leaves with its pool entry and takes the body, also a body the node fetched while the post was confirmed: after a switch has put the transaction back, a block that spends its input, an expiry, an eviction or a displacement deletes it, and a later switch back confirms the post as a placeholder, which only the body puller fills again. The same befalls a post that was pending when a switch began, dropped by one block of the branch and confirmed by a later one. No contract says otherwise; `BodiesKept` leaves both out by name |
| `fork-resolution.ts:182` | a reverted post that cannot be put back keeps a pending row with no pool entry (`NODE_INTERFACE.md:6322`), and a later return may displace an earlier one, so that what spent its outputs returns unfed (`MEMPOOL_INTERFACE.md:846`: "a displaced resident takes its dependents", which had not returned yet); `RowsShadowEntries` and `PoolFed` allow for it by name (`dropped`) |

Mesh client:

* a node of a group verified earlier keeps `ok` after another chain settles (`mesh-client.ts:1670`);
* a lie by gossip does not update `anchorReached`; agreement counts a node whose tip is only
  below the window (`:1495`);
* the last routed read at an API base throws past the catch of mesh errors (`:1711`);
* a key removed by hand in the middle of a check makes it throw (`node-list.ts:501`) and leaves
  verdicts of a chain that was never settled (`MESH_INTERFACE.md:294`);
* a read that fails between a check's end and the next timer starts a second chain of timers;
* a tip extended by gossip while proofs are read can be undone by a lighter winner;
* only the first node at the tip is asked for the incumbent's proof; if it fails, the held
  chain is not compared (`:1542`; `MESH_INTERFACE.md:292`, `:391`);
* nothing compares the tip a proof verifies with the tip the node named (`:1601`).

Wallet:

* a press is sent while writes wait, may spend the change of one not sent yet, and is refused
  (`submit.ts:719`; `WEB_INTERFACE.md:1639`: "a ledger's waiting writes go before every press on it");
* of a write taken whose answer was lost, the view lists the change twice (`waiting.ts:492`); once
  it is confirmed the resend is refused, so it is reported refused and what builds on it ends
  unsent (`flush.ts:85`); a press in between and a later absorb put a spent box back in the base
  (`waiting.ts:359`);
* a page closed between a taken send and its answer leaves the base as it was;
* a pass cut short, by a send with no answer or by its page, forgets what it stranded: the set is
  local to the pass (`flush.ts:60`, left at `:85`), so what spends a refused write's change stays
  waiting, and the next pass sends it to be refused for an input that does not exist
  (`WEB_INTERFACE.md:1735`: "every later waiting write on its ledger that spends its change …
  ends unsent"). Met in the proof of `RefusedRightly`; TLC shows it with `ForgetsStranded` false and two
  boxes: of three writes the first is refused, the second gets no answer, and the third spends the
  change of the first;
* a burn builds from the node's answer alone and may spend a waiting write's box (`submit.ts:587`);
* `keepWaiting` labels a write with the chain named when it is kept, not when it was built (`submit.ts:845`);
* each page writes the whole pending ledger, so pages overwrite each other's entries (`ledger.ts:82`).

Observed, with no contract against it: a post may spend the floor karma, and the decay
clamped to what is left burns less than was owed; the genesis member count counts a
faucet key of the committee twice (`system.ts:306`).

## 5. What is proved

### The intake and the store

For every tree, peer set, horizon, page size and input set that satisfies the
named assumptions (`ChainAssumption`, `WorkAssumption`, `MaxReorgDepthAssumption`,
`InputAssumption`, ... ), which TLC evaluates on every instance:

* `TypeCorrect` (`IntakeProofs`): `Spec => []TypeOK`. `TypeOK` is inductive by
  itself because `Entries` gives each kind of agenda entry the blocks it reads. The
  parts that need an argument are the least and greatest heights the walks take
  (`MinOfNaturals`, `MaxOfNaturals`) and the fork node of a switch.
* `StagedBodiesHaveHeaders` (`IntakeProofs`): `Spec => []StagedHasHeader`.
* `RevertsAlwaysCovered` (`IntakeProofs`): `Spec => []RevertsCovered`. Not inductive:
  nothing in it forbids a gap that a later purge would expose. The strengthening
  is `JournalsUnbroken`: above a journaled height every applied height is journaled,
  and no journal stands above the tip. An apply adds the next height since the funnel
  checks the link; a reorg keeps what is below the fork and adds the rest; a purge
  takes the lowest only.

* `MemoHold` (`IntakeProofs`): `Spec => []MemoSound`. The strengthening `MemoKept` is about
  what is still on the agenda: headers are put on the index only behind the inserts of those not
  stored yet (`PutsStored`), and a removal is followed by a new choice (`ChoosesAfter`), the one
  stretch in which the best tip may be lower than a verdict was reached against. So the index keeps
  its rows, the best tip depends on the index alone (`BestTipKept`), and what moves the index clears
  the memo. That a claim inside a page is no heavier than the page's end needs the page to be linked
  (`LinkedWork`), which `verifyHeaderChain` checks. TLC checked `MemoKept` on the instances of
  `Faults`, `Forks` and `TwoPass` before it was proved.

`StagedBodiesHaveHeaders` and `RevertsAlwaysCovered` rest on `NextCommits`: each step of the node
makes at most one of ten commits, under the guard the code checks before it.

Five properties of the intake, and half of a sixth, fail on some instances, for causes section 4
names. Their theorems
have the absence of the cause as a hypothesis on the behaviour, so they say, for every tree
and every interleaving, that nothing else brings the failure about.

* `OnlyLatePagesSplice`: `Spec /\ []NoLatePages => []BestIsOneChain`. `NoLatePages` forbids the
  cause of `SplicedIndex`: a second-pass page of a branch stored after the node has switched to it. The
  strengthening is `OneChain`: the index is the path to the best tip, and what the
  agenda will put on it is one header whose parent is that tip.
* `NothingElseHalts`, `AppliedRowsStay`, `SwitchFindsFork`: under `[]OnePass` and `ChoicesFollow`
  the process never fail-stops, the applied chain keeps its header rows, and between
  items a best chain leaves the applied chain at or above the reach floor (the first half of
  `BestIsHeaviest`). `OnePass` says no branch is stored by a second pass, `ChoicesFollow` that no
  kill comes between an apply off the index and the choice after it (`intake.ts:381`). The
  invariant is `StoreKept`, with three parts:
  - what the agenda is in the middle of (`Phase`): inserts, then a short plan (a move or a put of
    the index, a block in hand, an extension, the cleaning after an apply, a mark and its removal, a
    choice), then a tail that decides nothing until its turn comes, a switch included;
  - index and applied chain share a block at or above the floor (`Joined`), or one height lower
    while the choice after an off-index apply is due, which raised the floor by one
    (`NearlyJoined`);
  - the rows of the applied chain are held: a prune takes what is below the floor, and a mark
    takes the subtree of a block off the applied chain.
* `BestStaysHeavier` (`BestNotLighter`), `TipOnlyGains` (`TipGainsWork`): these need also that no
  two blocks carry the same work (`NoEqualWork`) and that no kill comes before any choice that is
  due (`ChoicesMade`). The invariant is `Ahead`: the best tip is no lighter than the applied
  tip, or a choice is due. A choice after a mark picks among candidates that include the
  applied tip's chain, so it ends no lighter; with ties excluded a best chain off the
  applied tip is strictly heavier, and the prefix a switch commits ends at the first block
  heavier than the tip it leaves.

`ChoicesFollow` and `ChoicesMade` restrict kills at a few places of an item and nothing else, and
`NoEqualWork` is a condition on the tree. `OnePass` excludes more than the failing instance
needs: in it a mark removes rows under a running second pass. Pass 2 without such a mark is
checked by TLC in `TwoPass` only. Peers, pages, marks, prunes, aborts and restarts are otherwise free.

### The ledger

Six theorems of `LedgerProofs` over `LedgerSpec`, for every supply, price, share, cap, divisor, window,
emission curve, coinbase split and backer table that `KarmaAssumption` and
`CreditAssumption` allow. The bounds of a behaviour (`MaxHeight`, `MaxBody`, `MaxTxs`,
`YoungHeight`) are constants too, so the theorems hold whatever they are. `LedgerSpec` starts at genesis; the run's `MCSpec` differs from it only by a
second start state.

* `RecordsHold`: `RecordsExact`. The counters are moved by increments: a cast adds one to its
  target, a withdrawal takes one, a lapse takes one unless the withdrawal of the same block
  did, a new member counts every vouch it already has, and `memberCount` moves by the
  difference of two comparisons. What makes each increment right is not in `RecordsExact`,
  so it is not inductive. The strengthening is `IInv` of `KarmaInvariant`:
  - `StakesApart`: one live vouch for a voucher and target, and none while the escrow of an
    earlier one waits; without it a withdrawal and a lapse could both count.
  - `VouchersStand`, `SinceBounded`, `Young`, `UnknownStandNot`: a vouch counts by the order
    in which its two ends became members, so a target that joins at this height must find
    that all its vouchers joined earlier. At heights 0 and 1 that holds only because no
    one but the committee has karma yet.
  - `StandingKept`: the body moves only the counts of those it touched and remembers which of
    them were members (`membershipTouched`), which is what the settlement compares with.
  - `MembersCounted`: `memberCount` is that of the state before the body, until its end.
  - `InvitedBonds`, `LapsesTaken`, `BoxesFinite`: what the settlement's grants copy, which
    stakes it takes, and that the sums have a value.

  `IInv` was checked by TLC on the `Ledger` instance before it was proved, with a
  `MaxBody` of 3 too.
* `KarmaHolds`: `KarmaConserved`, inductive together with `IInv`. Each transaction is shown
  to move its price between boxes (`SpendStep`, `VouchStep`, `InviteStep`); the settlement's
  legs are shown one by one to pay what they draw, the like legs through
  `n = d * (n \div d) + n % d` for each author and a sum grouped by identity.
* `SpendsHold`: `SpendsWithinEffective`; `LapsesHold`: `LapsedStakesLeave`.
* `CreditsHold`: `CreditsSound`, that is `CreditsConserved` and `BackersSolvent`. Conserved:
  every rounded share is subtracted from the same sum, so it is enough that none exceeds
  what is left. Solvent: the draw is rounded up (`backerDraw`), so it covers the accrual of
  every unit that stays staked; each release is rounded down, and a sum of quotients is
  at most the quotient of the sum. Beyond types it needs `CreditOK`'s last conjunct, that a
  network without backers has nothing staked.
* `MinerFloorHolds`: `MinerFloorHeld`. The four percentages sum to 100, the treasury and
  bonus shares are rounded down, the backers' draw passes its percentage by less than one
  unit, and the floor is rounded down, so that unit is there.

Assumed of the constants beyond their ranges: `IsFiniteSet(Ids)`, a committee whose genesis
karma is within the supply, percentages that sum to 100, and a finite table of backers with
positive weights (`types/src/utxo.ts:892`).

These rest on `SumProofs`: sums over finite sets (splitting, pointwise sums, one changed
value, disjoint unions, grouping by key, monotony, scaling), proved from the community
module's recursion. Induction over the set is replaced by its least counterexample: a family
of subsets of a finite set has a member with no other inside it (`SmallestSubset`).

### The state tree

For every set of records, boxes and posts, every table of transactions, every menu of block
effects, every horizon, history and proof window that `HistoryAssumption`, `TxAssumption` (a transaction
spends something; a post is one transaction's) and `MenuAssumption` (a block has its transactions'
posts and spends their inputs) allow. The recursive functions
of `StateTree` (the mutations of a body, the undo of journal rows, the ring's eviction, a
speculation's deletes) are given values first: `Upto` and `Recursion` turn "defined on
`0 .. n` from its predecessor" into an equation, with the least counterexample in place of
induction.

* `Refines` (`StateTreeProofs`): `Spec => RefinesAppliedChain`. `StepImplements` maps each
  action to a commit of one block, of one switch, or a stutter. It rests on three facts:
  a block's writes give the ledger that its effects give (`WriteLedger`); an undo of a journal
  row gives back the ledger below it, from *any* tables with that ledger, because a missing
  body may arrive in between (`UndoExact`); a prefix of the applied blocks replays to a prefix of
  the ledgers (`ReplayPrefix`). The invariant is `IInv`: `Sound` (the tables and the journal are
  a replay of the chain) of the database, of the one saved before a block and of the one saved
  before a switch, with what each pc says of which of them is current.
* `StorageHolds` (`StateTreeProofs`): `StorageExact`, the tree is the tables' and every kept
  version reads back. The rows of `avl_nodes` are lifetimes, and a version is read from the rows
  alive at its height, so the invariant `Stored` is about lifetimes: rows of one label live at
  different times (`Lifetimes`), and at each kept height the labels alive are those of its tree
  (`Holds`). An update, a prune and the deletes of a revert each keep both (`RowsUpdated`,
  `RowsPruned`, `RowsDeleted`); at most one open row per label follows (`OneOpen`). The kept
  versions are a range that ends at the tip, and the proof ring is an interval of them (`RingKept`).
* `NeverStops` (`StateTreeProofs`): `MaxProofHistory > MaxReorgDepth => (Spec => []NeverFailStops)`.
  The hypothesis is the constants', not the code's: `config.ts:402` accepts equality, and
  section 4 shows what follows. Under it every journalled block has the version below it
  (`Linked`), a switch's target among them, through the reverts.
* `BodiesHold` (`StateTreeProofs`): `Spec => BodiesKept`. A withdrawn post records the height that
  withdrew it, which is the height of the journal row that will give its body back (`Bodied`), so
  the rows of two heights never hold one post. The rest is about the switch, because what it drops
  and confirms again in one commit would be a body lost in one step. What leaves the pool for a spent
  box is `Dead`: one of its inputs is spent on this chain, or it needs a transaction that is dead
  (`LeavingDead`). Dead stays dead as the chain grows (`DeadStays`), and no funded block has a
  dead transaction (`DeadNever`). So a post a switch began with has its row and body at every later
  block of it, or is gone and dead (`Survives`), and at the end it is not confirmed without its
  body. That no entry a switch returned can be past its expiry or ceiling within the switch is the
  screen of `fork-resolution.ts:311`; the proof needs it (`Expirable`).

The strengthening `SInv` (`Intact` for each database, `ProverInv`, `SavedInv`) was checked by TLC on
the `StateTree` instance with a history of 3 and of 2 before it was proved, and so was `BInv`, the
invariant of `BodiesHold` (393,323 states).

### The mempool

For every table of transactions, menu of peer blocks, cap, expiry, budget, horizon and choice of
trims that `CapAssumption`, `TxAssumption` (a transaction spends something; its id is in the ids
of its boxes and of its post) and `BlockAssumption` (a settlement's boxes are its own) allow.

* `PoolHolds`: `PoolSound`. What entries spend is unspent as long as no spender can come back on
  the chain, and that depends on the chain: `ChainSound` says that what a block spends was made
  before it or in it, that no body spends what an earlier block spent, and that a body has a
  transaction once. From the genesis and id assumptions follows `MakerSpends`: the maker of a spent
  output is itself on the chain. `BackSound` says the same of the transactions a switch has still to
  put back, as if they were in the pool. The three ways the tables change are a lemma each: entries
  leave with whatever depends on them (`TrimSound`: a closure takes every entry fed by it), entries
  are followed out of a block (`FollowedSound`), one enters (`EnteredSound`, `InsertTables`, with
  the displacement).
* `TemplateHolds`: `TemplateApplies`, from `TemplateSound` and from the clearing of the template in
  every action that moves the tip.
* `SweepHolds`: `SweepTakesNothing`. The rows of a template that are still in the pool belong to
  its transactions, a row is used once, and following the mined block removed all of them
  (`SweepSound`). It needs of the selection that it offers every entry once (`SelectionIs`).

`IInv` was checked by TLC on the `Mempool` instance, and on one with a credit cap of one and
peer blocks that carry three transactions, before it was proved.

### The scheduler

For every finite set of peers, any of them liars, every chain length, page size, serve budget,
number of marks, reorg depth, set of false claims, start of the tips, and however many reports,
faults, drops and aborts (`PeerAssumption`, `ClaimAssumption`, `SizeAssumption`, ...).
`NoneAssumption` says only that `None` is none of the values it stands in for.

* `SchedulerHolds`: `TypeOK`, `NothingHungUp` and `GoneLeavesNothing`, three of the four parts of
  `StateShowsPeers`.
* `ShowsHold`: `MaxNeeds = 0 => (Spec => []StateShowsPeers)`, that is with `OpenRunsShow` too. The
  hypothesis is that the intake never asks for headers of its own accord; when it does, a run
  opens without a look at the phase (section 4), so the theorem cannot do without it. The other
  four do not have it.
* `HonestHold`: `HonestNeverPenalised`; `SyncedHolds`: `SyncedIsApplied`; `GateHold`: the action
  property `GateWaits`.

A handler is a composition of the machine's methods, applied to a record that is between
invariants while it runs, so the inductive invariant `IInv` has two layers. `Sound` holds of every
record inside a handler; `Shown` is lost by its first assignment and restored by its tail.

* `Sound` says, beyond types: what is open or in flight has a live run (`Runs`); a closed connection
  is either still to be told to the loop, or nothing is kept of it (`Left`), which `GoneLeavesNothing`
  does not say while the queue is not empty; a connection is not open and closing, and a block run
  that has its answer is of a peer the host knows, else its omissions would outlive the peer
  (`JudgedKnown`); no peer is twice among the claims or the marks, else removing one mark would
  leave another (`Typed`); everything kept of an honest peer (its claim, the claim held for the
  tick, the claim its run set out with, its queued reports) is a tip it has had, and its taken page
  reaches that claim or was full (`Honest`).
* `Shown` says that synced is applied or that a chain-moved is queued (`Applied`), and that what
  is open shows (`Shows`).

Every method keeps `Sound`. The tails (`RecomputePhase`, `EvaluateGate`, `KickBlockPump` in the
orders the handlers use) are `Steady`: they change only what is requested, marked, windowed or
drained, add only chain-moved events, and leave the phase true (`Tails`). `NotToBlame` is the heart
of `HonestHold`: with its page in the best chain, a claim not reached by a page with room was
not an honest peer's. `GateWaits` is about a whole step, so it is followed through the handler: a
rise inside a tail has every open outbound run marked then (`Waited`); what opens before it is
waited for too (`Grown`), what ended in the step is exempt (`Closed`), and marking a peer, which may
push the oldest mark out, does so before it looks at the gate (`Moved`).
The folds over peers (`Each`) go by the least prefix at which the claim fails.

`IInv` was checked by TLC on the `SyncRaces` instance, and on one with a call for headers and one report,
before the step was proved.

### The mesh client

For every block tree, window, node list, anchor list, set of honest keys and of hosts that lie,
whatever the others may name and prove, and any number of faults, edits and gossiped blocks.
`KeyAssumption` says what is listed and answered is among the keys, `TipAssumption` that an honest
node stands on headers its own validation passes.

* `HonestKeptAlways`: `HonestKept`. A status becomes `blacklisted` in four places: a lie at a read,
  a lie among the answers of a pass (and the same for every node of its group), a verdict kept, a
  gossiped block. Each is shown to name a liar, or a key whose read went to an API base (`Fair`),
  where the lie counts as a failure. The answers wait until the pass is judged, and meanwhile their
  key may leave the list and come back; so the invariant says of every answer got that a lie of an
  honest key came by its host (`Answered`), and the routes stay as they were when the check began
  its reads (`Along`).
* `TipCarriesWorkAlways`: `TipCarriesWork`, the first half of `CheckFindsHeaviest`. The tip moves by
  a fill, a pass or gossip. A fill's headers carry their work above a tip that does (`CleanAbove`), a
  winner is one of the tips proved and a proof is of a path that carries it (`Answered`), a gossiped
  header stands on the tip held (`CleanChild`), whose
  target's schedule the client therefore knows (`TipScheduled`). It is held at every step, also of a check that is
  cut short or interleaved with gossip.
* `ChecksGoOnAlways`: `ChecksGoOn`. The invariant has the stronger `Timed`: a timer is armed or a
  callback waits for its check, whether a check runs or not.

A check is a chain of functions of one client record, each of which may end in the next one, so
the invariant is a predicate of a record (`Well`) kept by all of them, besides what a suspension
needs to go on (`Posed`: a key to ask, a header to look up, an answer outstanding, never an
exception held). From the back, `EndWaiting`, `FinishWaiting`, `ComposeWaiting`, `JudgeWaiting`, ...
to `StartWaiting` say that what a function leaves is well and posed; the loops (`AllPlacedFirst`,
`AllGrouped`, `JudgedAllAlong`, ...) go by the least prefix at which the claim fails. An entry that
has left the list makes an event an exception, which every one of these lemmas carries along.

`IInv` was checked by TLC on the `MeshChecks` instance (941,402 states) before it was proved.

### The wallet

For any number of pages, boxes, chains, spends and inputs of a spend, any transactions the node may
refuse, and however many lost answers, closed pages and burns. `WalletAssumption` says of `NoPage`,
`NoBase` and `NoJob` only that they are none of the values they stand in for.

* `ViewSoundAlways`: `ViewSound`. `RefusedRightlyAlways`: `RefusedRightly`.

The inductive invariant `IInv` has three parts. `Typed` are the types.

* `Placed` holds whatever happens, and is what the lock buys: only the page that holds it has a job,
  so between its read and its answer a pass has exactly the writes that wait, in their order, and a
  flow's transaction is the last one built, which no page waits for or has reported. The writes wait
  in the order they were built.
* `Calm` holds while `clean` does. It says that no box is spent twice by what is taken, waits or is
  being sent (`Disjoint`); that nothing taken spends the change of what is not (`Fresh`); that what
  is still to be taken finds its boxes with the node, or they are the change of a write that waits
  before it, or of one the running pass has ended (`Available`); that nothing which waits is taken
  but the one whose answer is on its way, and nothing ended is either (`Apart`). The base is the
  node's view but for that one (`BaseSound`).
* `Orderly`: what a pass sends next spends nothing stranded.

`View` is a recursion over the writes, and what it gives is proved by the least prefix at which
the claim fails (`ViewIs`): the base and what the writes make, less what they spend, each once. So
a press on it is disjoint from all that is alive. That a pass finds the boxes of its next
write is `Available` with the order of the writes: a box is made by an earlier transaction
(`Numbered`), and all earlier ones have left.

`Available` is where the proof failed first: a pass cut short drops its stranded set, and a write
that spends it is then never available. That is the code's behaviour (section 4); `clean` ends there.

`IInv` was checked by TLC on the `Wallet` instance (148,779 states) and on a larger one (two pages, two
boxes, three spends, one chain and no event: 244,464 states) before it was proved. While `clean`, pages
and passes that wait for the lock name no other chain than the node's (`Named`, in `OneChain`).

### What is only model-checked

Of the intake: that nothing heavier is in reach (the second half of `BestIsHeaviest`), `MarkedStayOut`,
`NeverStuck`, `SwitchesOnceStaged`, and the five properties above where their hypotheses do not
hold, a second pass first of all. `NoHeavierInReach`, `NeverStuck` and `SwitchesOnceStaged` have
counterexamples of their own (section 4), so they stay with the instances where the cause is
absent; `MarkedStayOut` would need that headers are held without a gap from the lowest journal up.
What a calm check finds and tells (`CheckFindsHeaviest` but for its first half, `StatusTellsTip`:
they relate a check to every step since it began). Liveness and fairness (`Converges`, `CatchesUp`,
`BuildEnds`, `WaitingEnds`), out of the prover's reach; the violated run.

## 6. Plan and limits

Next:

1. Theorems: the intake's properties with a second pass that no mark touches; what a calm check
   of the mesh client finds.
2. `SyncMachine` with the intake's fork choice behind its chain view, in place of
   `Convergence`'s environment.
3. Scores, bans and outbound slots; the puller of missing bodies.

Not modelled, and why: HTTP routes, wire codecs, configuration, the views and the extension's
pages, which translate between formats and keep no state another part relies on; the mesh
overlay's signalling and libp2p itself; proof-of-work, retarget and signature arithmetic, whose
answers are the constant sets of `HeaderTree`; AVL balancing and proof bytes; NiPoPoW proof
construction, a pure function of an applied chain; the faucet, the stage scripts and the
end-to-end harness. They are most of the repository's lines, so the modules map to a small
share of it: the share that holds its state machines.
