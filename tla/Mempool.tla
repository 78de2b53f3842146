------------------------------ MODULE Mempool ------------------------------
(***************************************************************************)
(* The pool of pending transactions, the block template built from it, and *)
(* the applied chain both follow.  An entry is admitted against the chain  *)
(* and the pool together, and leaves by confirmation, expiry, a block's    *)
(* spends, the credit class's cap or a rejected body, its dependents with  *)
(* it.  The template claims pool rows; a nonce for it may come back after  *)
(* the pool, the tip or the template itself has moved.                     *)
(*                                                                         *)
(*   chain     the applied blocks                                          *)
(*   pool      the entries: [row, tx, expires]                             *)
(*   nextRow   the next rowid (AUTOINCREMENT: never reused)                *)
(*   pending   the posts with a pending row; a confirmed row is the chain's *)
(*   template  currentTemplate with confirmedRowids, or None               *)
(*   sweep     the rows a mined block still has to sweep                   *)
(*   pc        idle, building a template, sweeping, or switching           *)
(*   dropped   the transactions switches reverted and did not put back, or  *)
(*             displaced while they put others back                        *)
(*   back      the reverted transactions a switch has still to put back    *)
(*   newTip    the height a switch ends at                                 *)
(*                                                                         *)
(* A transaction's validity is its inputs, what its post or like refers to, *)
(* what may be done only once (a like, a name, a vouch, an invite, a        *)
(* withdrawal), its ceiling, and `spoils`: what a block changes besides boxes (karma,   *)
(* standing, cooldowns) that makes a pooled transaction invalid while its  *)
(* inputs still stand.  `makes` are the boxes of a block's settlement (the *)
(* coinbase, a refund, an escrow): no transaction can make them again.     *)
(***************************************************************************)
EXTENDS Integers, FiniteSets, Sequences, SequencesExt, FiniteSetsExt

CONSTANTS
  Tx,             \* transaction -> [ins, outs, class, rate, ceiling, post, parent, likes, once]
  NoPost,         \* no post
  GenesisBoxes,   \* the boxes the chain starts with
  PeerBlocks,     \* the blocks peers may mine: [txs, spends, makes, spoils]
  CreditCap,      \* the credit class's share of maxMempoolEntries
  KarmaCap,       \* the karma class's share
  Expiry,         \* MEMPOOL_EXPIRY_BLOCKS
  BodyBudget,     \* how many transactions the body budget carries
  Trims,          \* how many of them the measured body may lose again
  MaxReorgDepth,  \* the profile's maxReorgDepth
  MaxHeight,      \* bound on the chain's length
  MaxRows         \* bound on rowids

Txs == DOMAIN Tx
Posts == {Tx[t].post : t \in Txs} \ {NoPost}

ASSUME CapAssumption ==
  /\ CreditCap \in Nat /\ KarmaCap \in Nat /\ Expiry \in Nat /\ BodyBudget \in Nat
  /\ Trims \subseteq Nat /\ 0 \in Trims
  /\ MaxReorgDepth \in Nat /\ MaxHeight \in Nat /\ MaxRows \in Nat
  /\ \A t \in Txs : Tx[t].class \in {"credit", "karma"} /\ Tx[t].rate \in Nat /\ Tx[t].ceiling \in Nat

\* A transaction spends something, and its id is in the ids of its boxes and of its post.
ASSUME TxAssumption ==
  /\ \A t \in Txs : Tx[t].ins # {} /\ Tx[t].outs \cap GenesisBoxes = {}
  /\ \A t, u \in Txs :
       t # u => /\ Tx[t].outs \cap Tx[u].outs = {}
                /\ Tx[t].post = NoPost \/ Tx[t].post # Tx[u].post

\* A settlement's boxes are no transaction's.
ASSUME BlockAssumption ==
  \A b \in PeerBlocks :
    /\ b.txs \in Seq(Txs)
    /\ b.makes \cap GenesisBoxes = {} /\ \A t \in Txs : b.makes \cap Tx[t].outs = {}

VARIABLES chain, pool, nextRow, pending, template, sweep, pc, dropped, back, newTip
vars == <<chain, pool, nextRow, pending, template, sweep, pc, dropped, back, newTip>>

None == [none |-> TRUE]
Tip == Len(chain)

-----------------------------------------------------------------------------
(* The chain's side. *)

InsOf(S) == UNION {Tx[t].ins : t \in S}
OutsOf(S) == UNION {Tx[t].outs : t \in S}
PostsOf(S) == {Tx[t].post : t \in S} \ {NoPost}
OnceOf(S) == UNION {Tx[t].once : t \in S}
TxsOf(c) == UNION {ToSet(c[i].txs) : i \in DOMAIN c}
Spent(c) == InsOf(TxsOf(c)) \cup UNION {c[i].spends : i \in DOMAIN c}
Settled(c) == UNION {c[i].makes : i \in DOMAIN c}
Live(c) == (GenesisBoxes \cup OutsOf(TxsOf(c)) \cup Settled(c)) \ Spent(c)
Spoiled(c) == UNION {c[i].spoils : i \in DOMAIN c}
Confirmed(c) == PostsOf(TxsOf(c))

\* A transaction may follow these body entries on this chain.
Applies(c, before, t) ==
  /\ Tx[t].ins \subseteq (Live(c) \cup OutsOf(before)) \ InsOf(before)
  /\ {Tx[t].parent, Tx[t].likes} \ {NoPost} \subseteq Confirmed(c) \cup PostsOf(before)
  /\ Tx[t].once \cap (OnceOf(TxsOf(c)) \cup OnceOf(before)) = {}
  /\ t \notin Spoiled(c)
  /\ Tx[t].ceiling = 0 \/ Tx[t].ceiling > Len(c)

BodyApplies(c, ts) == \A i \in DOMAIN ts : Applies(c, {ts[k] : k \in 1 .. i - 1}, ts[i])

BlockApplies(c, b) ==
  /\ BodyApplies(c, b.txs)
  /\ b.spends \subseteq Live(c) \ InsOf(ToSet(b.txs))
  /\ b.makes \cap Settled(c) = {}

-----------------------------------------------------------------------------
(* The pool's tables: a pool state is [pool, next, pending]. *)

State == [pool |-> pool, next |-> nextRow, pending |-> pending]
Store(s) == pool' = s.pool /\ nextRow' = s.next /\ pending' = s.pending
TxsIn(E) == {e.tx : e \in E}
InClass(E, class) == {e \in E : Tx[e.tx].class = class}
PendingSpends(E) == InsOf(TxsIn(E))
PendingOutputs(E) == OutsOf(TxsIn(E))

\* The entries that spend an output of these or reply to a post of theirs.
Dependents(s, E) ==
  {e \in s.pool :
     \/ Tx[e.tx].ins \cap PendingOutputs(E) # {}
     \/ Tx[e.tx].parent \in PostsOf(TxsIn(E)) /\ Tx[e.tx].post \in s.pending}

\* readClosureInner: the least set that holds these entries and its own dependents.
Closure(s, E) ==
  {e \in s.pool :
     \A S \in SUBSET s.pool : E \subseteq S /\ Dependents(s, S) \subseteq S => e \in S}

\* Entries leave and the pending rows of their posts with them (deletePendingPost).
Without(s, E) == [s EXCEPT !.pool = @ \ E, !.pending = @ \ PostsOf(TxsIn(E))]

removeUnconfirmed(s, E) == Without(s, Closure(s, E))

\* cheapestCreditEntry: the lowest rate, the oldest row among equals.
Cheapest(E) ==
  CHOOSE e \in InClass(E, "credit") :
    \A x \in InClass(E, "credit") :
      \/ Tx[e.tx].rate < Tx[x.tx].rate
      \/ Tx[e.tx].rate = Tx[x.tx].rate /\ e.row <= x.row

Cap(class) == IF class = "karma" THEN KarmaCap ELSE CreditCap
Full(s, t) == Cardinality(InClass(s.pool, Tx[t].class)) >= Cap(Tx[t].class)

\* readCapacityVerdict's displacement: a credit arrival outbids the cheapest resident and
\* spends nothing that would leave with it.
Displaces(s, t) ==
  /\ Tx[t].class = "credit" /\ InClass(s.pool, "credit") # {}
  /\ Tx[t].rate > Tx[Cheapest(s.pool).tx].rate
  /\ Tx[t].ins \cap PendingOutputs(Closure(s, {Cheapest(s.pool)})) = {}

\* insertUtxoTx's refusals: a box with a pending spender, a full class.
MayInsert(s, t) ==
  /\ Tx[t].ins \cap PendingSpends(s.pool) = {}
  /\ Full(s, t) => Displaces(s, t)

\* Mutated form of RowidOf: a freed highest rowid is given out again.
RowidOfReused(s) == Max({e.row : e \in s.pool} \cup {0}) + 1

\* The rowid the next insert takes.
RowidOf(s) == s.next

\* insertUtxoTx past its refusals: the displaced leave, the entry enters.
insertUtxoTx(s, t, expires) ==
  LET room == IF Full(s, t) /\ Displaces(s, t) THEN removeUnconfirmed(s, {Cheapest(s.pool)}) ELSE s
      row == RowidOf(room)
  IN [room EXCEPT !.pool = @ \cup {[row |-> row, tx |-> t, expires |-> expires]},
                  !.next = Max({@, row + 1})]

PastHeight(s, h) ==
  {e \in s.pool : e.expires < h \/ (Tx[e.tx].ceiling # 0 /\ Tx[e.tx].ceiling < h)}

\* Mutated form of SpentBy: only the body's spends are followed, not the settlement's.
SpentByBody(s, b) == {e \in s.pool : Tx[e.tx].ins \cap InsOf(ToSet(b.txs)) # {}}

\* The entries spending a box the block's body or its settlement spent.
SpentBy(s, b) == {e \in s.pool : Tx[e.tx].ins \cap (InsOf(ToSet(b.txs)) \cup b.spends) # {}}

\* followAppliedBlock: confirmed entries leave by transaction, then what the block's
\* spends and its height leave no place for.
Unheld(s, b) == [s EXCEPT !.pool = {e \in @ : e.tx \notin ToSet(b.txs)},
                          !.pending = @ \ PostsOf(ToSet(b.txs))]
followAppliedBlock(b, h) ==
  \E unheld \in {Unheld(State, b)} :
    \E unspent \in {removeUnconfirmed(unheld, SpentBy(unheld, b))} :
      \E left \in {removeUnconfirmed(unspent, PastHeight(unspent, h))} : Store(left)

-----------------------------------------------------------------------------
Init ==
  /\ chain = <<>>
  /\ pool = {} /\ nextRow = 1 /\ pending = {}
  /\ template = None /\ sweep = {} /\ pc = "building" /\ dropped = {}
  /\ back = <<>> /\ newTip = 0

\* A transaction from a client or a peer.  A held one is answered as held; validation
\* reads boxes and parents with the pool's own; the entry and the post's row are written
\* in one transaction, so a row already there refuses both.
Submit(t) ==
  /\ pc = "idle" /\ nextRow <= MaxRows
  /\ t \notin TxsIn(pool)
  /\ Tx[t].ins \subseteq Live(chain) \cup PendingOutputs(pool)
  /\ Tx[t].parent # NoPost => Tx[t].parent \in pending \cup Confirmed(chain)
  /\ Tx[t].likes # NoPost => Tx[t].likes \in Confirmed(chain)
  /\ Tx[t].once \cap (OnceOf(TxsIn(pool)) \cup OnceOf(TxsOf(chain))) = {}
  /\ t \notin Spoiled(chain) /\ (Tx[t].ceiling = 0 \/ Tx[t].ceiling > Tip)
  /\ MayInsert(State, t)
  /\ Tx[t].post \notin pending \cup Confirmed(chain)
  /\ \E s \in {insertUtxoTx(State, t, Tip + 1 + Expiry)} :
       Store([s EXCEPT !.pending = @ \cup PostsOf({t})])
  /\ UNCHANGED <<chain, template, sweep, pc, dropped, back, newTip>>

\* A peer's block applied outside a switch: the template is cleared and built again.
PeerBlock(b) ==
  /\ pc = "idle" /\ Tip < MaxHeight
  /\ BlockApplies(chain, b)
  /\ chain' = Append(chain, b)
  /\ followAppliedBlock(b, Tip + 1)
  /\ template' = None /\ pc' = "building"
  /\ UNCHANGED <<sweep, dropped, back, newTip>>

-----------------------------------------------------------------------------
(* The switch: one item of the intake, its steps taken with nothing between. *)

\* The reverted transactions, the lowest block's first.
ReturnedTxs(fork) == FlattenSeq([i \in 1 .. Tip - fork |-> chain[fork + i].txs])

\* The blocks above the fork are reverted, their posts pending again.
StartSwitch(fork, length) ==
  /\ pc = "idle" /\ fork < Tip /\ fork >= Tip - MaxReorgDepth
  /\ fork + length <= MaxHeight /\ nextRow + Len(ReturnedTxs(fork)) <= MaxRows + 1
  /\ back' = ReturnedTxs(fork) /\ newTip' = fork + length
  /\ chain' = SubSeq(chain, 1, fork)
  /\ pending' = pending \cup PostsOf(ToSet(ReturnedTxs(fork)))
  /\ pc' = "switching"
  /\ UNCHANGED <<pool, nextRow, template, sweep, dropped>>

\* A reverted transaction goes back where its ceiling, the pool and the cap allow, and is
\* dropped where they do not.  It may displace one that went back before it.
Returns(t) == ~ (Tx[t].ceiling # 0 /\ Tx[t].ceiling < newTip) /\ MayInsert(State, t)
ReturnTx ==
  /\ pc = "switching" /\ back # <<>>
  /\ IF Returns(Head(back))
       THEN /\ \E s \in {insertUtxoTx(State, Head(back), newTip + Expiry)} : Store(s)
            /\ dropped' = dropped \cup (TxsIn(pool) \ TxsIn(pool'))
       ELSE /\ dropped' = dropped \cup {Head(back)}
            /\ UNCHANGED <<pool, nextRow, pending>>
  /\ back' = Tail(back)
  /\ UNCHANGED <<chain, template, sweep, pc, newTip>>

\* Each block of the branch is applied and followed.
BranchBlock(b) ==
  /\ pc = "switching" /\ back = <<>> /\ Tip < newTip
  /\ BlockApplies(chain, b)
  /\ chain' = Append(chain, b)
  /\ followAppliedBlock(b, Tip + 1)
  /\ UNCHANGED <<template, sweep, pc, dropped, back, newTip>>

\* Mutated form of EndSwitch: the template outlives the switch.
EndSwitchTemplateKept ==
  /\ pc = "switching" /\ back = <<>> /\ Tip = newTip
  /\ pc' = "idle" /\ newTip' = 0
  /\ UNCHANGED <<chain, pool, nextRow, pending, template, sweep, dropped, back>>

\* The switch is committed: the template is cleared and built again.
EndSwitch ==
  /\ pc = "switching" /\ back = <<>> /\ Tip = newTip
  /\ template' = None /\ pc' = "building" /\ newTip' = 0
  /\ UNCHANGED <<chain, pool, nextRow, pending, sweep, dropped, back>>

-----------------------------------------------------------------------------
(* The template. *)

\* iterateKarmaFifo, then iterateCreditByRate: the karma class by row, then the credit class
\* by rate, the oldest row among equals.
OfferedBefore(e, x) ==
  \/ Tx[e.tx].class = "karma" /\ Tx[x.tx].class = "credit"
  \/ /\ Tx[e.tx].class = Tx[x.tx].class
     /\ \/ Tx[e.tx].class = "credit" /\ Tx[e.tx].rate > Tx[x.tx].rate
        \/ (Tx[e.tx].class = "credit" => Tx[e.tx].rate = Tx[x.tx].rate) /\ e.row < x.row

FirstOffered(E) == CHOOSE e \in E : \A x \in E : e = x \/ OfferedBefore(e, x)

\* The fill passes over an entry that needs what the body does not hold.
Waits(before, t) ==
  \/ ~ Tx[t].ins \subseteq Live(chain) \cup OutsOf(before)
  \/ ~ {Tx[t].parent, Tx[t].likes} \ {NoPost} \subseteq Confirmed(chain) \cup PostsOf(before)

\* One entry offered to the body chosen so far.
Taken(sel, e) ==
  IF Waits(TxsIn(ToSet(sel)), e.tx) \/ Len(sel) >= BodyBudget THEN sel ELSE Append(sel, e)

\* offerBudgetTo: each entry in the order of the offers, until none is left or the budget
\* is spent.  (A singleton set binds a value once.)
Offer(f) ==
  LET e == FirstOffered(f.left) IN [sel |-> Taken(f.sel, e), left |-> f.left \ {e}]
Selection ==
  LET fill[n \in 0 .. Cardinality(pool)] ==
        IF n = 0 THEN [sel |-> <<>>, left |-> pool]
        ELSE CHOOSE to \in {Offer(f) : f \in {fill[n - 1]}} : TRUE
  IN fill[Cardinality(pool)].sel

\* screenBody: the body entries that cannot apply once the refused ones are gone, pass
\* after pass.
ScreenRefused(ts) ==
  LET refusedBy(gone) ==
        {i \in DOMAIN ts : ~ Applies(chain, {ts[k] : k \in (1 .. i - 1) \ gone}, ts[i])}
      pass[n \in 0 .. Len(ts)] ==
        IF n = 0 THEN {} ELSE UNION {gone \cup refusedBy(gone) : gone \in {pass[n - 1]}}
  IN pass[Len(ts)]

\* Mutated form of Evicted: a rejected body loses nothing.
EvictedNone(chosen) == {}

\* The entries a rejected body loses: the refused ones, or all it carried.
Evicted(chosen) ==
  LET refused == ScreenRefused([k \in DOMAIN chosen |-> chosen[k].tx])
  IN IF refused = {} THEN ToSet(chosen) ELSE {chosen[k] : k \in refused}

AfterBuild == IF sweep = {} THEN "idle" ELSE "sweeping"

\* createOrderingBlock, one turn of its loop.  The settlement's size and the measured cost
\* may trim the selection from its end; a body the mutation phase rejects loses its refused
\* rows and the fill runs again.
Build ==
  /\ pc = "building"
  /\ \E full \in {Selection} : \E trim \in Trims \cap 0 .. Len(full) :
       LET chosen == SubSeq(full, 1, Len(full) - trim)
           ts == [k \in DOMAIN chosen |-> chosen[k].tx]
       IN \/ /\ BodyApplies(chain, ts)
             /\ template' = [on |-> chain, txs |-> ts, rows |-> {e.row : e \in ToSet(chosen)}]
             /\ pc' = AfterBuild
             /\ UNCHANGED <<pool, nextRow, pending>>
          \/ /\ ~ BodyApplies(chain, ts)
             /\ \E E \in {Evicted(chosen)} : \E s \in {removeUnconfirmed(State, E)} : Store(s)
             /\ UNCHANGED <<template, pc>>
  /\ UNCHANGED <<chain, sweep, dropped, back, newTip>>

\* A build the settlement or the empty body's own cost declines leaves no template.
Decline ==
  /\ pc = "building"
  /\ template' = None /\ pc' = AfterBuild
  /\ UNCHANGED <<chain, pool, nextRow, pending, sweep, dropped, back, newTip>>

RowsOf(R) == {e \in pool : e.row \in R}
MinedBlock == [txs |-> template.txs, spends |-> {}, makes |-> {}, spoils |-> {}]

\* submitMinedBlock: a nonce that hashes the current template's header (a nonce for one
\* that is gone is refused and changes nothing).  The rows are read before the apply.
SubmitApplied ==
  /\ pc = "idle" /\ template # None /\ Tip < MaxHeight
  /\ BlockApplies(chain, MinedBlock)
  /\ chain' = Append(chain, MinedBlock)
  /\ followAppliedBlock(MinedBlock, Tip + 1)
  /\ sweep' = template.rows
  /\ template' = None /\ pc' = "building"
  /\ UNCHANGED <<dropped, back, newTip>>

\* The intake refused the mined block: the rows it carried leave with their dependents,
\* and the template is built again.
SubmitRefused ==
  /\ pc = "idle" /\ template # None
  /\ \E s \in {removeUnconfirmed(State, RowsOf(template.rows))} : Store(s)
  /\ pc' = "building"
  /\ UNCHANGED <<chain, template, sweep, dropped, back, newTip>>

\* The applied block's rows, read before the apply, are swept after the next build
\* (removeEntry: with the pending row, without dependents).
Sweep ==
  /\ pc = "sweeping"
  /\ \E s \in {Without(State, RowsOf(sweep))} : Store(s)
  /\ sweep' = {} /\ pc' = "idle"
  /\ UNCHANGED <<chain, template, dropped, back, newTip>>

Next ==
  \/ \E t \in Txs : Submit(t)
  \/ \E b \in PeerBlocks : PeerBlock(b)
  \/ \E fork \in 0 .. MaxHeight : \E length \in 1 .. 2 : StartSwitch(fork, length)
  \/ ReturnTx \/ (\E b \in PeerBlocks : BranchBlock(b)) \/ EndSwitch
  \/ Build \/ Decline \/ SubmitApplied \/ SubmitRefused \/ Sweep

\* The build and the sweep are steps of one synchronous call.
Spec == Init /\ [][Next]_vars /\ WF_vars(Build) /\ WF_vars(Sweep)

-----------------------------------------------------------------------------
(* Properties. *)

\* Every variable has its type, and no two entries share a row.
TypeOK ==
  /\ Tip <= MaxHeight /\ nextRow \in 1 .. MaxRows + 1
  /\ pool \subseteq [row : 1 .. nextRow - 1, tx : Txs, expires : 1 .. MaxHeight + 1 + Expiry]
  /\ \A e, x \in pool : e.row = x.row => e = x
  /\ pending \subseteq Posts /\ dropped \subseteq Txs /\ sweep \subseteq 1 .. MaxRows
  /\ pc \in {"idle", "building", "sweeping", "switching"}
  /\ back \in Seq(Txs) /\ newTip \in 0 .. MaxHeight

\* The pool holds a transaction once, no box has two spenders in it, and no entry spends a
\* box the chain has spent, whether a body or a settlement spent it.
PoolUnspent ==
  /\ \A e, x \in pool : e # x => Tx[e.tx].ins \cap Tx[x.tx].ins = {}
  /\ PendingSpends(pool) \cap Spent(chain) = {}

\* What an entry spends exists on the chain or in the pool, unless a switch reverted the
\* transaction that makes it and could not put it back, or the settlement that made it.
SettlementBoxes == UNION {b.makes : b \in PeerBlocks}
PoolFed ==
  PendingSpends(pool)
    \subseteq Live(chain) \cup PendingOutputs(pool) \cup OutsOf(dropped \cup ToSet(back))
             \cup (SettlementBoxes \ Settled(chain))

\* Each class stays within its cap, through displacement and re-insertion.
ClassesCapped ==
  /\ Cardinality(InClass(pool, "credit")) <= CreditCap
  /\ Cardinality(InClass(pool, "karma")) <= KarmaCap

\* A pooled post has its pending row; a pending row has its pool entry unless a switch
\* dropped its transaction.
RowsShadowEntries ==
  /\ PostsOf(TxsIn(pool)) \subseteq pending
  /\ pending \subseteq PostsOf(TxsIn(pool) \cup dropped \cup ToSet(back))

\* The pool's tables stay sound through admission, displacement, confirmation, expiry,
\* eviction and re-insertion.
PoolSound == TypeOK /\ PoolUnspent /\ PoolFed /\ ClassesCapped /\ RowsShadowEntries

\* The template at rest extends the tip, and its body applies there.
TemplateApplies ==
  pc = "idle" /\ template # None => template.on = chain /\ BodyApplies(chain, template.txs)

\* The sweep after a mined block takes nothing its block did not carry: the rows it read
\* before the apply name no entry that came later.
SweepTakesNothing == [][pc = "sweeping" => pool' = pool]_vars

\* A rejected body never stops production: every build ends.
BuildEnds == pc = "building" ~> pc = "idle"
=============================================================================
