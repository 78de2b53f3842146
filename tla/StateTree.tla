----------------------------- MODULE StateTree -----------------------------
(***************************************************************************)
(* The applied state of the node: the tables a block writes, the journal   *)
(* that undoes it, the AVL tree over the tables with its persisted         *)
(* versions, and the prover's root held in memory.  SQLite puts the tables *)
(* back when a block or a switch fails; the prover's root, its proof cycle *)
(* and the kept roots have to be put back by hand.                         *)
(*                                                                         *)
(*   db      the database: the applied chain by its effects, the tables,   *)
(*           the journal rows, the tree's node rows and versions, the pool *)
(*   root    the prover's tree;  base: the tree its proof cycle began at   *)
(*   ring    RecentRoots: height -> the tree kept and the nodes it replaced *)
(*   pc      where the running apply, switch or proof cycle stands         *)
(*   cur     the block being applied, or the height a proof is asked at    *)
(*   inner   what the running block or cycle puts back when it ends badly  *)
(*   outer   what the running switch puts back;  target: its fork height   *)
(*   halted  the fail-stop                                                 *)
(*                                                                         *)
(* A tree is the rows it commits to and the height, which the emission box *)
(* makes part of it.  A like row is inserted and deleted by key, as a box  *)
(* is.  A post's row is in these tables from the moment its transaction is *)
(* in the pool, and leaves with the pool's entry while it is pending.      *)
(***************************************************************************)
EXTENDS Integers, FiniteSets, Sequences, SequencesExt, FiniteSetsExt, Functions

CONSTANTS
  Records, Boxes, Posts, Menu, MaxReorgDepth,
  Txs, Tx,           \* transactions that are not credit-side, and what each spends,
                     \* creates, posts and replies to
  MaxProofHistory,   \* MAX_PROOF_HISTORY
  ProofWindow,       \* proofWindowBlocks, the ring's capacity
  WindowNodes,       \* proofWindowNodes, the ring's node bound
  MaxHeight          \* bound on the chain's length

ASSUME HistoryAssumption ==
  /\ MaxReorgDepth \in Nat \ {0} /\ MaxProofHistory \in Nat /\ MaxProofHistory >= MaxReorgDepth
  /\ ProofWindow \in Nat /\ WindowNodes \in Nat /\ MaxHeight \in Nat
ASSUME TxAssumption ==
  /\ Tx \in [Txs -> [ins : SUBSET Boxes, outs : SUBSET Boxes, posts : SUBSET Posts, parents : SUBSET Posts]]
  /\ \A t \in Txs : Tx[t].ins # {}
  /\ \A t, u \in Txs : t # u => Tx[t].posts \cap Tx[u].posts = {}

\* The boxes a block of these effects spends.
Consumed(e) == {b \in Boxes : \E i \in 1 .. Len(e.muts) : e.muts[i] = <<"consume", b, 0>>}

ASSUME MenuAssumption ==
  /\ Menu \subseteq [posts : SUBSET Posts, gone : SUBSET Posts, txs : SUBSET Txs,
                     muts : Seq(({"put"} \X Records \X Nat) \cup ({"insert", "consume"} \X Boxes \X {0}))]
  /\ \A e \in Menu : /\ e.posts = UNION {Tx[t].posts : t \in e.txs}
                     /\ \A t \in e.txs : Tx[t].ins \subseteq Consumed(e)

VARIABLES db, root, base, ring, pc, cur, inner, outer, target, halted
proverVars == <<root, base, ring>>
vars == <<db, proverVars, pc, cur, inner, outer, target, halted>>

None == [none |-> TRUE]
NoEffects == [posts |-> {}, muts |-> <<>>, gone |-> {}, txs |-> {}]
Tip == Len(db.chain)

-----------------------------------------------------------------------------
(* The tables, the journal and the undo. *)

\* A posts row: whether it exists, whether its body is stored, the heights it was
\* confirmed and withdrawn at.
NoRow == [row |-> FALSE, body |-> FALSE, at |-> 0, gone |-> 0]

EmptyStore ==
  [rec |-> [k \in Records |-> 0], box |-> [b \in Boxes |-> "none"], post |-> [p \in Posts |-> NoRow]]

\* A mutation written, and what it replaced.
WrittenOne(w, m) ==
  CASE m[1] = "put" ->
         [store |-> [w.store EXCEPT !.rec[m[2]] = m[3]],
          muts |-> Append(w.muts, [m |-> m, was |-> w.store.rec[m[2]]])]
    [] m[1] = "insert" ->
         [store |-> [w.store EXCEPT !.box[m[2]] = "live"], muts |-> Append(w.muts, [m |-> m, was |-> 0])]
    [] m[1] = "consume" ->
         [store |-> [w.store EXCEPT !.box[m[2]] = "spent"], muts |-> Append(w.muts, [m |-> m, was |-> 0])]

\* The store after each number of these mutations, with the journal's rows so far.
Writes(store, muts) ==
  LET after[i \in 0 .. Len(muts)] ==
        IF i = 0 THEN [store |-> store, muts |-> <<>>] ELSE WrittenOne(after[i - 1], muts[i])
  IN after

\* writeBlockEffects up to its last call, followAppliedBlock: posts, then row mutations,
\* then withdrawals.
writeBlockEffects(store, e, h) ==
  LET confirmed == [store EXCEPT !.post =
                      [p \in Posts |-> IF p \in e.posts THEN [@[p] EXCEPT !.row = TRUE, !.at = h] ELSE @[p]]]
      w == Writes(confirmed, e.muts)[Len(e.muts)]
  IN [store |-> [w.store EXCEPT !.post =
                   [p \in Posts |-> IF p \in e.gone THEN [@[p] EXCEPT !.body = FALSE, !.gone = h] ELSE @[p]]],
      journal |-> [muts |-> w.muts, posts |-> e.posts,
                   bodies |-> [p \in e.gone |-> w.store.post[p].body]]]

UndoneOne(store, j) ==
  CASE j.m[1] = "put"     -> [store EXCEPT !.rec[j.m[2]] = j.was]
    [] j.m[1] = "insert"  -> [store EXCEPT !.box[j.m[2]] = "none"]
    [] j.m[1] = "consume" -> [store EXCEPT !.box[j.m[2]] = "live"]

\* Mutated form of UndoneRows: the journal is walked forwards.
UndoneRowsForwards(store, muts) == FoldLeft(UndoneOne, store, muts)

\* revertBlock's walk of the journal, last mutation first.
UndoneRows(store, muts) ==
  LET n == Len(muts)
      after[i \in 0 .. n] == IF i = 0 THEN store ELSE UndoneOne(after[i - 1], muts[n + 1 - i])
  IN after[n]

\* Mutated form of UndonePosts: the withdrawal is cleared without the body.
UndonePostsBare(posts, j) ==
  [p \in Posts |->
     LET unconfirmed == IF p \in j.posts THEN [posts[p] EXCEPT !.at = 0] ELSE posts[p]
     IN IF p \in DOMAIN j.bodies THEN [unconfirmed EXCEPT !.gone = 0] ELSE unconfirmed]

\* revertBlock's posts: unconfirmPost leaves the row, clearWithdrawal puts the body back.
UndonePosts(posts, j) ==
  [p \in Posts |->
     LET unconfirmed == IF p \in j.posts THEN [posts[p] EXCEPT !.at = 0] ELSE posts[p]
     IN IF p \in DOMAIN j.bodies THEN [unconfirmed EXCEPT !.gone = 0, !.body = j.bodies[p]]
                                 ELSE unconfirmed]

Undone(store, j) == [UndoneRows(store, j.muts) EXCEPT !.post = UndonePosts(@, j)]

-----------------------------------------------------------------------------
(* The pool and the pending rows. *)

TxsOf(c) == UNION {c[i].txs : i \in 1 .. Len(c)}
SpentOf(c) == UNION {Consumed(c[i]) : i \in 1 .. Len(c)}

\* The transactions whose outputs t spends or whose posts it replies to.
Needs(t) == {u \in Txs : Tx[u].outs \cap Tx[t].ins # {} \/ Tx[u].posts \cap Tx[t].parents # {}}

\* readClosure: these entries and all that needs one of them, the least set closed so.
Closure(pool, seeds) ==
  {t \in pool :
     \A D \in SUBSET pool :
       (\A u \in pool : u \in seeds \/ Needs(u) \cap D # {} => u \in D) => t \in D}

\* deletePendingPost of each entry that leaves: the row goes, its body with it.
deletePendingPosts(store, left) ==
  [store EXCEPT !.post =
     [p \in Posts |-> IF @[p].at = 0 /\ \E t \in left : p \in Tx[t].posts
                        THEN [@[p] EXCEPT !.row = FALSE, !.body = FALSE] ELSE @[p]]]

removeUnconfirmed(d, seeds) ==
  LET left == Closure(d.pool, seeds)
  IN [d EXCEPT !.pool = @ \ left, !.store = deletePendingPosts(@, left)]

\* Applied entries leave by id; whatever spends a spent box, or is past its expiry or
\* ceiling, leaves with all that needs it.
followAppliedBlock(d, e, expired) ==
  removeUnconfirmed([d EXCEPT !.pool = @ \ e.txs],
                    expired \cup {t \in Txs : Tx[t].ins \cap Consumed(e) # {}})

ConflictFree(pool) == \A t, u \in pool : t # u => Tx[t].ins \cap Tx[u].ins = {}

-----------------------------------------------------------------------------
(* The tree, its node rows and its versions. *)

\* The tree over a store's rows at a height.
TreeOf(store, h) ==
  [rec |-> store.rec, live |-> {b \in Boxes : store.box[b] = "live"}, at |-> h]

Leaves(t) ==
  {<<"rec", k, t.rec[k]>> : k \in {k \in Records : t.rec[k] # 0}} \cup {<<"box", b>> : b \in t.live}
\* The inner node over the leaves, and the root over it and the height's leaf.
Spine(t) == <<"inner", t.rec, t.live>>
RootLabel(t) == <<"root", t.rec, t.live, t.at>>
TreeNodes(t) == Leaves(t) \cup {Spine(t), <<"height", t.at>>, RootLabel(t)}

\* removedNodes: the nodes the proof cycle began with that the tree no longer has.
removedNodes == TreeNodes(base) \ TreeNodes(root)

HasLiveRow(rows, label) == \E r \in rows : r.label = label /\ r.gone = 0

Orphaned(rows, h) ==
  {IF r.label \in removedNodes /\ r.gone = 0 THEN [r EXCEPT !.gone = h] ELSE r : r \in rows}

\* writeLifetimes descends from the root and stops at a node with an open row.
NewRows(rows, t) ==
  LET below == IF HasLiveRow(rows, Spine(t)) THEN {} ELSE {Spine(t)} \cup Leaves(t)
  IN {label \in {RootLabel(t), <<"height", t.at>>} \cup below : ~ HasLiveRow(rows, label)}

\* SqliteAvlStorage.update, past its duplicate check.
Updated(d, h) ==
  LET rows == Orphaned(d.rows, h)
  IN [d EXCEPT !.rows = rows \cup {[label |-> n, seen |-> h, gone |-> 0] : n \in NewRows(rows, root)},
               !.versions = [i \in DOMAIN @ \cup {h} |-> IF i = h THEN root ELSE @[i]]]

\* checkpointProver's pruneVersionsBefore.
Pruned(d, cutoff) ==
  IF cutoff > 0
    THEN [d EXCEPT !.rows = {r \in @ : r.gone = 0 \/ r.gone > cutoff},
                   !.versions = Restrict(@, {i \in DOMAIN @ : i >= cutoff})]
    ELSE d

\* Mutated form of VersionDeleted: the version's row itself stays.
VersionDeletedRows(d, h) ==
  [d EXCEPT !.rows = {IF r.gone = h THEN [r EXCEPT !.gone = 0] ELSE r : r \in {x \in @ : x.seen # h}}]

\* deleteVersionAtHeight: rows first seen there go, rows orphaned there reopen.
VersionDeleted(d, h) ==
  [d EXCEPT !.rows = {IF r.gone = h THEN [r EXCEPT !.gone = 0] ELSE r : r \in {x \in @ : x.seen # h}},
            !.versions = Restrict(@, DOMAIN @ \ {h})]

\* The rows of a label alive at a height: rollback needs exactly one.
AliveRows(d, label, h) == {r \in d.rows : r.label = label /\ r.seen <= h /\ (r.gone = 0 \/ r.gone > h)}
Resolves(d, h) == \A n \in TreeNodes(d.versions[h]) : Cardinality(AliveRows(d, n, h)) = 1

-----------------------------------------------------------------------------
(* The kept roots. *)

nodesHeldBeyondTree(r) ==
  IF DOMAIN r = {} THEN 0
  ELSE FoldFunctionOnSet(LAMBDA x, s : x.replaced + s, 0, r, DOMAIN r \ {Min(DOMAIN r)})

\* evict drops the lowest heights until capacity and node bound hold.
Evicted(r) ==
  LET fits(S) == LET kept == Restrict(r, S)
                 IN Cardinality(S) <= ProofWindow /\ nodesHeldBeyondTree(kept) <= WindowNodes
      suffixes == {S \in {{i \in DOMAIN r : i >= low} : low \in DOMAIN r} \cup {{}} : fits(S)}
  IN Restrict(r, CHOOSE S \in suffixes : \A other \in suffixes : other \subseteq S)

Kept(r, h, tree, replaced) ==
  IF ProofWindow = 0 THEN r
  ELSE Evicted([i \in DOMAIN r \cup {h} |-> IF i = h THEN [tree |-> tree, replaced |-> replaced] ELSE r[i]])

Dropped(r, h) == Restrict(r, DOMAIN r \ {h})
NoRing == [i \in {} |-> None]

-----------------------------------------------------------------------------
Init ==
  LET t == TreeOf(EmptyStore, 0)
  IN /\ db = [chain |-> <<>>, store |-> EmptyStore, journal |-> [i \in {} |-> None],
              rows |-> {[label |-> n, seen |-> 0, gone |-> 0] : n \in TreeNodes(t)},
              versions |-> [i \in {0} |-> t], pool |-> {}]
     /\ root = t /\ base = t
     /\ ring = Kept(NoRing, 0, t, 0)
     /\ pc = "idle" /\ cur = NoEffects /\ inner = None /\ outer = None /\ target = 0
     /\ halted = "no"

InSwitch == outer # None
Running == halted = "no"

\* What a block of these effects must find to be one its engine can produce.
Valid(store, e) ==
  /\ \A i \in 1 .. Len(e.muts) :
       LET before == Writes(store, e.muts)[i - 1].store
           m == e.muts[i]
       IN /\ m[1] = "insert" => before.box[m[2]] = "none"
          /\ m[1] = "consume" => before.box[m[2]] = "live"
  /\ \A p \in e.posts : store.post[p].at = 0
  /\ \A p \in e.gone : store.post[p].at # 0 /\ store.post[p].gone = 0

\* Its transactions spend what no block spent, and what they spend and reply to is on
\* this chain or in the block.
Funded(c, e) ==
  \A t \in e.txs : Tx[t].ins \cap SpentOf(c) = {} /\ Needs(t) \subseteq TxsOf(c) \cup e.txs

\* The apply funnel up to performTreeWrites: the prover's root is saved, the block's
\* writes are made on the tree.
Begin(e) ==
  /\ Tip < MaxHeight /\ Valid(db.store, e) /\ Funded(db.chain, e)
  /\ inner' = [db |-> db, root |-> root]
  /\ cur' = e
  /\ root' = TreeOf(writeBlockEffects(db.store, e, Tip + 1).store, Tip + 1)
  /\ pc' = "written"
  /\ UNCHANGED <<db, base, ring, outer, target, halted>>

ApplyBlock(e) == Running /\ pc = "idle" /\ Begin(e)
NextBlock(e) == Running /\ pc = "switching" /\ Begin(e)

\* The entries that may be past expiry or ceiling: what a switch returned is screened
\* against its last height.
Expirable == IF InSwitch THEN db.pool \ TxsOf(outer.db.chain) ELSE db.pool

\* The stateRoot matched: the effects are written, the pool follows and the prover is
\* checkpointed.  The proof's root, the journal row and its purge come after.
Checkpoint(expired) ==
  LET h == Tip + 1
      w == writeBlockEffects(db.store, cur, h)
      written == [db EXCEPT !.chain = Append(@, cur), !.store = w.store]
      tabled == followAppliedBlock(written, cur, expired)
      checked == Pruned(Updated(tabled, h), h - MaxProofHistory)
      lowest == h - MaxReorgDepth
      journal == [i \in DOMAIN db.journal \cup {h} |-> IF i = h THEN w.journal ELSE db.journal[i]]
  IN /\ Running /\ pc = "written" /\ expired \subseteq Expirable
     /\ IF h \in DOMAIN db.versions
          THEN halted' = "DuplicateStateVersion" /\ UNCHANGED <<db, base, pc, cur>>
          ELSE /\ db' = [checked EXCEPT !.journal = Restrict(journal, {i \in DOMAIN journal : i >= lowest})]
               /\ base' = root
               /\ cur' = [cur |-> cur, replaced |-> Cardinality(removedNodes)]
               /\ pc' = "checked"
               /\ UNCHANGED halted
     /\ UNCHANGED <<root, ring, inner, outer, target>>

\* The block stands: its root is kept, in a switch as outside one.
Finish ==
  /\ Running /\ pc = "checked"
  /\ ring' = Kept(ring, Tip, root, cur.replaced)
  /\ cur' = NoEffects /\ inner' = None
  /\ pc' = IF InSwitch THEN "switching" ELSE "idle"
  /\ UNCHANGED <<db, root, base, outer, target, halted>>

\* Mutated form of restoreProver: the tables go back, the prover's root does not.
restoreProverNot == UNCHANGED <<root, base>>

\* restoreRoot puts the saved tree back and restarts the proof cycle at it.
restoreProver == root' = inner.root /\ base' = inner.root

\* A refused block: a root or proof that does not match, or a throw on the way.  SQLite
\* rolls the tables back.  In a switch the refusal then aborts the switch.
RefuseBlock ==
  /\ Running /\ pc \in {"written", "checked"}
  /\ db' = inner.db
  /\ restoreProver
  /\ inner' = None /\ cur' = NoEffects
  /\ pc' = IF InSwitch THEN "aborting" ELSE "idle"
  /\ UNCHANGED <<ring, outer, target, halted>>

-----------------------------------------------------------------------------
(* The switch. *)

LowestJournal == Min(DOMAIN db.journal \cup {Tip + 1})

\* The fork heights the pipeline lets a switch reach.
ReachFloor == Max({0, Tip - MaxReorgDepth, LowestJournal - 1})

StartSwitch(f) ==
  /\ Running /\ pc = "idle" /\ f \in ReachFloor .. Tip - 1
  /\ outer' = [db |-> db, root |-> root, ring |-> ring]
  /\ target' = f
  /\ pc' = "reverting"
  /\ UNCHANGED <<db, proverVars, cur, inner, halted>>

\* revertBlock at the tip.
Revert ==
  LET h == Tip
      untabled == [db EXCEPT !.store = Undone(@, db.journal[h]), !.chain = Front(@),
                             !.journal = Restrict(@, DOMAIN @ \ {h})]
  IN /\ Running /\ pc = "reverting" /\ h > target
     /\ db' = VersionDeleted(untabled, h)
     /\ ring' = Dropped(ring, h)
     /\ UNCHANGED <<root, base, pc, cur, inner, outer, target, halted>>

\* The prover at the fork: the kept root where it describes the version, the stored
\* rows otherwise.  What cannot be resolved stops the node.  Then reverted transactions
\* return to the pool, less those it or the ceiling refuses.
ResolveFork(returned) ==
  LET known == {i \in DOMAIN db.versions : i <= target}
      h == Max(known)
      byReference == target \in DOMAIN ring /\ ring[target].tree = db.versions[h]
  IN /\ Running /\ pc = "reverting" /\ Tip = target
     /\ returned \subseteq TxsOf(outer.db.chain) \ TxsOf(db.chain)
     /\ ConflictFree(db.pool \cup returned)
     /\ IF known = {} THEN halted' = "MissingStateVersion" /\ UNCHANGED <<db, proverVars, pc>>
        ELSE IF ~ byReference /\ ~ Resolves(db, h)
               THEN halted' = "InconsistentAvlNodeRows" /\ UNCHANGED <<db, proverVars, pc>>
        ELSE /\ root' = db.versions[h] /\ base' = db.versions[h]
             /\ ring' = IF byReference THEN ring ELSE NoRing
             /\ db' = [db EXCEPT !.pool = @ \cup returned]
             /\ pc' = "switching"
             /\ UNCHANGED halted
     /\ UNCHANGED <<cur, inner, outer, target>>

\* Every staged block of the branch is applied.
EndSwitch ==
  /\ Running /\ pc = "switching" /\ Tip > target
  /\ outer' = None /\ target' = 0 /\ pc' = "idle"
  /\ UNCHANGED <<db, proverVars, cur, inner, halted>>

\* reorg's restoreProver: the root, its proof cycle and the kept roots.
restoreSwitch ==
  /\ root' = outer.root /\ base' = outer.root
  /\ ring' = outer.ring

AbortSwitch ==
  /\ Running /\ pc = "aborting"
  /\ db' = outer.db
  /\ restoreSwitch
  /\ outer' = None /\ target' = 0 /\ pc' = "idle"
  /\ UNCHANGED <<cur, inner, halted>>

-----------------------------------------------------------------------------
(* Proof cycles, bodies, crashes. *)

\* computePostBlockStateRoot: a template's writes are made on the live tree.
Speculate(e) ==
  /\ Running /\ pc = "idle" /\ Valid(db.store, e) /\ Funded(db.chain, e)
  /\ inner' = [db |-> db, root |-> root]
  /\ root' = TreeOf(writeBlockEffects(db.store, e, Tip + 1).store, Tip + 1)
  /\ pc' = "cycle" /\ cur' = Tip + 1
  /\ UNCHANGED <<db, base, ring, outer, target, halted>>

\* The endpoint's proof at a height inside the window: the kept root, or the version's rows.
ProveAt(h) ==
  /\ Running /\ pc = "idle"
  /\ h < Tip /\ h > Tip - ProofWindow
  /\ \/ h \in DOMAIN ring /\ root' = ring[h].tree
     \/ h \notin DOMAIN ring /\ h \in DOMAIN db.versions /\ Resolves(db, h) /\ root' = db.versions[h]
  /\ base' = root'
  /\ inner' = [db |-> db, root |-> root]
  /\ pc' = "cycle" /\ cur' = h
  /\ UNCHANGED <<db, ring, outer, target, halted>>

EndCycle ==
  /\ Running /\ pc = "cycle"
  /\ restoreProver
  /\ pc' = "idle" /\ cur' = NoEffects /\ inner' = None
  /\ UNCHANGED <<db, ring, outer, target, halted>>

\* setPostBody: a fetched or relayed body, on a row without one that is not withdrawn.
BodyArrives(p) ==
  /\ Running /\ pc = "idle"
  /\ db.store.post[p].row /\ ~ db.store.post[p].body /\ db.store.post[p].gone = 0
  /\ db' = [db EXCEPT !.store.post[p].body = TRUE]
  /\ UNCHANGED <<proverVars, pc, cur, inner, outer, target, halted>>

\* A transaction is admitted, its posts' pending rows in the same write; a relayed one
\* may come without its body.
Submit(t, body) ==
  /\ Running /\ pc = "idle" /\ t \notin db.pool
  /\ Tx[t].ins \cap SpentOf(db.chain) = {} /\ ConflictFree(db.pool \cup {t})
  /\ \A b \in Tx[t].ins : db.store.box[b] = "live" \/ \E u \in db.pool : b \in Tx[u].outs
  /\ \A p \in Tx[t].posts : ~ db.store.post[p].row
  /\ \A p \in Tx[t].parents : db.store.post[p].row
  /\ db' = [db EXCEPT !.pool = @ \cup {t},
                      !.store.post = [p \in Posts |-> IF p \in Tx[t].posts
                                        THEN [@[p] EXCEPT !.row = TRUE, !.body = body] ELSE @[p]]]
  /\ UNCHANGED <<proverVars, pc, cur, inner, outer, target, halted>>

\* The creator drops entries a block would refuse; an arrival at its cap displaces others.
Evict(seeds) ==
  /\ Running /\ pc = "idle" /\ seeds # {} /\ seeds \subseteq db.pool
  /\ db' = removeUnconfirmed(db, seeds)
  /\ UNCHANGED <<proverVars, pc, cur, inner, outer, target, halted>>

\* What SQLite holds: the state before the open transaction.
Committed == IF InSwitch THEN outer.db
             ELSE IF pc \in {"written", "checked"} THEN inner.db
             ELSE db

\* A kill and the restart: createAvlProver loads the newest version.
Crash ==
  LET newest == Max(DOMAIN Committed.versions)
  IN /\ Running
     /\ db' = Committed
     /\ IF Resolves(Committed, newest)
          THEN /\ root' = Committed.versions[newest] /\ base' = Committed.versions[newest]
               /\ ring' = Kept(NoRing, newest, Committed.versions[newest], 0)
               /\ UNCHANGED halted
          ELSE halted' = "InconsistentAvlNodeRows" /\ UNCHANGED proverVars
     /\ pc' = "idle" /\ cur' = NoEffects /\ inner' = None /\ outer' = None /\ target' = 0

Next ==
  \/ \E e \in Menu : ApplyBlock(e) \/ NextBlock(e) \/ Speculate(e)
  \/ Finish \/ RefuseBlock
  \/ \E f \in 0 .. MaxHeight : StartSwitch(f) \/ ProveAt(f)
  \/ \E some \in SUBSET Txs : Checkpoint(some) \/ ResolveFork(some) \/ Evict(some)
  \/ \E t \in Txs, body \in BOOLEAN : Submit(t, body)
  \/ Revert \/ EndSwitch \/ AbortSwitch
  \/ EndCycle \/ Crash
  \/ \E p \in Posts : BodyArrives(p)

Spec == Init /\ [][Next]_vars

-----------------------------------------------------------------------------
(* Properties. *)

\* The ledger a reader sees of a store: post bodies are not part of the chain.
LedgerOf(store) ==
  [rec |-> store.rec, box |-> store.box,
   at |-> [p \in Posts |-> store.post[p].at], gone |-> [p \in Posts |-> store.post[p].gone]]

Abstract == INSTANCE AppliedChain WITH chain <- Committed.chain, ledger <- LedgerOf(Committed.store)

\* The tree the first h blocks of a chain commit to.
TreeAt(c, h) ==
  LET l == Abstract!Replay(c, h)
  IN [rec |-> l.rec, live |-> {b \in Boxes : l.box[b] = "live"}, at |-> h]

\* Every variable has its type; an open save is there exactly while a step needs it.
TypeOK ==
  /\ db.chain \in Seq(Menu) /\ Tip <= MaxHeight
  /\ DOMAIN db.journal \subseteq 1 .. Tip /\ DOMAIN db.versions \subseteq 0 .. Tip
  /\ pc \in {"idle", "written", "checked", "reverting", "switching", "aborting", "cycle"}
  /\ (inner # None) <=> pc \in {"written", "checked", "cycle"}
  /\ pc \in {"reverting", "switching", "aborting"} => InSwitch
  /\ db.pool \subseteq Txs /\ ConflictFree(db.pool)
  /\ halted \in {"no", "DuplicateStateVersion", "MissingStateVersion", "InconsistentAvlNodeRows"}

\* Between items the prover's tree is the tree of the tables and its proof cycle starts
\* there, after refusals, aborted switches, speculations and crashes alike.
TreeIsStore == pc = "idle" => root = TreeOf(db.store, Tip) /\ base = root

\* Every retained version is the replay of its prefix of the chain, and each of its nodes
\* has exactly one row alive at its height, in the middle of a switch as well.
RowsExact ==
  pc # "aborting" =>
    \A h \in DOMAIN db.versions : db.versions[h] = TreeAt(db.chain, h) /\ Resolves(db, h)

\* The kept roots are the trees of this chain at consecutive heights up to the tip, within
\* the window's blocks and nodes.
RingSound ==
  pc = "idle" =>
    /\ \A h \in DOMAIN ring : ring[h].tree = TreeAt(db.chain, h)
    /\ DOMAIN ring = {} \/ DOMAIN ring = Min(DOMAIN ring) .. Tip
    /\ Cardinality(DOMAIN ring) <= ProofWindow

\* Tree, version rows, node rows and the kept roots agree with the tables (avl-storage,
\* restoreProver, restoreSwitch).
StorageExact == TypeOK /\ TreeIsStore /\ RowsExact /\ RingSound

\* No switch the pipeline lets through, no restart and no checkpoint fail-stops the node.
NeverFailStops == halted = "no"

\* The body of p is in the table, or in the journal row its withdrawal can be undone from.
HasBody(d, p) ==
  LET row == d.store.post[p]
  IN IF row.gone = 0 THEN row.body ELSE row.gone \in DOMAIN d.journal => d.journal[row.gone].bodies[p]

\* No block, switch, refusal or kill costs the node a body it stored, unless the post's row
\* leaves with its pool entry: clearWithdrawal gives a withdrawn body back, and a confirmed
\* post that a switch returns to the pool and loses there is not confirmed again by it.
BodiesKept ==
  [][\A p \in Posts :
       LET was == Committed.store.post[p]
       IN was.row /\ (InSwitch => was.at # 0) /\ HasBody(Committed, p) /\ Committed'.store.post[p].row
            => HasBody(Committed', p)]_vars

\* The committed tables change only by a block or a whole switch, and always hold the
\* replay of the committed chain.
RefinesAppliedChain == Abstract!Spec
=============================================================================
