------------------------------- MODULE Wallet -------------------------------
(***************************************************************************)
(* The extension's wallet: the pages of one browser, open on one identity, *)
(* spend from one ledger (rep or credits; the two behave alike and share   *)
(* the lock).  A spend no node answers waits in the browser's storage, the *)
(* next ones are built on its change, and any page sends what waits once a *)
(* node answers.                                                           *)
(*                                                                         *)
(*   store   localStorage: the waiting view's base, the waiting writes in  *)
(*           their order, the pending entries as some page last wrote them, *)
(*           the remembered chain                                          *)
(*   page    per page what it keeps in memory, its job being the flow or   *)
(*           the send pass that holds the lock, and passChain the chain    *)
(*           read by a pass that has its turn and waits for the lock       *)
(*   lock    the page holding the identity's lock                          *)
(*   node    the node behind the requests: its chain, its pool, and the    *)
(*           reader's transactions its blocks have taken                   *)
(*   txs     the inputs of each transaction built so far                   *)
(*   ended   those reported to the reader as refused or not sent           *)
(*   clean   history: the wallet has known the fate of each of its sends,  *)
(*           and of the change of each that was refused                    *)
(*   used    the budget of unlikely events taken                           *)
(*                                                                         *)
(* Amounts are left out: which boxes a spend selects is left open.         *)
(***************************************************************************)
EXTENDS Integers, FiniteSets, Sequences, SequencesExt, FiniteSetsExt, Functions, Lists

CONSTANTS
  Pages,       \* the pages of the browser
  LastChain,   \* the network's chains are named 1 to LastChain, one after the other
  Coins,       \* how many boxes the identity starts with on a chain
  Refusable,   \* the transactions the node may refuse for what they ask
  Exact,       \* the transactions that leave no change
  NoPage, NoChain, NoBase, NoJob,
  MaxTxs,      \* bound on the transactions built
  MaxInputs,   \* bound on the boxes one of them spends
  MaxEvents    \* bound on lost answers, closed pages, burns, failed tip runs and chain changes together

TxIds == 1..MaxTxs

\* A box is named by the transaction that makes it, or by its chain's start.
Chains == 1..LastChain
Boxes == [tx : Nat, chain : Nat, n : Nat]
Writes == [tx : TxIds, chain : Chains]
Bases == [chain : Chains, spendable : Seq(Boxes)]
Jobs ==
  [kind : {"press", "burn", "flush"}, pc : {"sign", "send", "taken", "refused", "clash"},
   tx : 0..MaxTxs, waiting : BOOLEAN, todo : Seq(Writes), stranded : SUBSET Boxes,
   chain : Chains \cup {NoChain}]

ASSUME WalletAssumption ==
  /\ MaxTxs \in Nat /\ MaxInputs \in Nat \ {0} /\ MaxEvents \in Nat /\ Coins \in Nat
  /\ LastChain \in Nat \ {0} /\ Refusable \cup Exact \subseteq TxIds
  /\ NoPage \notin Pages /\ NoBase \notin Bases /\ NoJob \notin Jobs

VARIABLES store, page, lock, node, txs, ended, clean, used
vars == <<store, page, lock, node, txs, ended, clean, used>>

-----------------------------------------------------------------------------
(* Boxes, transactions and the node. *)

Genesis(k) == {[tx |-> 0, chain |-> k, n |-> n] : n \in 1..Coins}
Change(t) == [tx |-> t, chain |-> 0, n |-> 0]
ChangeOf(t) == IF t \in Exact THEN <<>> ELSE <<Change(t)>>
Changes(t) == Range(ChangeOf(t))
Spent(t) == Range(txs[t])

Taken == node.pool \cup node.confirmed

\* The boxes `?pending=true` lists: confirmed or pooled, and spent by neither.
NodeView == (Genesis(node.chain) \cup UNION {Changes(t) : t \in Taken}) \ UNION {Spent(t) : t \in Taken}

\* What the node may decide of t: hold it already, pool it, refuse it for what
\* it asks, or refuse it for its inputs.
Verdicts(t) ==
  IF t \in node.pool THEN {"taken"}
  ELSE IF Spent(t) \subseteq NodeView /\ IsInjective(txs[t])
    THEN {"taken"} \cup (IF t \in Refusable THEN {"refused"} ELSE {})
  ELSE {"clash"}

-----------------------------------------------------------------------------
(* The waiting store. *)

\* One spend advances a list of boxes: its inputs out, its change in.
ApplyToSpendable(boxes, t) ==
  Among(boxes, Range(boxes) \ Spent(t)) \o ChangeOf(t)

ReadBase(s, k) == IF s.base = NoBase \/ s.base.chain # k THEN NoBase ELSE s.base

WaitingOf(s, k) == Among(s.writes, {w \in Range(s.writes) : w.chain = k})

Waits(s, t) == \E i \in DOMAIN s.writes : s.writes[i].tx = t

\* The base advanced by every waiting write of the chain, in order.
View(s, k) ==
  LET waiting == WaitingOf(s, k)
      after[i \in 0 .. Len(waiting)] ==
        IF i = 0 THEN ReadBase(s, k).spendable ELSE ApplyToSpendable(after[i - 1], waiting[i].tx)
  IN  after[Len(waiting)]

RecordBase(s, k) == [s EXCEPT !.base = [chain |-> k, spendable |-> SetToSeq(NodeView)]]

Keep(s, t, k) == [s EXCEPT !.writes = Append(@, [tx |-> t, chain |-> k])]

Drop(s, T) == [s EXCEPT !.writes = Among(@, {w \in Range(@) : w.tx \notin T})]

\* Mutated form of AbsorbSent: the base keeps what was spent.
AbsorbSentNothing(s, t, k) == s

\* A spend the node took moves into the base, when the base is of its chain.
AbsorbSent(s, t, k) ==
  IF ReadBase(s, k) = NoBase THEN s ELSE [s EXCEPT !.base.spendable = ApplyToSpendable(@, t)]

Absorb(s, t, k) == Drop(AbsorbSent(s, t, k), {t})

-----------------------------------------------------------------------------
(* A page: its pending ledger, its chain, its job. *)

\* this.tipChain ?? rememberedChain(); a chain is remembered from the start.
ChainOf(p) == IF page[p].tipChain # NoChain THEN page[p].tipChain ELSE store.chain

\* A changed ledger is written to storage whole.
Persisted(s, p, entries) ==
  IF entries = page[p].entries THEN s ELSE [s EXCEPT !.pending = entries]

\* release: a waiting entry goes on as a submitted one.
Released(entries, orphans) ==
  [t \in TxIds |-> IF t \in orphans /\ entries[t] = "waiting" THEN "sent" ELSE entries[t]]

\* Mutated form of OrphansReleased: an entry goes on only with this page's own pass.
OrphansKept(s, entries, tip) == entries

\* releaseOrphanWaiting, which needs a tip a node answered.
OrphansReleased(s, entries, tip) ==
  IF tip THEN Released(entries, {t \in TxIds : ~Waits(s, t)}) ELSE entries

\* The page's queue has no task.
Idle(p) == page[p].open /\ page[p].job = NoJob /\ page[p].passChain = NoChain

Free(p) == Idle(p) /\ lock = NoPage

\* A pass has its turn in the queue.
HasTurn(p) == page[p].open /\ page[p].job = NoJob /\ page[p].passChain # NoChain

Press(kind, t, waiting) ==
  [kind |-> kind, pc |-> "sign", tx |-> t, waiting |-> waiting, todo |-> <<>>, stranded |-> {}, chain |-> NoChain]

\* What the job's transaction is: the flow's own, or the pass's next write.
Sends(j) == IF j.kind = "flush" THEN Head(j.todo).tx ELSE j.tx

\* The flow is over and its lock with it.
Finish(p, s, entries) ==
  /\ page' = [page EXCEPT ![p].job = NoJob, ![p].entries = entries]
  /\ store' = Persisted(s, p, entries)
  /\ lock' = NoPage

-----------------------------------------------------------------------------
(* A press: reads, builds, asks for the signature. *)

\* selectBoxes: some boxes of the view, which by the amounts.
Builds(p, kind, boxes, waiting) ==
  /\ Len(txs) < MaxTxs
  /\ \E n \in 1 .. MaxInputs : \E at \in [1 .. n -> DOMAIN boxes] :
       /\ \A i, j \in 1 .. n : i < j => at[i] < at[j]
       /\ txs' = Append(txs, [i \in 1 .. n |-> boxes[at[i]]])
  /\ page' = [page EXCEPT ![p].job = Press(kind, Len(txs) + 1, waiting)]
  /\ lock' = p

\* readsOrWaitingRep with an answer: the base is recorded and then advanced.
PressAnswered(p) ==
  /\ Free(p)
  /\ store' = RecordBase(store, ChainOf(p))
  /\ Builds(p, "press", View(store', ChainOf(p)), FALSE)
  /\ UNCHANGED <<node, ended, clean, used>>

\* With no answer: the view as it stands, if this browser has one.
PressUnanswered(p) ==
  /\ Free(p)
  /\ ReadBase(store, ChainOf(p)) # NoBase
  /\ Builds(p, "press", View(store, ChainOf(p)), TRUE)
  /\ UNCHANGED <<store, node, ended, clean, used>>

\* A burn builds from the node's answer alone, and never waits.  One made
\* over waiting writes may spend their boxes.
PressBurn(p) ==
  /\ Free(p)
  /\ used < MaxEvents
  /\ Builds(p, "burn", SetToSeq(NodeView), FALSE)
  /\ used' = used + 1
  /\ clean' = (clean /\ store.writes = <<>>)
  /\ UNCHANGED <<store, node, ended>>

\* keepWaiting: the record, and the entry marked waiting.
KeepWaiting(p) ==
  LET t == page[p].job.tx
  IN  Finish(p, Keep(store, t, ChainOf(p)), [page[p].entries EXCEPT ![t] = "waiting"])

Declines(p) ==
  /\ page[p].job # NoJob /\ page[p].job.pc = "sign"
  /\ Finish(p, store, page[p].entries)
  /\ txs' = Front(txs)
  /\ UNCHANGED <<node, ended, clean, used>>

Signs(p) ==
  /\ page[p].job # NoJob /\ page[p].job.pc = "sign"
  /\ IF page[p].job.waiting
       THEN KeepWaiting(p)
       ELSE page' = [page EXCEPT ![p].job.pc = "send"] /\ UNCHANGED <<store, lock>>
  /\ UNCHANGED <<node, txs, ended, clean, used>>

-----------------------------------------------------------------------------
(* The send pass. *)

\* A write of another chain, or one that spends the change of a write ended
\* before it, ends unsent.
EndsUnsent(j, i) ==
  \/ j.todo[i].chain # j.chain
  \/ Spent(j.todo[i].tx) \cap (j.stranded \cup UNION {Changes(j.todo[h].tx) : h \in 1 .. i - 1}) # {}

\* The next write of the pass to be sent: all before it end.
NextSent(j) == Min({i \in DOMAIN j.todo : ~EndsUnsent(j, i)} \cup {Len(j.todo) + 1})

EndedOf(j) == {j.todo[i].tx : i \in 1 .. NextSent(j) - 1}

\* The pass goes on to its next send, or ends and releases the orphans.
GoOn(p, s, entries, j, reported) ==
  LET gone == EndedOf(j)
      kept == Drop(s, gone)
      shown == [t \in TxIds |-> IF t \in gone THEN "none" ELSE entries[t]]
      rest == SubSeq(j.todo, NextSent(j), Len(j.todo))
      over == rest = <<>>
      left == IF over THEN OrphansReleased(kept, shown, page[p].tip) ELSE shown
      next == [j EXCEPT !.pc = "send", !.todo = rest, !.stranded = @ \cup UNION {Changes(t) : t \in gone}]
  IN  /\ page' = [page EXCEPT ![p].job = IF over THEN NoJob ELSE next,
                              ![p].entries = left, ![p].inFlight = ~over, ![p].passChain = NoChain]
      /\ store' = Persisted(kept, p, left)
      /\ lock' = IF over THEN NoPage ELSE p
      /\ ended' = ended \cup reported \cup gone

\* A pass takes its turn in the page's queue and reads the chain it sends for.
\* With none it ends at once; else it asks for the lock.
TakeTurn(p) ==
  /\ Idle(p) /\ page[p].inFlight
  /\ LET left == OrphansReleased(store, page[p].entries, page[p].tip)
     IN  IF page[p].tipChain = NoChain
           THEN /\ page' = [page EXCEPT ![p].inFlight = FALSE, ![p].entries = left]
                /\ store' = Persisted(store, p, left)
           ELSE page' = [page EXCEPT ![p].passChain = page[p].tipChain] /\ UNCHANGED store
  /\ UNCHANGED <<lock, node, txs, ended, clean, used>>

PassOf(p) ==
  [kind |-> "flush", pc |-> "send", tx |-> 0, waiting |-> FALSE, todo |-> store.writes,
   stranded |-> {}, chain |-> page[p].passChain]

\* Mutated form of BeginFlush: the pass does not wait for the lock.
BeginFlushUnlocked(p) ==
  /\ HasTurn(p)
  /\ GoOn(p, store, page[p].entries, PassOf(p), {})
  /\ UNCHANGED <<node, txs, clean, used>>

\* flushWaiting: with the lock, the pass lists what waits and goes through it.
BeginFlush(p) ==
  /\ HasTurn(p) /\ lock = NoPage
  /\ GoOn(p, store, page[p].entries, PassOf(p), {})
  /\ UNCHANGED <<node, txs, clean, used>>

\* flushWaitingWrites: a pass is queued when something waits and none is.
Triggered(pg) == [pg EXCEPT !.inFlight = @ \/ (pg.tipChain # NoChain /\ store.writes # <<>>)]

-----------------------------------------------------------------------------
(* A send, and what comes back. *)

\* The request reaches the node.
Reaches(p) ==
  /\ page[p].job # NoJob /\ page[p].job.pc = "send"
  /\ LET t == Sends(page[p].job)
     IN  \E v \in Verdicts(t) :
           /\ page' = [page EXCEPT ![p].job.pc = v]
           /\ node' = IF v = "taken" THEN [node EXCEPT !.pool = @ \cup {t}] ELSE node
  /\ UNCHANGED <<store, lock, txs, ended, clean, used>>

\* A flow's send answered 2xx: the spend into the base, the entry submitted.
FlowTaken(p) ==
  LET t == page[p].job.tx
  IN  Finish(p, AbsorbSent(store, t, ChainOf(p)), [page[p].entries EXCEPT ![t] = "sent"])

AnsweredFlow(p) ==
  /\ page[p].job # NoJob /\ page[p].job.kind # "flush"
  /\ \/ page[p].job.pc = "taken" /\ FlowTaken(p) /\ UNCHANGED ended
     \/ /\ page[p].job.pc \in {"refused", "clash"}
        /\ Finish(p, store, page[p].entries)
        /\ ended' = ended \cup {page[p].job.tx}
  /\ UNCHANGED <<node, txs, clean, used>>

\* The pass's send answered: taken, it is released and absorbed; refused, it
\* ends, and what spends its change with it.
AnsweredFlush(p) ==
  /\ page[p].job # NoJob /\ page[p].job.kind = "flush"
  /\ LET j == page[p].job
         w == Head(j.todo)
         next == [j EXCEPT !.todo = Tail(@)]
     IN  \/ /\ j.pc = "taken"
            /\ GoOn(p, Absorb(store, w.tx, w.chain), Released(page[p].entries, {w.tx}), next, {})
         \/ /\ j.pc \in {"refused", "clash"}
            /\ GoOn(p, Drop(store, {w.tx}), [page[p].entries EXCEPT ![w.tx] = "none"],
                    [next EXCEPT !.stranded = @ \cup Changes(w.tx)], {w.tx})
  /\ UNCHANGED <<node, txs, clean, used>>

\* What no answer means for each job: a flow keeps its write, a burn ends as
\* a transport failure, the pass ends and leaves the rest waiting.
EndedUnanswered(p) ==
  LET j == page[p].job
  IN  \/ j.kind = "press" /\ KeepWaiting(p) /\ UNCHANGED ended
      \/ j.kind = "burn" /\ Finish(p, store, page[p].entries) /\ ended' = ended \cup {j.tx}
      \/ j.kind = "flush" /\ GoOn(p, store, page[p].entries, [j EXCEPT !.todo = <<>>], {})

\* A pass cut short forgets what the writes it ended have stranded; some that
\* wait spend it.
ForgetsStranded(p) ==
  page[p].job # NoJob /\ \E w \in Range(store.writes) : Spent(w.tx) \cap page[p].job.stranded # {}

NotReached(p) ==
  /\ page[p].job # NoJob /\ page[p].job.pc = "send"
  /\ EndedUnanswered(p)
  /\ clean' = (clean /\ ~ForgetsStranded(p))
  /\ UNCHANGED <<node, txs, used>>

\* The node has decided and its answer is lost.
AnswerLost(p) ==
  /\ page[p].job # NoJob /\ page[p].job.pc \in {"taken", "refused", "clash"}
  /\ used < MaxEvents
  /\ EndedUnanswered(p)
  /\ used' = used + 1
  /\ clean' = (clean /\ page[p].job.pc # "taken" /\ ~ForgetsStranded(p))
  /\ UNCHANGED <<node, txs>>

-----------------------------------------------------------------------------
(* The page's own reads. *)

\* A corner read a node answers: the tip is known, orphans are released and a
\* pass is queued.
CornerTick(p) ==
  /\ page[p].open
  /\ LET entries == OrphansReleased(store, page[p].entries, TRUE)
     IN  /\ page' = [page EXCEPT ![p] = [Triggered(@) EXCEPT !.tip = TRUE, !.entries = entries]]
         /\ store' = Persisted(store, p, entries)
  /\ UNCHANGED <<lock, node, txs, ended, clean, used>>

\* The first page of the feed, answered, queues a pass too.
LoadFeed(p) ==
  /\ page[p].open
  /\ page' = [page EXCEPT ![p] = Triggered(@)]
  /\ UNCHANGED <<store, lock, node, txs, ended, clean, used>>

\* A tip run names the chain or none; a newly named one is remembered and
\* queues a pass.
VerifiedTip(p) ==
  /\ page[p].open
  /\ \E k \in {node.chain, NoChain} \ {page[p].tipChain} :
       LET named == [page[p] EXCEPT !.tipChain = k]
       IN  /\ k = NoChain => used < MaxEvents
           /\ used' = used + (IF k = NoChain THEN 1 ELSE 0)
           /\ page' = [page EXCEPT ![p] = IF k = NoChain THEN named ELSE Triggered(named)]
           /\ store' = IF k = NoChain THEN store ELSE [store EXCEPT !.chain = k]
  /\ UNCHANGED <<lock, node, txs, ended, clean>>

\* reconcile: a submitted entry leaves once the node's blocks show it, or once
\* it can no longer: its height passed, or a post nobody knows.
Reconcile(p) ==
  /\ page[p].open
  /\ \E t \in TxIds \ node.pool :
       /\ page[p].entries[t] = "sent"
       /\ LET entries == [page[p].entries EXCEPT ![t] = "none"]
          IN  /\ page' = [page EXCEPT ![p].entries = entries]
              /\ store' = Persisted(store, p, entries)
  /\ UNCHANGED <<lock, node, txs, ended, clean, used>>

-----------------------------------------------------------------------------
(* The surroundings: pages close and open, blocks come, the network starts  *)
(* over on another chain.                                                   *)

Closed == [open |-> FALSE, tipChain |-> NoChain, tip |-> FALSE,
           entries |-> [t \in TxIds |-> "none"], inFlight |-> FALSE, passChain |-> NoChain,
           job |-> NoJob]

\* A page goes, its job wherever it stands; the browser frees its lock.
Close(p) ==
  /\ page[p].open /\ used < MaxEvents
  /\ page' = [page EXCEPT ![p] = Closed]
  /\ lock' = IF lock = p THEN NoPage ELSE lock
  /\ clean' = (clean /\ (page[p].job = NoJob \/ page[p].job.pc # "taken") /\ ~ForgetsStranded(p))
  /\ used' = used + 1
  /\ UNCHANGED <<store, node, txs, ended>>

\* A page opens and restores the ledger as storage has it.
Open(p) ==
  /\ ~page[p].open
  /\ page' = [page EXCEPT ![p] = [Closed EXCEPT !.open = TRUE, !.entries = store.pending]]
  /\ UNCHANGED <<store, lock, node, txs, ended, clean, used>>

BlockTakes(t) ==
  /\ t \in node.pool
  /\ \A u \in node.pool : Spent(t) \cap Changes(u) = {}
  /\ node' = [node EXCEPT !.pool = @ \ {t}, !.confirmed = @ \cup {t}]
  /\ UNCHANGED <<store, page, lock, txs, ended, clean, used>>

NewChain ==
  /\ node.chain < LastChain /\ used < MaxEvents
  /\ node' = [chain |-> node.chain + 1, pool |-> {}, confirmed |-> {}]
  /\ clean' = FALSE
  /\ used' = used + 1
  /\ UNCHANGED <<store, page, lock, txs, ended>>

-----------------------------------------------------------------------------
Init ==
  /\ store = [base |-> NoBase, writes |-> <<>>, pending |-> [t \in TxIds |-> "none"], chain |-> 1]
  /\ page = [p \in Pages |-> [Closed EXCEPT !.open = TRUE, !.tipChain = 1, !.tip = TRUE]]
  /\ lock = NoPage
  /\ node = [chain |-> 1, pool |-> {}, confirmed |-> {}]
  /\ txs = <<>>
  /\ ended = {}
  /\ clean = TRUE
  /\ used = 0

Next ==
  \/ \E p \in Pages :
       \/ PressAnswered(p) \/ PressUnanswered(p) \/ PressBurn(p)
       \/ Declines(p) \/ Signs(p)
       \/ TakeTurn(p) \/ BeginFlush(p) \/ Reaches(p) \/ NotReached(p) \/ AnswerLost(p)
       \/ AnsweredFlow(p) \/ AnsweredFlush(p)
       \/ CornerTick(p) \/ LoadFeed(p) \/ VerifiedTip(p) \/ Reconcile(p)
       \/ Close(p) \/ Open(p)
  \/ \E t \in DOMAIN txs : BlockTakes(t)
  \/ NewChain

\* What a page's job waits for comes: the reader answers the prompt, a request
\* ends.  A closed page is opened again and an open one reads its corner, the
\* tip run names the chain, a queue and the lock go to who has waited longest,
\* and among the pass's requests some reach the node.
Fairness ==
  \A p \in Pages :
    /\ WF_vars(Declines(p) \/ Signs(p) \/ Reaches(p) \/ NotReached(p) \/ AnsweredFlow(p) \/ AnsweredFlush(p))
    /\ WF_vars(Open(p) \/ CornerTick(p))
    /\ WF_vars(VerifiedTip(p) /\ page'[p].tipChain # NoChain)
    /\ SF_vars(TakeTurn(p) \/ BeginFlush(p))
    /\ SF_vars(Reaches(p) /\ page[p].job.kind = "flush")

Spec == Init /\ [][Next]_vars
FairSpec == Spec /\ Fairness

-----------------------------------------------------------------------------
TypeOK ==
  /\ lock \in Pages \cup {NoPage}
  /\ \A p \in Pages : page[p].job # NoJob => lock = p
  /\ IsInjective([i \in DOMAIN store.writes |-> store.writes[i].tx])
  /\ Taken \subseteq DOMAIN txs

\* The view a press with no answer would build from offers each box once, and
\* never a box that a transaction the node took, or one that waits, has spent.
ViewOffersUnspent ==
  (clean /\ lock = NoPage /\ ReadBase(store, node.chain) # NoBase) =>
    LET view == View(store, node.chain)
        live == Taken \cup {t \in TxIds : Waits(store, t)}
    IN  IsInjective(view) /\ Range(view) \cap UNION {Spent(t) : t \in live} = {}

\* The types, and a sound view.
ViewSound == TypeOK /\ ViewOffersUnspent

\* A waiting write the node refuses is refused for what it asks, never for a
\* box another write of the reader has spent or has not made yet; a press is
\* refused for a box only where the write that makes it still waits.
RefusedForItself ==
  \A p \in Pages :
    (clean /\ page[p].job # NoJob /\ page[p].job.pc = "clash") =>
      /\ page[p].job.kind = "press"
      /\ \E w \in Range(store.writes) : Changes(w.tx) \cap Spent(page[p].job.tx) # {}

\* What the reader is told was refused or not sent is not in the pool or in a
\* block.
EndedNotTaken == clean => ended \cap Taken = {}

\* A write ends refused for a reason of its own and truthfully (flushWaiting).
RefusedRightly == RefusedForItself /\ EndedNotTaken

SomethingWaits ==
  \/ store.writes # <<>>
  \/ \E p \in Pages, t \in TxIds : page[p].entries[t] = "waiting"

\* Whatever waits goes out or ends, and no page shows a write as waiting for
\* good: an entry goes on when its record goes, whichever page sent it.
WaitingEnds == SomethingWaits ~> ~SomethingWaits
=============================================================================
