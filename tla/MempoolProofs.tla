--------------------------- MODULE MempoolProofs ---------------------------
(***************************************************************************)
(* Theorems about the mempool, for every table of transactions, every menu *)
(* of peer blocks, every cap, budget and expiry: the pool's tables stay    *)
(* sound, the template at rest applies to the tip, and the sweep after a   *)
(* mined block takes nothing.                                              *)
(*                                                                         *)
(* PoolSound is not inductive.  A box is spent for good because its        *)
(* spender's own inputs stay spent, so the chain must only hold blocks     *)
(* that applied; what a switch has still to put back must be feedable;     *)
(* and the rows of the template and of the sweep must name entries whose   *)
(* transactions the block holds.                                           *)
(***************************************************************************)
EXTENDS Mempool, SumProofs

\* A block is a peer's or one mined here: an accepted body without a settlement of note.
MinedBlocks == [txs : Seq(Txs), spends : {{}}, makes : {{}}, spoils : {{}}]
Blocks == PeerBlocks \cup MinedBlocks

SpentAt(b) == InsOf(ToSet(b.txs)) \cup b.spends
MadeAt(b) == OutsOf(ToSet(b.txs)) \cup b.makes
Distinct(s) == \A i, j \in DOMAIN s : s[i] = s[j] => i = j

\* What a block spends was there or made by it or before, no transaction spends what an
\* earlier block spent, and a body holds each transaction once.
ChainSound(c) ==
  /\ c \in Seq(Blocks)
  /\ \A j \in DOMAIN c : \A x \in SpentAt(c[j]) :
       x \in GenesisBoxes \/ \E i \in 1 .. j : x \in MadeAt(c[i])
  /\ \A i, j \in DOMAIN c : i < j => InsOf(ToSet(c[j].txs)) \cap SpentAt(c[i]) = {}
  /\ \A i \in DOMAIN c : Distinct(c[i].txs)

\* What may feed an entry.
Sources ==
  Live(chain) \cup PendingOutputs(pool) \cup OutsOf(dropped \cup ToSet(back))
    \cup (SettlementBoxes \ Settled(chain))

\* The transactions still to be put back: each once, none in the pool, none with a spent
\* input, all fed, their posts pending, and rows enough for them.
BackSound ==
  /\ pc # "switching" => back = <<>>
  /\ pc = "switching" => newTip > 0
  /\ Distinct(back)
  /\ TxsIn(pool) \cap ToSet(back) = {}
  /\ InsOf(ToSet(back)) \cap Spent(chain) = {}
  /\ InsOf(ToSet(back)) \subseteq Sources
  /\ PostsOf(ToSet(back)) \subseteq pending
  /\ nextRow + Len(back) <= MaxRows + 1

\* The template's rows that are still in the pool belong to its transactions.
TemplateSound ==
  template # None =>
    /\ template.txs \in Seq(Txs) /\ template.rows \subseteq 1 .. nextRow - 1
    /\ \A e \in RowsOf(template.rows) : e.tx \in ToSet(template.txs)

\* The rows to be swept left the pool as their block was followed.
SweepSound == RowsOf(sweep) = {} /\ (pc \in {"idle", "switching"} => sweep = {})

\* The inductive invariant.
IInv ==
  ChainSound(chain) /\ IsFiniteSet(pool) /\ BackSound /\ TemplateSound /\ SweepSound /\ PoolSound

-----------------------------------------------------------------------------
(* What the unions over transactions and blocks hold. *)

(* What some transactions spend. *)
LEMMA InsAre == ASSUME NEW S, NEW x PROVE x \in InsOf(S) <=> \E t \in S : x \in Tx[t].ins
  BY DEF InsOf

(* What they make. *)
LEMMA OutsAre == ASSUME NEW S, NEW x PROVE x \in OutsOf(S) <=> \E t \in S : x \in Tx[t].outs
  BY DEF OutsOf

(* Their posts. *)
LEMMA PostsAre == ASSUME NEW S, NEW x PROVE x \in PostsOf(S) <=> x # NoPost /\ \E t \in S : x = Tx[t].post
  BY DEF PostsOf

(* The transactions of some entries. *)
LEMMA TxsInAre == ASSUME NEW E, NEW t PROVE t \in TxsIn(E) <=> \E e \in E : e.tx = t
  BY DEF TxsIn

(* The transactions of a chain. *)
LEMMA TxsOfAre == ASSUME NEW c, NEW t PROVE t \in TxsOf(c) <=> \E i \in DOMAIN c : t \in ToSet(c[i].txs)
  BY DEF TxsOf

(* The boxes a chain's settlements made. *)
LEMMA SettledAre == ASSUME NEW c, NEW x PROVE x \in Settled(c) <=> \E i \in DOMAIN c : x \in c[i].makes
  BY DEF Settled

(* What a chain spent. *)
LEMMA SpentAre == ASSUME NEW c, NEW x PROVE x \in Spent(c) <=> \E i \in DOMAIN c : x \in SpentAt(c[i])
<1>1. x \in UNION {c[i].spends : i \in DOMAIN c} <=> \E i \in DOMAIN c : x \in c[i].spends
  OBVIOUS
<1>2. x \in InsOf(TxsOf(c)) <=> \E i \in DOMAIN c : x \in InsOf(ToSet(c[i].txs))
  BY InsAre, TxsOfAre
<1> QED BY <1>1, <1>2 DEF Spent, SpentAt

\* The chain a is c with the block b.
Grown(a, c, b) ==
  /\ TxsOf(a) = TxsOf(c) \cup ToSet(b.txs)
  /\ Spent(a) = Spent(c) \cup SpentAt(b)
  /\ Settled(a) = Settled(c) \cup b.makes

(* One more block. *)
LEMMA Appended ==
  ASSUME NEW S, NEW c \in Seq(S), NEW b \in S, NEW a, a = Append(c, b)
  PROVE  Grown(a, c, b) /\ a \in Seq(S) /\ Len(a) = Len(c) + 1
<1>1. DOMAIN a = DOMAIN c \cup {Len(c) + 1} /\ a[Len(c) + 1] = b /\ \A i \in DOMAIN c : a[i] = c[i]
  OBVIOUS
<1> DEFINE n == Len(c) + 1
<1> HIDE DEF n
<1>2. DOMAIN a = DOMAIN c \cup {n} /\ a[n] = b /\ \A i \in DOMAIN c : a[i] = c[i]
  BY <1>1 DEF n
<1>3. \A t : t \in TxsOf(a) <=> t \in TxsOf(c) \/ t \in ToSet(b.txs)
  BY <1>2, TxsOfAre
<1>4. \A x : x \in Spent(a) <=> x \in Spent(c) \/ x \in SpentAt(b)
  BY <1>2, SpentAre
<1>5. \A x : x \in Settled(a) <=> x \in Settled(c) \/ x \in b.makes
  <2> TAKE x
  <2>1. x \in Settled(a) <=> \E i \in DOMAIN a : x \in a[i].makes
    BY SettledAre
  <2>2. x \in Settled(c) <=> \E i \in DOMAIN c : x \in c[i].makes
    BY SettledAre
  <2> QED BY <1>2, <2>1, <2>2
<1> QED BY <1>3, <1>4, <1>5 DEF Grown

\* R are the transactions of the blocks above the n-th.
Above(c, n, R) == \A t : t \in R <=> \E i \in n + 1 .. Len(c) : t \in ToSet(c[i].txs)

\* The chain a is c without some blocks at its end, whose transactions are R.
Shrunk(a, c, R) ==
  TxsOf(c) = TxsOf(a) \cup R /\ Spent(a) \subseteq Spent(c) /\ Settled(a) \subseteq Settled(c)

(* The blocks up to a fork and those above it. *)
LEMMA Cut ==
  ASSUME NEW S, NEW c \in Seq(S), NEW n \in 0 .. Len(c), NEW a, a = SubSeq(c, 1, n),
         NEW R, Above(c, n, R)
  PROVE  a \in Seq(S) /\ Len(a) = n /\ (\A i \in 1 .. n : a[i] = c[i]) /\ Shrunk(a, c, R)
<1>1. a \in Seq(S) /\ Len(a) = n /\ \A i \in 1 .. n : a[i] = c[i]
  OBVIOUS
<1>2. DOMAIN c = DOMAIN a \cup (n + 1 .. Len(c)) /\ DOMAIN a = 1 .. n
  <2>1. Len(c) \in Nat /\ DOMAIN c = 1 .. Len(c) /\ DOMAIN a = 1 .. n
    BY <1>1
  <2>2. 1 .. Len(c) = 1 .. n \cup (n + 1 .. Len(c))
    BY <2>1
  <2> QED BY <2>1, <2>2
<1> DEFINE up == n + 1 .. Len(c)
<1> HIDE DEF up
<1>3. DOMAIN c = DOMAIN a \cup up /\ \A i \in DOMAIN a : a[i] = c[i]
  BY <1>1, <1>2 DEF up
<1>4. \A t : t \in R <=> \E i \in up : t \in ToSet(c[i].txs)
  BY DEF up, Above
<1>5. \A t : t \in TxsOf(c) <=> t \in TxsOf(a) \/ t \in R
  <2> TAKE t
  <2>1. t \in TxsOf(c) <=> \E i \in DOMAIN c : t \in ToSet(c[i].txs)
    BY TxsOfAre
  <2>2. t \in TxsOf(a) <=> \E i \in DOMAIN a : t \in ToSet(a[i].txs)
    BY TxsOfAre
  <2> QED BY <1>3, <1>4, <2>1, <2>2
<1>6. \A x : x \in Spent(a) => x \in Spent(c)
  BY <1>3, SpentAre
<1>7. \A x : x \in Settled(a) => x \in Settled(c)
  BY <1>3, SettledAre
<1> QED BY <1>1, <1>5, <1>6, <1>7 DEF Shrunk
-----------------------------------------------------------------------------
(* The chain. *)

(* What a block is. *)
LEMMA BlockTypes ==
  ASSUME NEW b \in Blocks
  PROVE  /\ b.txs \in Seq(Txs) /\ ToSet(b.txs) \subseteq Txs
         /\ b.makes \subseteq SettlementBoxes
<1>1. b.txs \in Seq(Txs)
  <2>1. CASE b \in PeerBlocks
    BY <2>1, BlockAssumption
  <2>2. CASE b \in MinedBlocks
    BY <2>2 DEF MinedBlocks
  <2> QED BY <2>1, <2>2 DEF Blocks
<1>2. b.makes \subseteq SettlementBoxes
  <2>1. CASE b \in PeerBlocks
    BY <2>1 DEF SettlementBoxes
  <2>2. CASE b \in MinedBlocks
    BY <2>2 DEF MinedBlocks
  <2> QED BY <2>1, <2>2 DEF Blocks
<1>3. ToSet(b.txs) \subseteq Txs
  BY <1>1 DEF ToSet
<1> QED BY <1>1, <1>2, <1>3

(* What a chain's blocks hold. *)
LEMMA ChainTypes ==
  ASSUME NEW c \in Seq(Blocks)
  PROVE  TxsOf(c) \subseteq Txs /\ Settled(c) \subseteq SettlementBoxes
<1>1. \A i \in DOMAIN c : c[i] \in Blocks
  OBVIOUS
<1> QED BY <1>1, BlockTypes, TxsOfAre, SettledAre

(* A box of a transaction is of that transaction alone. *)
LEMMA OutsOnce ==
  ASSUME NEW t \in Txs, NEW x \in Tx[t].outs
  PROVE  /\ x \notin GenesisBoxes /\ x \notin SettlementBoxes
         /\ \A S \in SUBSET Txs : x \in OutsOf(S) => t \in S
<1>1. x \notin SettlementBoxes
  BY BlockAssumption DEF SettlementBoxes
<1>2. ASSUME NEW S \in SUBSET Txs, x \in OutsOf(S) PROVE t \in S
  <2>1. PICK u \in S : x \in Tx[u].outs
    BY <1>2, OutsAre
  <2>2. u = t
    BY <2>1, TxAssumption
  <2> QED BY <2>2
<1> QED BY <1>1, <1>2, TxAssumption

(* A spent box is made by the chain. *)
LEMMA SpentMade ==
  ASSUME NEW c, ChainSound(c), NEW x \in Spent(c)
  PROVE  x \in GenesisBoxes \cup OutsOf(TxsOf(c)) \cup Settled(c)
<1>1. PICK j \in DOMAIN c : x \in SpentAt(c[j])
  BY SpentAre
<1>2. x \in GenesisBoxes \/ \E i \in 1 .. j : x \in MadeAt(c[i])
  BY <1>1 DEF ChainSound
<1>3. ASSUME NEW i \in 1 .. j, x \in MadeAt(c[i]) PROVE x \in OutsOf(TxsOf(c)) \cup Settled(c)
  <2>1. i \in DOMAIN c
    BY DEF ChainSound
  <2>2. CASE x \in OutsOf(ToSet(c[i].txs))
    BY <2>1, <2>2, OutsAre, TxsOfAre
  <2>3. CASE x \in c[i].makes
    BY <2>1, <2>3, SettledAre
  <2> QED BY <1>3, <2>2, <2>3 DEF MadeAt
<1> QED BY <1>2, <1>3

(* A transaction whose box is spent is on the chain, so what it spends is spent. *)
LEMMA MakerSpends ==
  ASSUME NEW c, ChainSound(c), NEW t \in Txs, NEW x \in Tx[t].outs, x \in Spent(c)
  PROVE  t \in TxsOf(c) /\ \E y \in Tx[t].ins : y \in Spent(c)
<1>1. c \in Seq(Blocks)
  BY DEF ChainSound
<1>2. TxsOf(c) \subseteq Txs /\ Settled(c) \subseteq SettlementBoxes
  BY <1>1, ChainTypes
<1>3. t \in TxsOf(c)
  BY <1>2, SpentMade, OutsOnce
<1>4. Tx[t].ins \subseteq Spent(c) /\ Tx[t].ins # {}
  BY <1>3, InsAre, TxAssumption DEF Spent
<1> QED BY <1>3, <1>4

(* A body that applies spends nothing spent, and each transaction once. *)
LEMMA BodyFresh ==
  ASSUME NEW c, ChainSound(c), NEW ts \in Seq(Txs), BodyApplies(c, ts)
  PROVE  /\ InsOf(ToSet(ts)) \cap Spent(c) = {} /\ Distinct(ts)
         /\ \A x \in InsOf(ToSet(ts)) : x \in Live(c) \cup OutsOf(ToSet(ts))
<1> DEFINE before(i) == {ts[l] : l \in 1 .. i - 1}
<1>1. \A i \in DOMAIN ts : Tx[ts[i]].ins \subseteq (Live(c) \cup OutsOf(before(i))) \ InsOf(before(i))
  BY DEF BodyApplies, Applies
<1>2. \A i \in DOMAIN ts : \A t \in before(i) : \E l \in DOMAIN ts : l < i /\ t = ts[l]
  OBVIOUS
<1>3. \A i, l \in DOMAIN ts : l < i => ts[l] \in before(i)
  OBVIOUS
<1>4. DOMAIN ts \subseteq Nat /\ \A i \in DOMAIN ts : ts[i] \in Txs
  OBVIOUS
<1> HIDE DEF before
<1> DEFINE bad == {i \in DOMAIN ts : Tx[ts[i]].ins \cap Spent(c) # {}}
<1>5. bad = {}
  <2> SUFFICES ASSUME bad # {} PROVE FALSE
    OBVIOUS
  <2>1. bad \subseteq Nat
    BY <1>4
  <2>2. Min(bad) \in bad /\ \A y \in bad : Min(bad) <= y
    <3> HIDE DEF bad
    <3> QED BY <2>1, MinOf
  <2> DEFINE i == Min(bad)
  <2>3. PICK x : x \in Tx[ts[i]].ins /\ x \in Spent(c)
    BY <2>2
  <2>4. i \in DOMAIN ts
    BY <2>2
  <2> HIDE DEF i
  <2>5. x \in OutsOf(before(i))
    BY <1>1, <2>3, <2>4 DEF Live
  <2>6. PICK l \in DOMAIN ts : l < i /\ x \in Tx[ts[l]].outs
    BY <1>2, <2>4, <2>5, OutsAre
  <2>7. l \in bad
    BY <1>4, <2>3, <2>6, MakerSpends
  <2>8. i <= l /\ l \in Nat /\ i \in Nat
    BY <2>2, <2>7, <2>1 DEF i
  <2> QED BY <2>6, <2>8
<1>6. InsOf(ToSet(ts)) \cap Spent(c) = {}
  <2>1. \A t \in ToSet(ts) : \E i \in DOMAIN ts : t = ts[i]
    BY DEF ToSet
  <2> QED BY <1>5, <2>1, InsAre
<1>7. ASSUME NEW i \in DOMAIN ts, NEW l \in DOMAIN ts, l < i, ts[i] = ts[l] PROVE FALSE
  <2>1. Tx[ts[i]].ins \subseteq InsOf(before(i))
    BY <1>3, <1>7, InsAre
  <2>2. Tx[ts[i]].ins # {}
    BY <1>4, TxAssumption
  <2> QED BY <1>1, <2>1, <2>2
<1>8. Distinct(ts)
  <2> SUFFICES ASSUME NEW i \in DOMAIN ts, NEW l \in DOMAIN ts, ts[i] = ts[l] PROVE i = l
    BY DEF Distinct
  <2>1. i \in Nat /\ l \in Nat
    BY <1>4
  <2> QED BY <1>7, <2>1
<1>9. ASSUME NEW x \in InsOf(ToSet(ts)) PROVE x \in Live(c) \cup OutsOf(ToSet(ts))
  <2>1. PICK i \in DOMAIN ts : x \in Tx[ts[i]].ins
    BY InsAre DEF ToSet
  <2>2. CASE x \in OutsOf(before(i))
    <3>1. PICK t \in before(i) : x \in Tx[t].outs
      BY <2>2, OutsAre
    <3>2. t \in ToSet(ts)
      BY <1>2 DEF ToSet
    <3> QED BY <3>1, <3>2, OutsAre
  <2> QED BY <1>1, <2>1, <2>2
<1> QED BY <1>6, <1>8, <1>9

(* What a block that applies spends. *)
LEMMA BlockFresh ==
  ASSUME NEW c, ChainSound(c), NEW b \in Blocks, BlockApplies(c, b)
  PROVE  /\ InsOf(ToSet(b.txs)) \cap Spent(c) = {} /\ Distinct(b.txs)
         /\ \A x \in SpentAt(b) : x \in Live(c) \cup OutsOf(ToSet(b.txs))
         /\ b.spends \subseteq Live(c)
<1>1. b.txs \in Seq(Txs) /\ BodyApplies(c, b.txs)
  BY BlockTypes DEF BlockApplies
<1>2. b.spends \subseteq Live(c)
  BY DEF BlockApplies
<1> QED BY <1>1, <1>2, BodyFresh DEF SpentAt

(* The chain stays sound as it grows. *)
LEMMA SoundAppended ==
  ASSUME NEW c, ChainSound(c), NEW b \in Blocks, BlockApplies(c, b), NEW a, a = Append(c, b)
  PROVE  ChainSound(a)
<1> DEFINE n == Len(c) + 1
<1>1. c \in Seq(Blocks) /\ a \in Seq(Blocks)
  BY DEF ChainSound
<1>2. /\ DOMAIN a = 1 .. n /\ n \in Nat /\ a[n] = b /\ DOMAIN c = 1 .. n - 1
      /\ \A i \in 1 .. n - 1 : a[i] = c[i]
  BY <1>1
<1> HIDE DEF n
<1>3. \A i \in 1 .. n : i = n \/ i \in 1 .. n - 1
  BY <1>2
<1>4. ASSUME NEW j \in 1 .. n, NEW x \in SpentAt(a[j])
      PROVE x \in GenesisBoxes \/ \E i \in 1 .. j : x \in MadeAt(a[i])
  <2>1. CASE j \in 1 .. n - 1
    <3>1. x \in GenesisBoxes \/ \E i \in 1 .. j : x \in MadeAt(c[i])
      BY <1>2, <1>4, <2>1 DEF ChainSound
    <3>2. \A i \in 1 .. j : a[i] = c[i]
      BY <1>2, <2>1
    <3> QED BY <3>1, <3>2
  <2>2. CASE j = n
    <3>1. x \in Live(c) \cup OutsOf(ToSet(b.txs))
      BY <1>2, <1>4, <2>2, BlockFresh
    <3>2. CASE x \in OutsOf(ToSet(b.txs))
      <4>1. n \in 1 .. j /\ x \in MadeAt(a[n])
        BY <1>2, <2>2, <3>2 DEF MadeAt
      <4> QED BY <4>1
    <3>3. CASE x \in OutsOf(TxsOf(c))
      <4>1. PICK i \in 1 .. n - 1 : x \in OutsOf(ToSet(c[i].txs))
        BY <1>2, <3>3, OutsAre, TxsOfAre
      <4>2. i \in 1 .. j /\ x \in MadeAt(a[i])
        BY <1>2, <2>2, <4>1 DEF MadeAt
      <4> QED BY <4>2
    <3>4. CASE x \in Settled(c)
      <4>1. PICK i \in 1 .. n - 1 : x \in c[i].makes
        BY <1>2, <3>4, SettledAre
      <4>2. i \in 1 .. j /\ x \in MadeAt(a[i])
        BY <1>2, <2>2, <4>1 DEF MadeAt
      <4> QED BY <4>2
    <3> QED BY <3>1, <3>2, <3>3, <3>4 DEF Live
  <2> QED BY <1>3, <2>1, <2>2
<1>5. ASSUME NEW i \in 1 .. n, NEW j \in 1 .. n, i < j
      PROVE InsOf(ToSet(a[j].txs)) \cap SpentAt(a[i]) = {}
  <2>1. i \in 1 .. n - 1
    BY <1>2, <1>5
  <2>2. CASE j \in 1 .. n - 1
    BY <1>2, <1>5, <2>1, <2>2 DEF ChainSound
  <2>3. CASE j = n
    <3>1. SpentAt(a[i]) \subseteq Spent(c)
      BY <1>2, <2>1, SpentAre
    <3>2. InsOf(ToSet(b.txs)) \cap Spent(c) = {}
      BY BlockFresh
    <3> QED BY <1>2, <2>3, <3>1, <3>2
  <2> QED BY <1>3, <2>2, <2>3
<1>6. \A i \in 1 .. n : Distinct(a[i].txs)
  <2> TAKE i \in 1 .. n
  <2>1. CASE i \in 1 .. n - 1
    BY <1>2, <2>1 DEF ChainSound
  <2>2. CASE i = n
    BY <1>2, <2>2, BlockFresh
  <2> QED BY <1>3, <2>1, <2>2
<1> QED BY <1>1, <1>2, <1>4, <1>5, <1>6 DEF ChainSound

(* It stays sound as blocks are reverted. *)
LEMMA SoundCut ==
  ASSUME NEW c, ChainSound(c), NEW n \in 0 .. Len(c), NEW a, a = SubSeq(c, 1, n)
  PROVE  ChainSound(a)
<1>1. c \in Seq(Blocks) /\ DOMAIN c = 1 .. Len(c) /\ Len(c) \in Nat
  BY DEF ChainSound
<1>2. a \in Seq(Blocks) /\ DOMAIN a = 1 .. n /\ \A i \in 1 .. n : a[i] = c[i] /\ i \in DOMAIN c
  BY <1>1
<1>3. ASSUME NEW j \in 1 .. n, NEW x \in SpentAt(a[j])
      PROVE x \in GenesisBoxes \/ \E i \in 1 .. j : x \in MadeAt(a[i])
  <2>1. x \in GenesisBoxes \/ \E i \in 1 .. j : x \in MadeAt(c[i])
    BY <1>2, <1>3 DEF ChainSound
  <2>2. \A i \in 1 .. j : a[i] = c[i]
    BY <1>2
  <2> QED BY <2>1, <2>2
<1>4. \A i, j \in 1 .. n : i < j => InsOf(ToSet(a[j].txs)) \cap SpentAt(a[i]) = {}
  BY <1>2 DEF ChainSound
<1>5. \A i \in 1 .. n : Distinct(a[i].txs)
  BY <1>2 DEF ChainSound
<1> QED BY <1>2, <1>3, <1>4, <1>5 DEF ChainSound

-----------------------------------------------------------------------------
(* The transactions a switch reverts. *)

(* Two sequences in a row. *)
LEMMA Joined ==
  ASSUME NEW S, NEW q \in Seq(S), NEW r \in Seq(S), Distinct(q), Distinct(r),
         ToSet(q) \cap ToSet(r) = {}
  PROVE  q \o r \in Seq(S) /\ Distinct(q \o r) /\ ToSet(q \o r) = ToSet(q) \cup ToSet(r)
<1> DEFINE s == q \o r
           m == Len(q)
           n == Len(r)
<1>1. /\ s \in Seq(S) /\ Len(s) = m + n /\ m \in Nat /\ n \in Nat
      /\ \A i \in 1 .. m + n : s[i] = IF i <= m THEN q[i] ELSE r[i - m]
  OBVIOUS
<1>2. DOMAIN q = 1 .. m /\ DOMAIN r = 1 .. n /\ DOMAIN s = 1 .. m + n
  OBVIOUS
<1> HIDE DEF s, m, n
<1>3. \A i \in 1 .. m : s[i] = q[i] /\ i \in 1 .. m + n
  BY <1>1
<1>4. \A i \in 1 .. n : s[i + m] = r[i] /\ i + m \in 1 .. m + n
  BY <1>1
<1>5. \A i \in 1 .. m + n : i \in 1 .. m \/ (i - m \in 1 .. n /\ i = (i - m) + m)
  BY <1>1
<1>6. \A i \in 1 .. m + n : IF i \in 1 .. m THEN s[i] = q[i] /\ s[i] \in ToSet(q)
                            ELSE i - m \in 1 .. n /\ s[i] = r[i - m] /\ s[i] \in ToSet(r)
  BY <1>2, <1>3, <1>4, <1>5 DEF ToSet
<1>7. Distinct(s)
  <2> SUFFICES ASSUME NEW i \in 1 .. m + n, NEW j \in 1 .. m + n, s[i] = s[j] PROVE i = j
    BY <1>2 DEF Distinct
  <2>1. CASE i \in 1 .. m /\ j \in 1 .. m
    BY <1>2, <1>6, <2>1 DEF Distinct
  <2>2. CASE i \notin 1 .. m /\ j \notin 1 .. m
    <3>1. i - m = j - m
      BY <1>2, <1>6, <2>2 DEF Distinct
    <3> QED BY <1>1, <3>1
  <2>3. CASE (i \in 1 .. m) # (j \in 1 .. m)
    BY <1>6, <2>3
  <2> QED BY <2>1, <2>2, <2>3
<1>8. ToSet(s) = ToSet(q) \cup ToSet(r)
  <2>1. \A x \in ToSet(s) : x \in ToSet(q) \cup ToSet(r)
    BY <1>2, <1>6 DEF ToSet
  <2>2. \A x \in ToSet(q) : x \in ToSet(s)
    BY <1>2, <1>3 DEF ToSet
  <2>3. \A x \in ToSet(r) : x \in ToSet(s)
    BY <1>2, <1>4 DEF ToSet
  <2> QED BY <2>1, <2>2, <2>3
<1> QED BY <1>1, <1>7, <1>8 DEF s

\* f is a value of the recursion of FlattenSeq, up to n.
IsFlatten(f, s, n) == f = [i \in 1 .. n |-> IF i = 1 THEN s[i] ELSE f[i - 1] \o s[i]]

(* A sequence of sequences flattened. *)
LEMMA Flattened ==
  ASSUME NEW S, NEW n \in Nat \ {0}, NEW s \in Seq(Seq(S)), Len(s) = n,
         \A i \in 1 .. n : Distinct(s[i]),
         \A i, j \in 1 .. n : i < j => ToSet(s[i]) \cap ToSet(s[j]) = {}
  PROVE  /\ FlattenSeq(s) \in Seq(S) /\ Distinct(FlattenSeq(s))
         /\ \A t : t \in ToSet(FlattenSeq(s)) <=> \E i \in 1 .. n : t \in ToSet(s[i])
<1>1. \A i \in 1 .. n : s[i] \in Seq(S)
  OBVIOUS
<1>2. \E f : IsFlatten(f, s, n)
  <2> DEFINE F == [i \in 1 .. n |-> [q \in Seq(S) |-> q \o s[i]]]
  <2>1. F \in [1 .. n -> [Seq(S) -> Seq(S)]] /\ <<>> \in Seq(S)
    BY <1>1
  <2>2. \A i \in 1 .. n : \A q \in Seq(S) : F[i][q] = q \o s[i]
    OBVIOUS
  <2> HIDE DEF F
  <2>3. Defined(n, Seq(S), <<>>, F)
    BY <2>1, Recursion
  <2>4. PICK g \in [0 .. n -> Seq(S)] : g[0] = <<>> /\ \A i \in 1 .. n : g[i] = F[i][g[i - 1]]
    BY <2>3 DEF Defined
  <2> DEFINE f == [i \in 1 .. n |-> g[i]]
  <2>5. \A i \in 1 .. n : f[i] = IF i = 1 THEN s[i] ELSE f[i - 1] \o s[i]
    <3> TAKE i \in 1 .. n
    <3>1. i - 1 \in 0 .. n /\ g[i - 1] \in Seq(S)
      OBVIOUS
    <3>2. g[i] = g[i - 1] \o s[i]
      BY <2>2, <2>4, <3>1
    <3>3. CASE i = 1
      <4>1. g[i - 1] = <<>> /\ s[i] \in Seq(S)
        BY <1>1, <2>4, <3>3
      <4>2. <<>> \o s[i] = s[i]
        BY <4>1
      <4> QED BY <3>2, <3>3, <4>1, <4>2
    <3>4. CASE i # 1
      <4>1. i - 1 \in 1 .. n
        BY <3>4
      <4> QED BY <3>2, <3>4, <4>1
    <3> QED BY <3>3, <3>4
  <2>6. f = [i \in 1 .. n |-> f[i]]
    OBVIOUS
  <2> HIDE DEF f
  <2>7. IsFlatten(f, s, n)
    BY <2>5, <2>6 DEF IsFlatten
  <2> QED BY <2>7
<1> DEFINE f == CHOOSE f : IsFlatten(f, s, n)
<1>3. IsFlatten(f, s, n)
  <2>1. (\E x : IsFlatten(x, s, n)) => IsFlatten(CHOOSE x : IsFlatten(x, s, n), s, n)
    BY Zenon
  <2> QED BY <1>2, <2>1
<1>4. FlattenSeq(s) = f[n]
  BY DEF FlattenSeq, IsFlatten
<1> HIDE DEF f
<1>5. \A i \in 1 .. n : f[i] = IF i = 1 THEN s[i] ELSE f[i - 1] \o s[i]
  BY <1>3 DEF IsFlatten
<1> DEFINE good(k) == /\ f[k] \in Seq(S) /\ Distinct(f[k])
                      /\ \A t : t \in ToSet(f[k]) <=> \E i \in 1 .. k : t \in ToSet(s[i])
           T == {k \in 0 .. n : k = 0 \/ good(k)}
<1> HIDE DEF good
<1>6. ASSUME NEW k \in 1 .. n, k - 1 \in T PROVE good(k)
  <2>1. CASE k = 1
    <3>1. f[k] = s[k] /\ 1 .. k = {k}
      BY <1>5, <2>1
    <3> QED BY <1>1, <3>1 DEF good
  <2>2. CASE k # 1
    <3>1. good(k - 1) /\ k - 1 \in 1 .. n /\ f[k] = f[k - 1] \o s[k]
      <4>1. k - 1 \in 1 .. n /\ k - 1 # 0
        BY <2>2
      <4>2. k - 1 = 0 \/ good(k - 1)
        BY <1>6, Zenon
      <4> QED BY <1>5, <2>2, <4>1, <4>2
    <3> DEFINE q == f[k - 1]
    <3>2. q \in Seq(S) /\ Distinct(q) /\ \A t : t \in ToSet(q) <=> \E i \in 1 .. k - 1 : t \in ToSet(s[i])
      BY <3>1 DEF good
    <3> HIDE DEF q, T
    <3>3. ToSet(q) \cap ToSet(s[k]) = {}
      <4>1. \A i \in 1 .. k - 1 : ToSet(s[i]) \cap ToSet(s[k]) = {}
        OBVIOUS
      <4> QED BY <3>2, <4>1
    <3>4. q \o s[k] \in Seq(S) /\ Distinct(q \o s[k]) /\ ToSet(q \o s[k]) = ToSet(q) \cup ToSet(s[k])
      BY <1>1, <3>2, <3>3, Joined
    <3>5. \A i : i \in 1 .. k <=> i \in 1 .. k - 1 \/ i = k
      OBVIOUS
    <3>6. \A t : t \in ToSet(f[k]) <=> \E i \in 1 .. k : t \in ToSet(s[i])
      BY <3>1, <3>2, <3>4, <3>5 DEF q
    <3> QED BY <3>1, <3>4, <3>6 DEF q, good
  <2> QED BY <2>1, <2>2
<1>7. 0 .. n \subseteq T
  <2>1. 0 \in T /\ \A k \in 1 .. n : k - 1 \in T => k \in T
    BY <1>6
  <2> HIDE DEF T
  <2> QED BY <2>1, Upto
<1>8. good(n)
  BY <1>7
<1> QED BY <1>4, <1>8 DEF good

(* What a switch reverts: the transactions above the fork, each once. *)
LEMMA ReturnedAre ==
  ASSUME ChainSound(chain), NEW fork \in 0 .. Tip, fork < Tip
  PROVE  /\ ReturnedTxs(fork) \in Seq(Txs) /\ Distinct(ReturnedTxs(fork))
         /\ \A t : t \in ToSet(ReturnedTxs(fork)) <=> \E i \in fork + 1 .. Tip : t \in ToSet(chain[i].txs)
<1> DEFINE n == Tip - fork
           s == [i \in 1 .. n |-> chain[fork + i].txs]
<1>1. chain \in Seq(Blocks) /\ Tip \in Nat /\ n \in Nat \ {0}
  BY DEF ChainSound, Tip
<1>2. \A i \in 1 .. n : fork + i \in DOMAIN chain /\ fork + i \in fork + 1 .. Tip
  BY <1>1 DEF Tip
<1>3. \A i \in fork + 1 .. Tip : i - fork \in 1 .. n /\ i = fork + (i - fork)
  BY <1>1
<1>4. \A i \in 1 .. n : s[i] = chain[fork + i].txs /\ chain[fork + i] \in Blocks
  BY <1>1, <1>2
<1>5. \A i \in 1 .. n : s[i] \in Seq(Txs)
  BY <1>4, BlockTypes
<1>6. s \in Seq(Seq(Txs)) /\ Len(s) = n
  BY <1>1, <1>5
<1>7. \A i \in 1 .. n : Distinct(s[i])
  BY <1>2, <1>4 DEF ChainSound
<1>8. ASSUME NEW i \in 1 .. n, NEW j \in 1 .. n, i < j PROVE ToSet(s[i]) \cap ToSet(s[j]) = {}
  <2> SUFFICES ASSUME NEW t, t \in ToSet(s[i]), t \in ToSet(s[j]) PROVE FALSE
    OBVIOUS
  <2> DEFINE p == fork + i
             q == fork + j
  <2>1. p \in DOMAIN chain /\ q \in DOMAIN chain /\ p < q
    BY <1>2, <1>8
  <2>2. s[i] = chain[p].txs /\ s[j] = chain[q].txs
    BY <1>4
  <2>3. t \in Txs
    BY <1>5 DEF ToSet
  <2> HIDE DEF p, q, s
  <2>4. InsOf(ToSet(chain[q].txs)) \cap SpentAt(chain[p]) = {}
    BY <2>1 DEF ChainSound
  <2>5. PICK y : y \in Tx[t].ins
    BY <2>3, TxAssumption
  <2>6. y \in InsOf(ToSet(chain[q].txs)) /\ y \in SpentAt(chain[p])
    BY <2>2, <2>5, InsAre DEF SpentAt
  <2> QED BY <2>4, <2>6
<1>9. FlattenSeq(s) = ReturnedTxs(fork)
  BY DEF ReturnedTxs
<1>10. \A t : (\E i \in 1 .. n : t \in ToSet(s[i])) <=> \E i \in fork + 1 .. Tip : t \in ToSet(chain[i].txs)
  BY <1>2, <1>3, <1>4
<1> HIDE DEF s, n
<1>11. /\ FlattenSeq(s) \in Seq(Txs) /\ Distinct(FlattenSeq(s))
       /\ \A t : t \in ToSet(FlattenSeq(s)) <=> \E i \in 1 .. n : t \in ToSet(s[i])
  BY <1>1, <1>6, <1>7, <1>8, Flattened
<1> QED BY <1>9, <1>10, <1>11

-----------------------------------------------------------------------------
(* The pool's tables. *)

\* The entries there can be before row n.
PoolEntries(n) == [row : 1 .. n - 1, tx : Txs, expires : 1 .. MaxHeight + 1 + Expiry]

\* Each class is within its cap.
Capped(E) ==
  /\ Cardinality(InClass(E, "credit")) <= CreditCap
  /\ Cardinality(InClass(E, "karma")) <= KarmaCap

\* The tables s are sound where these boxes are spent, these may feed an entry from outside
\* the pool, and these posts may have a pending row without an entry.
TableSound(s, spent, base, rows) ==
  /\ s.next \in Nat /\ s.pool \subseteq PoolEntries(s.next) /\ IsFiniteSet(s.pool)
  /\ \A e, x \in s.pool : e.row = x.row => e = x
  /\ \A e, x \in s.pool : e # x => Tx[e.tx].ins \cap Tx[x.tx].ins = {}
  /\ PendingSpends(s.pool) \cap spent = {}
  /\ PendingSpends(s.pool) \subseteq base \cup PendingOutputs(s.pool)
  /\ Capped(s.pool)
  /\ PostsOf(TxsIn(s.pool)) \subseteq s.pending /\ s.pending \subseteq Posts
  /\ s.pending \subseteq PostsOf(TxsIn(s.pool)) \cup rows

\* The tables u are s without some entries, no dependents of theirs and no rows of theirs.
Trim(s, u) ==
  /\ u.pool \subseteq s.pool /\ u.next = s.next
  /\ u.pending = s.pending \ PostsOf(TxsIn(s.pool \ u.pool))
  /\ \A e \in u.pool : \A d \in s.pool \ u.pool : Tx[e.tx].ins \cap Tx[d.tx].outs = {}

(* What the entries spend. *)
LEMMA SpendsAre ==
  ASSUME NEW E, NEW x PROVE x \in PendingSpends(E) <=> \E e \in E : x \in Tx[e.tx].ins
  BY InsAre, TxsInAre DEF PendingSpends

(* What they make. *)
LEMMA OutputsAre ==
  ASSUME NEW E, NEW x PROVE x \in PendingOutputs(E) <=> \E e \in E : x \in Tx[e.tx].outs
  BY OutsAre, TxsInAre DEF PendingOutputs

(* Their posts. *)
LEMMA PostsInAre ==
  ASSUME NEW E, NEW x PROVE x \in PostsOf(TxsIn(E)) <=> x # NoPost /\ \E e \in E : x = Tx[e.tx].post
  BY PostsAre, TxsInAre

(* A closure holds what it starts from and its own dependents. *)
LEMMA ClosureIs ==
  ASSUME NEW s, NEW E
  PROVE  /\ Closure(s, E) \subseteq s.pool
         /\ E \subseteq s.pool => E \subseteq Closure(s, E)
         /\ Dependents(s, Closure(s, E)) \subseteq Closure(s, E)
<1> DEFINE C == Closure(s, E)
           closed(S) == E \subseteq S /\ Dependents(s, S) \subseteq S
<1>1. \A e : e \in C <=> e \in s.pool /\ \A S \in SUBSET s.pool : closed(S) => e \in S
  BY DEF Closure
<1> HIDE DEF C
<1>2. \A S \in SUBSET s.pool : closed(S) => C \subseteq S
  BY <1>1
<1>3. ASSUME NEW S \in SUBSET s.pool, C \subseteq S PROVE Dependents(s, C) \subseteq Dependents(s, S)
  <2>1. TxsIn(C) \subseteq TxsIn(S)
    BY <1>3 DEF TxsIn
  <2>2. PendingOutputs(C) \subseteq PendingOutputs(S) /\ PostsOf(TxsIn(C)) \subseteq PostsOf(TxsIn(S))
    BY <2>1, OutsAre, PostsAre DEF PendingOutputs
  <2> QED BY <2>2 DEF Dependents
<1>4. Dependents(s, C) \subseteq s.pool
  BY DEF Dependents
<1>5. Dependents(s, C) \subseteq C
  BY <1>1, <1>2, <1>3, <1>4
<1>6. E \subseteq s.pool => E \subseteq C
  BY <1>1
<1> QED BY <1>1, <1>5, <1>6 DEF C

\* A record of the pool's tables.
Tables(s) == s = [x \in {"pool", "next", "pending"} |-> s[x]]

(* Entries leave with their dependents. *)
LEMMA RemovedTrims ==
  ASSUME NEW s, Tables(s), NEW E
  PROVE  /\ Trim(s, removeUnconfirmed(s, E)) /\ Tables(removeUnconfirmed(s, E))
         /\ removeUnconfirmed(s, E).pool = s.pool \ Closure(s, E)
         /\ E \subseteq s.pool => removeUnconfirmed(s, E).pool \cap E = {}
<1> DEFINE C == Closure(s, E)
           u == removeUnconfirmed(s, E)
<1>1. /\ u.pool = s.pool \ C /\ u.next = s.next /\ u.pending = s.pending \ PostsOf(TxsIn(C))
      /\ Tables(u)
  BY DEF removeUnconfirmed, Without, Tables
<1>2. C \subseteq s.pool /\ (E \subseteq s.pool => E \subseteq C) /\ Dependents(s, C) \subseteq C
  BY ClosureIs
<1> HIDE DEF C, u
<1>3. s.pool \ u.pool = C
  BY <1>1, <1>2
<1>4. \A e \in u.pool : \A d \in C : Tx[e.tx].ins \cap Tx[d.tx].outs = {}
  <2> SUFFICES ASSUME NEW e \in u.pool, NEW d \in C, NEW x \in Tx[e.tx].ins, x \in Tx[d.tx].outs PROVE FALSE
    OBVIOUS
  <2>1. x \in PendingOutputs(C)
    BY OutputsAre
  <2>2. e \in Dependents(s, C)
    BY <1>1, <2>1 DEF Dependents
  <2> QED BY <1>1, <1>2, <2>2
<1>5. Trim(s, u)
  BY <1>1, <1>3, <1>4 DEF Trim
<1> QED BY <1>1, <1>2, <1>5 DEF u, C

(* Leaving with one's dependents keeps the tables sound. *)
LEMMA TrimSound ==
  ASSUME NEW s, NEW spent, NEW base, NEW rows, TableSound(s, spent, base, rows), NEW u, Trim(s, u)
  PROVE  TableSound(u, spent, base, rows)
<1>1. u.pool \subseteq s.pool /\ u.next = s.next
  BY DEF Trim
<1>2. IsFiniteSet(u.pool) /\ u.pool \subseteq PoolEntries(u.next) /\ u.next \in Nat
  BY <1>1, FS_Subset DEF TableSound
<1>3. Capped(u.pool)
  <2>1. \A class : InClass(u.pool, class) \subseteq InClass(s.pool, class) /\ InClass(s.pool, class) \subseteq s.pool
    BY <1>1 DEF InClass
  <2>2. \A class : /\ Cardinality(InClass(u.pool, class)) <= Cardinality(InClass(s.pool, class))
                   /\ Cardinality(InClass(u.pool, class)) \in Nat
                   /\ Cardinality(InClass(s.pool, class)) \in Nat
    <3> TAKE class
    <3>1. IsFiniteSet(InClass(s.pool, class)) /\ IsFiniteSet(InClass(u.pool, class))
      BY <2>1, FS_Subset DEF TableSound
    <3> QED BY <2>1, <3>1, FS_Subset, FS_CardinalityType
  <2>3. Capped(s.pool)
    BY DEF TableSound
  <2> QED BY <2>2, <2>3, CapAssumption DEF Capped
<1>4. PendingSpends(u.pool) \subseteq PendingSpends(s.pool)
  BY <1>1, SpendsAre
<1>5. ASSUME NEW x \in PendingSpends(u.pool) PROVE x \in base \cup PendingOutputs(u.pool)
  <2>1. PICK e \in u.pool : x \in Tx[e.tx].ins
    BY SpendsAre
  <2>2. CASE x \in PendingOutputs(s.pool)
    <3>1. PICK d \in s.pool : x \in Tx[d.tx].outs
      BY <2>2, OutputsAre
    <3>2. d \in u.pool
      BY <2>1, <3>1 DEF Trim
    <3> QED BY <3>1, <3>2, OutputsAre
  <2> QED BY <1>4, <2>2 DEF TableSound
<1>6. u.pending = s.pending \ PostsOf(TxsIn(s.pool \ u.pool))
  BY DEF Trim
<1>7. ASSUME NEW x \in PostsOf(TxsIn(u.pool)) PROVE x \in u.pending
  <2>1. PICK e \in u.pool : x = Tx[e.tx].post /\ x # NoPost
    BY PostsInAre
  <2>2. x \in s.pending
    BY <1>1, <2>1, PostsInAre DEF TableSound
  <2>3. ASSUME x \in PostsOf(TxsIn(s.pool \ u.pool)) PROVE FALSE
    <3>1. PICK d \in s.pool \ u.pool : x = Tx[d.tx].post
      BY <2>3, PostsInAre
    <3>2. e \in s.pool /\ e # d /\ e.tx \in Txs /\ d.tx \in Txs
      BY <1>1 DEF TableSound, PoolEntries
    <3>3. e.tx = d.tx
      BY <2>1, <3>1, <3>2, TxAssumption
    <3>4. Tx[e.tx].ins \cap Tx[d.tx].ins = {} /\ Tx[e.tx].ins # {}
      BY <3>2, TxAssumption DEF TableSound
    <3> QED BY <3>3, <3>4
  <2> QED BY <1>6, <2>2, <2>3
<1>8. ASSUME NEW x \in u.pending PROVE x \in Posts /\ x \in PostsOf(TxsIn(u.pool)) \cup rows
  <2>1. x \in s.pending /\ x \notin PostsOf(TxsIn(s.pool \ u.pool))
    BY <1>6
  <2>2. CASE x \in PostsOf(TxsIn(s.pool))
    BY <2>1, <2>2, PostsInAre DEF TableSound
  <2> QED BY <2>1, <2>2 DEF TableSound
<1>9. /\ \A e, x \in u.pool : e.row = x.row => e = x
      /\ \A e, x \in u.pool : e # x => Tx[e.tx].ins \cap Tx[x.tx].ins = {}
      /\ PendingSpends(u.pool) \cap spent = {}
  BY <1>1, <1>4 DEF TableSound
<1> QED BY <1>2, <1>3, <1>5, <1>7, <1>8, <1>9 DEF TableSound

(* What feeds the pool may change its place. *)
LEMMA Rebased ==
  ASSUME NEW s, NEW spent, NEW base, NEW rows, TableSound(s, spent, base, rows),
         NEW spent2, PendingSpends(s.pool) \cap spent2 = {},
         NEW base2, \A x \in PendingSpends(s.pool) : x \in base => x \in base2 \cup PendingOutputs(s.pool),
         NEW rows2, rows \subseteq rows2 \cup PostsOf(TxsIn(s.pool))
  PROVE  TableSound(s, spent2, base2, rows2)
BY DEF TableSound

(* The cheapest credit entry is one. *)
LEMMA CheapestIs ==
  ASSUME NEW E, \A e \in E : e.tx \in Txs /\ e.row \in Nat, InClass(E, "credit") # {}
  PROVE  Cheapest(E) \in InClass(E, "credit")
<1> DEFINE K == InClass(E, "credit")
           rates == {Tx[e.tx].rate : e \in K}
<1>1. K \subseteq E /\ \A e \in K : Tx[e.tx].rate \in Nat /\ e.row \in Nat
  BY CapAssumption DEF InClass
<1>2. rates \subseteq Nat /\ rates # {}
  BY <1>1
<1>3. Min(rates) \in rates /\ \A r \in rates : Min(rates) <= r
  <2> HIDE DEF rates
  <2> QED BY <1>2, MinOf
<1> DEFINE low == Min(rates)
           rows == {e.row : e \in {x \in K : Tx[x.tx].rate = low}}
<1>4. low \in Nat /\ (\E e \in K : Tx[e.tx].rate = low) /\ \A e \in K : low <= Tx[e.tx].rate
  BY <1>2, <1>3
<1> HIDE DEF low
<1>5. rows \subseteq Nat /\ rows # {}
  BY <1>1, <1>4
<1>6. Min(rows) \in rows /\ \A r \in rows : Min(rows) <= r
  <2> HIDE DEF rows
  <2> QED BY <1>5, MinOf
<1>7. PICK e \in K : Tx[e.tx].rate = low /\ e.row = Min(rows)
  BY <1>6
<1>8. \A x \in K : \/ Tx[e.tx].rate < Tx[x.tx].rate
                   \/ Tx[e.tx].rate = Tx[x.tx].rate /\ e.row <= x.row
  <2> TAKE x \in K
  <2>1. CASE Tx[x.tx].rate = low
    <3>1. x.row \in rows
      BY <2>1
    <3> QED BY <1>6, <1>7, <2>1, <3>1
  <2>2. CASE Tx[x.tx].rate # low
    <3>1. low <= Tx[x.tx].rate /\ Tx[x.tx].rate \in Nat
      BY <1>1, <1>4
    <3> QED BY <1>4, <1>7, <2>2, <3>1
  <2> QED BY <2>1, <2>2
<1> HIDE DEF rows, rates
<1> QED BY <1>7, <1>8 DEF Cheapest

\* The tables with one more entry, its post pending.
Entered(s, t, expires, u) ==
  /\ u.pool = s.pool \cup {[row |-> s.next, tx |-> t, expires |-> expires]}
  /\ u.next = s.next + 1 /\ u.pending = s.pending \cup PostsOf({t})

(* An entry keeps the tables sound if its class has room and it spends what is there and
   what no other entry spends. *)
LEMMA EnteredSound ==
  ASSUME NEW s, NEW spent, NEW base, NEW rows, TableSound(s, spent, base, rows), s.next > 0,
         NEW t \in Txs, NEW expires \in 1 .. MaxHeight + 1 + Expiry, NEW u, Entered(s, t, expires, u),
         Cardinality(InClass(s.pool, Tx[t].class)) < Cap(Tx[t].class),
         Tx[t].ins \cap PendingSpends(s.pool) = {}, Tx[t].ins \cap spent = {},
         Tx[t].ins \subseteq base \cup PendingOutputs(s.pool)
  PROVE  TableSound(u, spent, base, rows)
<1> DEFINE e == [row |-> s.next, tx |-> t, expires |-> expires]
<1>0. u.pool = s.pool \cup {e} /\ u.next = s.next + 1 /\ u.pending = s.pending \cup PostsOf({t})
  BY DEF Entered
<1>1. e.row = s.next /\ e.tx = t /\ e \in PoolEntries(u.next)
  BY <1>0 DEF TableSound, PoolEntries
<1>2. \A x \in s.pool : x \in PoolEntries(u.next) /\ x.row # s.next
  BY <1>0 DEF TableSound, PoolEntries
<1> HIDE DEF e
<1>3. u.next \in Nat /\ u.pool \subseteq PoolEntries(u.next) /\ IsFiniteSet(u.pool)
  BY <1>0, <1>1, <1>2, FS_AddElement DEF TableSound
<1>4. \A x, y \in u.pool : x.row = y.row => x = y
  BY <1>0, <1>1, <1>2 DEF TableSound
<1>5. \A x, y \in u.pool : x # y => Tx[x.tx].ins \cap Tx[y.tx].ins = {}
  <2>1. \A x \in s.pool : Tx[x.tx].ins \cap Tx[t].ins = {}
    BY SpendsAre
  <2> QED BY <1>0, <1>1, <2>1 DEF TableSound
<1>6. \A x : x \in PendingSpends(u.pool) <=> x \in PendingSpends(s.pool) \/ x \in Tx[t].ins
  BY <1>0, <1>1, SpendsAre
<1>7. \A x : x \in PendingOutputs(s.pool) => x \in PendingOutputs(u.pool)
  BY <1>0, OutputsAre
<1>8. \A x : x \in PostsOf(TxsIn(u.pool)) <=> x \in PostsOf(TxsIn(s.pool)) \/ x \in PostsOf({t})
  BY <1>0, <1>1, PostsInAre, PostsAre
<1>9. PostsOf({t}) \subseteq Posts
  BY PostsAre DEF Posts
<1>10. Capped(u.pool)
  <2> DEFINE k == Tx[t].class
  <2>1. \A class : InClass(u.pool, class) = IF class = k THEN InClass(s.pool, class) \cup {e} ELSE InClass(s.pool, class)
    BY <1>0, <1>1 DEF InClass
  <2>2. \A class : IsFiniteSet(InClass(s.pool, class)) /\ Cardinality(InClass(s.pool, class)) \in Nat
    <3> TAKE class
    <3>1. InClass(s.pool, class) \subseteq s.pool
      BY DEF InClass
    <3> QED BY <3>1, FS_Subset, FS_CardinalityType DEF TableSound
  <2>3. e \notin InClass(s.pool, k)
    BY <1>1, <1>2 DEF InClass
  <2>4. Cardinality(InClass(u.pool, k)) = Cardinality(InClass(s.pool, k)) + 1
    <3> DEFINE I == InClass(s.pool, k)
    <3>1. InClass(u.pool, k) = I \cup {e}
      BY <2>1
    <3>2. IsFiniteSet(I) /\ e \notin I
      BY <2>2, <2>3
    <3> HIDE DEF I
    <3>3. Cardinality(I \cup {e}) = Cardinality(I) + 1
      BY <3>2, FS_AddElement
    <3> QED BY <3>1, <3>3 DEF I
  <2>5. Capped(s.pool) /\ k \in {"credit", "karma"}
    BY CapAssumption DEF TableSound
  <2>6. Cardinality(InClass(s.pool, k)) < Cap(k)
    OBVIOUS
  <2> HIDE DEF k
  <2>7. \A class \in {"credit", "karma"} : Cardinality(InClass(u.pool, class)) <= Cap(class)
    <3> TAKE class \in {"credit", "karma"}
    <3>1. Cardinality(InClass(s.pool, class)) <= Cap(class)
      BY <2>5 DEF Capped, Cap
    <3>2. CASE class = k
      <4>1. Cap(k) \in Nat /\ Cardinality(InClass(s.pool, k)) \in Nat
        BY <2>2, CapAssumption DEF Cap
      <4> QED BY <2>4, <2>6, <3>2, <4>1
    <3>3. CASE class # k
      BY <2>1, <3>1, <3>3
    <3> QED BY <3>2, <3>3
  <2> QED BY <2>7 DEF Capped, Cap
<1>11. u.pending \subseteq Posts /\ u.pending \subseteq PostsOf(TxsIn(u.pool)) \cup rows
       /\ PostsOf(TxsIn(u.pool)) \subseteq u.pending
  BY <1>0, <1>8, <1>9 DEF TableSound
<1>12. PendingSpends(u.pool) \cap spent = {} /\ PendingSpends(u.pool) \subseteq base \cup PendingOutputs(u.pool)
  BY <1>6, <1>7 DEF TableSound
<1> QED BY <1>3, <1>4, <1>5, <1>10, <1>11, <1>12 DEF TableSound

\* The tables w are s with an entry for t, and without what it displaced.
Inserted(s, t, expires, w) ==
  \E C \in SUBSET s.pool :
    /\ w.pool = (s.pool \ C) \cup {[row |-> s.next, tx |-> t, expires |-> expires]}
    /\ w.next = s.next + 1 /\ w.pending = s.pending \ PostsOf(TxsIn(C))

(* The next rowid. *)
LEMMA MaxNext ==
  ASSUME NEW n \in Int
  PROVE  Max({n, n + 1}) = n + 1
BY DEF Max

(* insertUtxoTx past its refusals: the displaced leave with their dependents, and the entry
   enters. *)
LEMMA InsertTables ==
  ASSUME NEW s, Tables(s),
         NEW spent, NEW base, NEW rows, TableSound(s, spent, base, rows), s.next > 0,
         NEW t \in Txs, NEW expires \in 1 .. MaxHeight + 1 + Expiry, MayInsert(s, t),
         Tx[t].ins \cap spent = {}, Tx[t].ins \subseteq base \cup PendingOutputs(s.pool),
         NEW w, w = insertUtxoTx(s, t, expires),
         NEW u, u.pool = w.pool, u.next = w.next, u.pending = w.pending \cup PostsOf({t})
  PROVE  /\ TableSound(u, spent, base, rows) /\ Tables(w)
         /\ Inserted(s, t, expires, w)
<1> DEFINE room == IF Full(s, t) /\ Displaces(s, t) THEN removeUnconfirmed(s, {Cheapest(s.pool)}) ELSE s
           k == Tx[t].class
<1>1. /\ w.pool = room.pool \cup {[row |-> room.next, tx |-> t, expires |-> expires]}
      /\ w.next = Max({room.next, room.next + 1}) /\ w.pending = room.pending /\ Tables(w)
  <2>1. Tables(room)
    <3>1. CASE Full(s, t) /\ Displaces(s, t)
      <4>1. room = removeUnconfirmed(s, {Cheapest(s.pool)})
        BY <3>1
      <4> HIDE DEF room
      <4> QED BY <4>1, RemovedTrims
    <3>2. CASE ~ (Full(s, t) /\ Displaces(s, t))
      <4>1. room = s
        BY <3>2, Zenon
      <4> HIDE DEF room
      <4> QED BY <4>1
    <3> QED BY <3>1, <3>2
  <2> HIDE DEF room
  <2> QED BY <2>1 DEF insertUtxoTx, RowidOf, Tables, room
<1>2. s.next \in Nat
  BY DEF TableSound
<1>3. /\ TableSound(room, spent, base, rows) /\ room.next = s.next
      /\ Cardinality(InClass(room.pool, k)) < Cap(k)
      /\ Tx[t].ins \subseteq base \cup PendingOutputs(room.pool)
      /\ \E C \in SUBSET s.pool : room.pool = s.pool \ C /\ room.pending = s.pending \ PostsOf(TxsIn(C))
  <2>1. \A class : IsFiniteSet(InClass(s.pool, class)) /\ Cardinality(InClass(s.pool, class)) \in Nat
    <3> TAKE class
    <3>1. InClass(s.pool, class) \subseteq s.pool
      BY DEF InClass
    <3> QED BY <3>1, FS_Subset, FS_CardinalityType DEF TableSound
  <2>2. k \in {"credit", "karma"} /\ Cap(k) \in Nat
    BY CapAssumption DEF Cap
  <2>3. CASE ~ Full(s, t)
    <3>1. room = s
      BY <2>3
    <3>2. Cardinality(InClass(s.pool, k)) < Cap(k)
      BY <2>1, <2>2, <2>3 DEF Full
    <3>3. s.pool = s.pool \ {} /\ s.pending = s.pending \ PostsOf(TxsIn({}))
      BY PostsInAre
    <3> QED BY <3>1, <3>2, <3>3
  <2>4. CASE Full(s, t)
    <3> DEFINE c == Cheapest(s.pool)
               C == Closure(s, {c})
    <3>1. Displaces(s, t)
      BY <2>4 DEF MayInsert
    <3>2. room = removeUnconfirmed(s, {c})
      BY <2>4, <3>1
    <3>3. \A e \in s.pool : e.tx \in Txs /\ e.row \in Nat
      BY DEF TableSound, PoolEntries
    <3>4. c \in InClass(s.pool, "credit") /\ k = "credit"
      BY <3>1, <3>3, CheapestIs DEF Displaces
    <3>5. c \in s.pool
      BY <3>4 DEF InClass
    <3>6. Trim(s, room) /\ room.pool = s.pool \ C /\ c \notin room.pool
      BY <3>2, <3>5, RemovedTrims
    <3>7. TableSound(room, spent, base, rows) /\ room.next = s.next
      BY <3>6, TrimSound DEF Trim
    <3>8. Tx[t].ins \cap PendingOutputs(C) = {}
      BY <3>1 DEF Displaces
    <3> HIDE DEF room, C, c
    <3>9. Cardinality(InClass(room.pool, "credit")) < Cap(k)
      <4>1. InClass(room.pool, "credit") \subseteq InClass(s.pool, "credit") \ {c}
        BY <3>6 DEF InClass
      <4>2. /\ Cardinality(InClass(s.pool, "credit") \ {c}) = Cardinality(InClass(s.pool, "credit")) - 1
            /\ IsFiniteSet(InClass(s.pool, "credit") \ {c})
        BY <2>1, <3>4, FS_RemoveElement
      <4>3. Cardinality(InClass(room.pool, "credit")) <= Cardinality(InClass(s.pool, "credit") \ {c})
        BY <4>1, <4>2, FS_Subset
      <4>4. Cardinality(InClass(s.pool, "credit")) <= Cap(k)
        BY <3>4 DEF TableSound, Capped, Cap
      <4>5. IsFiniteSet(InClass(room.pool, "credit"))
        BY <4>1, <4>2, FS_Subset
      <4>6. Cardinality(InClass(room.pool, "credit")) \in Nat
        BY <4>5, FS_CardinalityType
      <4> QED BY <2>1, <2>2, <4>2, <4>3, <4>4, <4>6
    <3>10. ASSUME NEW x \in Tx[t].ins PROVE x \in base \cup PendingOutputs(room.pool)
      <4>1. CASE x \in PendingOutputs(s.pool)
        <5>1. PICK e \in s.pool : x \in Tx[e.tx].outs
          BY <4>1, OutputsAre
        <5>2. e \notin C
          BY <3>8, <5>1, OutputsAre
        <5> QED BY <3>6, <5>1, <5>2, OutputsAre
      <4> QED BY <4>1
    <3>11. C \in SUBSET s.pool /\ room.pending = s.pending \ PostsOf(TxsIn(C))
      <4>1. C \subseteq s.pool
        BY ClosureIs DEF C
      <4>2. s.pool \ room.pool = C
        BY <3>6, <4>1
      <4> QED BY <3>6, <4>1, <4>2 DEF Trim
    <3> QED BY <3>4, <3>6, <3>7, <3>9, <3>10, <3>11
  <2> QED BY <2>3, <2>4
<1> HIDE DEF room
<1>4. w.next = s.next + 1
  BY <1>1, <1>2, <1>3, MaxNext
<1>5. PICK C \in SUBSET s.pool : room.pool = s.pool \ C /\ room.pending = s.pending \ PostsOf(TxsIn(C))
  BY <1>3
<1>6. Entered(room, t, expires, u)
  BY <1>1, <1>3, <1>4 DEF Entered
<1>7. Tx[t].ins \cap PendingSpends(room.pool) = {}
  <2>1. Tx[t].ins \cap PendingSpends(s.pool) = {}
    BY DEF MayInsert
  <2> QED BY <1>5, <2>1, SpendsAre
<1>8. TableSound(u, spent, base, rows)
  <2>1. room.next > 0
    BY <1>3
  <2> QED BY <1>3, <1>6, <1>7, <2>1, EnteredSound
<1> QED BY <1>1, <1>3, <1>4, <1>5, <1>8 DEF Inserted

-----------------------------------------------------------------------------
(* The state's tables. *)

\* What may feed an entry besides the pool.
BaseOf(c, D) == Live(c) \cup OutsOf(D) \cup (SettlementBoxes \ Settled(c))

\* The tables s are sound on the chain c, the transactions D between chain and pool.
SoundOn(s, c, D) == TableSound(s, Spent(c), BaseOf(c, D), PostsOf(D))

\* What PoolSound says besides.
Shapes ==
  /\ Tip <= MaxHeight /\ nextRow \in 1 .. MaxRows + 1
  /\ dropped \subseteq Txs /\ sweep \subseteq 1 .. MaxRows
  /\ pc \in {"idle", "building", "sweeping", "switching"}
  /\ back \in Seq(Txs) /\ newTip \in 0 .. MaxHeight

(* PoolSound is the shapes with the soundness of the state's tables. *)
LEMMA PoolIs ==
  PoolSound /\ IsFiniteSet(pool) <=> Shapes /\ SoundOn(State, chain, dropped \cup ToSet(back))
<1> DEFINE D == dropped \cup ToSet(back)
<1>1. State.pool = pool /\ State.next = nextRow /\ State.pending = pending
  BY DEF State
<1>2. PostsOf(TxsIn(pool) \cup dropped \cup ToSet(back)) = PostsOf(TxsIn(pool)) \cup PostsOf(D)
  BY DEF PostsOf
<1>3. \A base, out : PendingSpends(pool) \subseteq Live(chain) \cup out \cup OutsOf(D) \cup base
        <=> PendingSpends(pool) \subseteq (Live(chain) \cup OutsOf(D) \cup base) \cup out
  OBVIOUS
<1>4. PoolFed <=> PendingSpends(pool) \subseteq BaseOf(chain, D) \cup PendingOutputs(pool)
  BY <1>3 DEF PoolFed, BaseOf
<1>5. ClassesCapped <=> Capped(pool)
  BY DEF ClassesCapped, Capped
<1>6. nextRow \in 1 .. MaxRows + 1 => nextRow \in Nat
  OBVIOUS
<1> HIDE DEF D
<1>7. SoundOn(State, chain, D) <=>
        /\ nextRow \in Nat /\ pool \subseteq PoolEntries(nextRow) /\ IsFiniteSet(pool)
        /\ \A e, x \in pool : e.row = x.row => e = x
        /\ PoolUnspent /\ PoolFed /\ ClassesCapped
        /\ PostsOf(TxsIn(pool)) \subseteq pending /\ pending \subseteq Posts
        /\ pending \subseteq PostsOf(TxsIn(pool)) \cup PostsOf(D)
  BY <1>1, <1>4, <1>5 DEF SoundOn, TableSound, PoolUnspent
<1>8. RowsShadowEntries <=> /\ PostsOf(TxsIn(pool)) \subseteq pending
                            /\ pending \subseteq PostsOf(TxsIn(pool)) \cup PostsOf(D)
  BY <1>2 DEF RowsShadowEntries
<1>9. TypeOK <=> /\ Shapes /\ pending \subseteq Posts
                 /\ pool \subseteq PoolEntries(nextRow)
                 /\ \A e, x \in pool : e.row = x.row => e = x
  BY DEF TypeOK, Shapes, PoolEntries
<1>10. Shapes => nextRow \in Nat
  BY <1>6 DEF Shapes
<1>11. D = dropped \cup ToSet(back)
  BY DEF D
<1>12. PoolSound <=> TypeOK /\ PoolUnspent /\ PoolFed /\ ClassesCapped /\ RowsShadowEntries
  BY DEF PoolSound
<1> QED BY <1>7, <1>8, <1>9, <1>10, <1>11, <1>12

\* The tables after a block at height h is followed.
Followed(s, b, h, u) ==
  \E w \in {removeUnconfirmed(Unheld(s, b), SpentBy(Unheld(s, b), b))} :
    u = removeUnconfirmed(w, PastHeight(w, h))

(* A confirmed transaction's entry leaves, its post with it. *)
LEMMA UnheldSound ==
  ASSUME NEW s, Tables(s), NEW spent, NEW base, NEW rows, TableSound(s, spent, base, rows), NEW b \in Blocks
  PROVE  /\ TableSound(Unheld(s, b), spent, base \cup OutsOf(ToSet(b.txs)), rows) /\ Tables(Unheld(s, b))
         /\ Unheld(s, b).next = s.next /\ Unheld(s, b).pool \subseteq s.pool
         /\ \A e \in Unheld(s, b).pool : e.tx \notin ToSet(b.txs)
<1> DEFINE v == Unheld(s, b)
           B == ToSet(b.txs)
<1>1. /\ v.pool = {e \in s.pool : e.tx \notin B} /\ v.next = s.next /\ v.pending = s.pending \ PostsOf(B)
      /\ Tables(v)
  BY DEF Unheld, Tables
<1>2. B \subseteq Txs
  BY BlockTypes
<1> HIDE DEF v, B
<1>3. v.pool \subseteq s.pool /\ IsFiniteSet(v.pool)
  BY <1>1, FS_Subset DEF TableSound
<1>4. Capped(v.pool)
  <2>1. \A class : InClass(v.pool, class) \subseteq InClass(s.pool, class) /\ InClass(s.pool, class) \subseteq s.pool
    BY <1>3 DEF InClass
  <2>2. \A class : /\ Cardinality(InClass(v.pool, class)) <= Cardinality(InClass(s.pool, class))
                   /\ Cardinality(InClass(v.pool, class)) \in Nat
                   /\ Cardinality(InClass(s.pool, class)) \in Nat
    <3> TAKE class
    <3>1. IsFiniteSet(InClass(s.pool, class)) /\ IsFiniteSet(InClass(v.pool, class))
      BY <2>1, FS_Subset DEF TableSound
    <3> QED BY <2>1, <3>1, FS_Subset, FS_CardinalityType
  <2>3. Capped(s.pool)
    BY DEF TableSound
  <2> QED BY <2>2, <2>3, CapAssumption DEF Capped
<1>5. PendingSpends(v.pool) \subseteq PendingSpends(s.pool)
  BY <1>3, SpendsAre
<1>6. ASSUME NEW x \in PendingSpends(v.pool) PROVE x \in base \cup OutsOf(B) \cup PendingOutputs(v.pool)
  <2>1. CASE x \in PendingOutputs(s.pool)
    <3>1. PICK d \in s.pool : x \in Tx[d.tx].outs
      BY <2>1, OutputsAre
    <3>2. CASE d.tx \in B
      BY <3>1, <3>2, OutsAre
    <3>3. CASE d.tx \notin B
      BY <1>1, <3>1, <3>3, OutputsAre
    <3> QED BY <3>2, <3>3
  <2> QED BY <1>5, <2>1 DEF TableSound
<1>7. ASSUME NEW x \in PostsOf(TxsIn(v.pool)) PROVE x \in v.pending
  <2>1. PICK e \in v.pool : x = Tx[e.tx].post /\ x # NoPost
    BY PostsInAre
  <2>2. x \in s.pending
    BY <1>3, <2>1, PostsInAre DEF TableSound
  <2>3. e.tx \in Txs /\ e.tx \notin B
    BY <1>1, <2>1 DEF TableSound, PoolEntries
  <2>4. x \notin PostsOf(B)
    BY <1>2, <2>1, <2>3, PostsAre, TxAssumption
  <2> QED BY <1>1, <2>2, <2>4
<1>8. ASSUME NEW x \in v.pending PROVE x \in Posts /\ x \in PostsOf(TxsIn(v.pool)) \cup rows
  <2>1. x \in s.pending /\ x \notin PostsOf(B)
    BY <1>1, <1>8
  <2>2. CASE x \in PostsOf(TxsIn(s.pool))
    <3>1. PICK e \in s.pool : x = Tx[e.tx].post /\ x # NoPost
      BY <2>2, PostsInAre
    <3>2. e.tx \notin B
      BY <2>1, <3>1, PostsAre
    <3>3. e \in v.pool
      BY <1>1, <3>1, <3>2
    <3> QED BY <2>1, <3>1, <3>3, PostsInAre DEF TableSound
  <2> QED BY <2>1, <2>2 DEF TableSound
<1>9. /\ \A e, x \in v.pool : e.row = x.row => e = x
      /\ \A e, x \in v.pool : e # x => Tx[e.tx].ins \cap Tx[x.tx].ins = {}
      /\ PendingSpends(v.pool) \cap spent = {}
      /\ v.next \in Nat /\ v.pool \subseteq PoolEntries(v.next)
  BY <1>1, <1>3, <1>5 DEF TableSound
<1>10. PendingSpends(v.pool) \subseteq (base \cup OutsOf(B)) \cup PendingOutputs(v.pool)
  BY <1>6
<1>11. TableSound(v, spent, base \cup OutsOf(B), rows)
  BY <1>3, <1>4, <1>7, <1>8, <1>9, <1>10 DEF TableSound
<1>12. \A e \in v.pool : e.tx \notin B
  BY <1>1
<1> QED BY <1>1, <1>3, <1>11, <1>12 DEF v, B

(* The tables stay sound as a block that applies is followed. *)
LEMMA FollowedSound ==
  ASSUME NEW s, Tables(s), NEW c, ChainSound(c), NEW D, SoundOn(s, c, D),
         NEW b \in Blocks, BlockApplies(c, b), NEW a, a = Append(c, b), NEW h, NEW u, Followed(s, b, h, u)
  PROVE  /\ SoundOn(u, a, D) /\ u.pool \subseteq s.pool /\ u.next = s.next
         /\ \A e \in u.pool : e.tx \notin ToSet(b.txs)
<1> DEFINE v == Unheld(s, b)
           w == removeUnconfirmed(v, SpentBy(v, b))
           base == BaseOf(c, D) \cup OutsOf(ToSet(b.txs))
<1>1. u = removeUnconfirmed(w, PastHeight(w, h))
  BY DEF Followed
<1>2. /\ TableSound(v, Spent(c), base, PostsOf(D)) /\ Tables(v) /\ v.next = s.next /\ v.pool \subseteq s.pool
      /\ \A e \in v.pool : e.tx \notin ToSet(b.txs)
  BY UnheldSound DEF SoundOn
<1> HIDE DEF v
<1>3. SpentBy(v, b) \subseteq v.pool
  BY DEF SpentBy
<1>4. Trim(v, w) /\ Tables(w) /\ w.pool \cap SpentBy(v, b) = {}
  BY <1>2, <1>3, RemovedTrims
<1> HIDE DEF w
<1>5. Trim(w, u)
  BY <1>1, <1>4, RemovedTrims
<1>6. w.pool \subseteq v.pool /\ w.next = v.next /\ u.pool \subseteq w.pool /\ u.next = w.next
  BY <1>4, <1>5 DEF Trim
<1>7. TableSound(w, Spent(c), base, PostsOf(D))
  <2> HIDE DEF base
  <2> QED BY <1>2, <1>4, TrimSound
<1>8. TableSound(u, Spent(c), base, PostsOf(D))
  <2> HIDE DEF base
  <2> QED BY <1>5, <1>7, TrimSound
<1>9. c \in Seq(Blocks)
  BY DEF ChainSound
<1>10. /\ TxsOf(a) = TxsOf(c) \cup ToSet(b.txs) /\ Spent(a) = Spent(c) \cup SpentAt(b)
       /\ Settled(a) = Settled(c) \cup b.makes
  <2>1. Grown(a, c, b)
    BY <1>9, Appended
  <2> QED BY <2>1 DEF Grown
<1>11. PendingSpends(u.pool) \cap Spent(a) = {}
  <2> SUFFICES ASSUME NEW x \in PendingSpends(u.pool), x \in SpentAt(b) PROVE FALSE
    BY <1>8, <1>10 DEF TableSound
  <2>1. PICK e \in u.pool : x \in Tx[e.tx].ins
    BY SpendsAre
  <2>2. e \in SpentBy(v, b)
    BY <1>6, <2>1 DEF SpentBy, SpentAt
  <2> QED BY <1>4, <1>6, <2>1, <2>2
<1>12. ASSUME NEW x \in PendingSpends(u.pool), x \in base PROVE x \in BaseOf(a, D)
  <2>1. x \notin Spent(a)
    BY <1>11
  <2>2. OutsOf(TxsOf(a)) = OutsOf(TxsOf(c)) \cup OutsOf(ToSet(b.txs))
    BY <1>10, OutsAre
  <2>3. x \in Settled(a) => x \in Live(a)
    BY <2>1 DEF Live
  <2> QED BY <1>10, <1>12, <2>1, <2>2, <2>3 DEF BaseOf, Live
<1> HIDE DEF base
<1>13. SoundOn(u, a, D)
  <2>1. TableSound(u, Spent(a), BaseOf(a, D), PostsOf(D))
    BY <1>8, <1>11, <1>12, Rebased
  <2> QED BY <2>1 DEF SoundOn
<1> QED BY <1>2, <1>6, <1>13

-----------------------------------------------------------------------------
(* The fill. *)

\* Entries with rows of their own.
Entries(E) ==
  /\ IsFiniteSet(E) /\ \A e \in E : e.tx \in Txs /\ e.row \in Nat
  /\ \A e, x \in E : e.row = x.row => e = x

(* The offers are in a total order. *)
LEMMA OffersOrder ==
  ASSUME NEW E, Entries(E), NEW e \in E, NEW x \in E
  PROVE  /\ e = x \/ OfferedBefore(e, x) \/ OfferedBefore(x, e)
         /\ ~ (OfferedBefore(e, x) /\ OfferedBefore(x, e)) /\ ~ OfferedBefore(e, e)
         /\ \A y \in E : OfferedBefore(e, x) /\ OfferedBefore(x, y) => OfferedBefore(e, y)
<1>1. \A y \in E : Tx[y.tx].class \in {"credit", "karma"} /\ Tx[y.tx].rate \in Nat /\ y.row \in Nat
  BY CapAssumption DEF Entries
<1>2. e.row = x.row => e = x
  BY DEF Entries
<1>3. "credit" # "karma"
  OBVIOUS
<1>4. e = x \/ OfferedBefore(e, x) \/ OfferedBefore(x, e)
  BY <1>1, <1>2 DEF OfferedBefore
<1>5. ~ (OfferedBefore(e, x) /\ OfferedBefore(x, e)) /\ ~ OfferedBefore(e, e)
  BY <1>1, <1>3 DEF OfferedBefore
<1>6. ASSUME NEW y \in E, OfferedBefore(e, x), OfferedBefore(x, y) PROVE OfferedBefore(e, y)
  BY <1>1, <1>3, <1>6 DEF OfferedBefore
<1> QED BY <1>4, <1>5, <1>6

(* The first offered of some entries is one of them. *)
LEMMA FirstOfferedIs ==
  ASSUME NEW E, Entries(E), E # {}
  PROVE  FirstOffered(E) \in E
<1> DEFINE before(e) == {x \in E : ~ (e = x \/ OfferedBefore(e, x))}
           C == {before(e) : e \in E}
<1>1. C \in SUBSET (SUBSET E) /\ C # {} /\ IsFiniteSet(E)
  <2>1. \A e \in E : before(e) \subseteq E
    OBVIOUS
  <2> HIDE DEF before
  <2> QED BY <2>1 DEF Entries
<1>2. PICK T \in C : \A U \in C : U \subseteq T => U = T
  <2> HIDE DEF C
  <2> QED BY <1>1, SmallestSubset
<1>3. PICK e \in E : T = before(e)
  OBVIOUS
<1>4. \A x \in E : x \in before(e) <=> ~ (e = x \/ OfferedBefore(e, x))
  OBVIOUS
<1>5. ASSUME NEW x \in E, x \in before(e) PROVE FALSE
  <2>1. OfferedBefore(x, e) /\ x # e
    BY <1>4, <1>5, OffersOrder
  <2>2. ASSUME NEW y \in E, ~ (x = y \/ OfferedBefore(x, y)) PROVE ~ (e = y \/ OfferedBefore(e, y))
    BY <2>1, <2>2, OffersOrder
  <2>3. before(x) \subseteq before(e) /\ x \notin before(x)
    BY <2>2
  <2>4. before(x) \in C
    OBVIOUS
  <2> HIDE DEF C, before
  <2> QED BY <1>2, <1>3, <1>5, <2>3, <2>4
<1>6. \A x \in E : e = x \/ OfferedBefore(e, x)
  BY <1>4, <1>5
<1> HIDE DEF before, C
<1> QED BY <1>6 DEF FirstOffered

\* How far the fill is: the body, and what is still to be offered.
Fills == [sel : Seq(pool), left : SUBSET pool]

(* An offer takes from what is left. *)
LEMMA OfferIs ==
  ASSUME Entries(pool), NEW f \in Fills, f.left # {}
  PROVE  Offer(f) \in Fills /\ Cardinality(Offer(f).left) = Cardinality(f.left) - 1
<1> DEFINE e == FirstOffered(f.left)
<1>1. f.sel \in Seq(pool) /\ f.left \subseteq pool
  BY DEF Fills
<1>2. Entries(f.left)
  BY <1>1, FS_Subset DEF Entries
<1>3. e \in f.left
  BY <1>2, FirstOfferedIs
<1> HIDE DEF e
<1>4. Taken(f.sel, e) \in Seq(pool)
  BY <1>1, <1>3 DEF Taken
<1>5. Offer(f) = [sel |-> Taken(f.sel, e), left |-> f.left \ {e}]
  BY DEF Offer, e
<1>6. Cardinality(f.left \ {e}) = Cardinality(f.left) - 1
  BY <1>2, <1>3, FS_RemoveElement DEF Entries
<1> QED BY <1>1, <1>4, <1>5, <1>6 DEF Fills

\* f is a value of Selection's recursion.
IsFill(f, n) ==
  f = [i \in 0 .. n |-> IF i = 0 THEN [sel |-> <<>>, left |-> pool]
                        ELSE CHOOSE to \in {Offer(g) : g \in {f[i - 1]}} : TRUE]

(* The selection is of the pool. *)
LEMMA SelectionIs ==
  ASSUME Entries(pool)
  PROVE  Selection \in Seq(pool)
<1> DEFINE n == Cardinality(pool)
           start == [sel |-> <<>>, left |-> pool]
<1>1. n \in Nat /\ IsFiniteSet(pool)
  BY FS_CardinalityType DEF Entries
<1>2. start \in Fills /\ start.left = pool
  BY DEF Fills
<1>3. \A g : (CHOOSE to \in {Offer(h) : h \in {g}} : TRUE) = Offer(g)
  OBVIOUS
<1> HIDE DEF n, start
<1>4. \E f : IsFill(f, n)
  <2> DEFINE F == [i \in 1 .. n |-> [g \in Fills |-> IF g.left = {} THEN g ELSE Offer(g)]]
  <2>1. F \in [1 .. n -> [Fills -> Fills]]
    BY OfferIs
  <2>2. \A i \in 1 .. n : \A g \in Fills : F[i][g] = IF g.left = {} THEN g ELSE Offer(g)
    OBVIOUS
  <2> HIDE DEF F
  <2>3. Defined(n, Fills, start, F)
    BY <1>1, <1>2, <2>1, Recursion
  <2>4. PICK f \in [0 .. n -> Fills] : f[0] = start /\ \A i \in 1 .. n : f[i] = F[i][f[i - 1]]
    BY <2>3 DEF Defined
  <2> DEFINE T == {k \in 0 .. n : Cardinality(f[k].left) = n - k}
  <2>5. ASSUME NEW i \in 1 .. n, i - 1 \in T PROVE f[i] = Offer(f[i - 1]) /\ i \in T
    <3>1. f[i - 1] \in Fills /\ Cardinality(f[i - 1].left) = n - (i - 1)
      BY <1>1, <2>5
    <3>2. f[i - 1].left # {}
      <4>1. Cardinality({}) = 0 /\ Cardinality(f[i - 1].left) # 0
        BY <1>1, <3>1, FS_EmptySet
      <4> QED BY <4>1
    <3>3. f[i] = Offer(f[i - 1])
      BY <2>2, <2>4, <3>1, <3>2
    <3>4. Cardinality(Offer(f[i - 1]).left) = n - (i - 1) - 1
      BY <3>1, <3>2, OfferIs
    <3> QED BY <1>1, <3>1, <3>3, <3>4
  <2>6. 0 .. n \subseteq T
    <3>1. 0 \in T
      BY <1>1, <1>2, <2>4 DEF n
    <3>2. \A i \in 1 .. n : i - 1 \in T => i \in T
      BY <2>5
    <3> HIDE DEF T
    <3> QED BY <1>1, <3>1, <3>2, Upto
  <2>7. \A i \in 1 .. n : f[i] = Offer(f[i - 1])
    <3> TAKE i \in 1 .. n
    <3>1. i - 1 \in T
      BY <1>1, <2>6
    <3> QED BY <2>5, <3>1
  <2>8. f = [i \in 0 .. n |-> f[i]]
    OBVIOUS
  <2>9. \A i \in 0 .. n : f[i] = IF i = 0 THEN start ELSE CHOOSE to \in {Offer(g) : g \in {f[i - 1]}} : TRUE
    <3> TAKE i \in 0 .. n
    <3>1. CASE i = 0
      BY <2>4, <3>1
    <3>2. CASE i # 0
      <4>1. i \in 1 .. n
        BY <3>2
      <4> QED BY <1>3, <2>7, <3>2, <4>1
    <3> QED BY <3>1, <3>2
  <2>10. IsFill(f, n)
    BY <2>8, <2>9 DEF IsFill, start
  <2> QED BY <2>10
<1> DEFINE f == CHOOSE f : IsFill(f, n)
<1>5. IsFill(f, n)
  <2>1. (\E x : IsFill(x, n)) => IsFill(CHOOSE x : IsFill(x, n), n)
    BY Zenon
  <2> QED BY <1>4, <2>1
<1>6. Selection = f[n].sel
  BY DEF Selection, IsFill, n
<1> HIDE DEF f
<1>7. \A i \in 0 .. n : f[i] = IF i = 0 THEN start ELSE Offer(f[i - 1])
  BY <1>3, <1>5 DEF IsFill, start
<1> DEFINE T == {k \in 0 .. n : f[k] \in Fills /\ Cardinality(f[k].left) = n - k}
<1>8. ASSUME NEW i \in 1 .. n, i - 1 \in T PROVE i \in T
  <2>1. f[i - 1] \in Fills /\ Cardinality(f[i - 1].left) = n - (i - 1)
    BY <1>1, <1>8
  <2>2. f[i - 1].left # {}
    <3>1. Cardinality({}) = 0 /\ Cardinality(f[i - 1].left) # 0
      BY <1>1, <2>1, FS_EmptySet
    <3> QED BY <3>1
  <2>3. f[i] = Offer(f[i - 1])
    BY <1>7
  <2>4. Offer(f[i - 1]) \in Fills /\ Cardinality(Offer(f[i - 1]).left) = n - (i - 1) - 1
    BY <2>1, <2>2, OfferIs
  <2> QED BY <1>1, <2>1, <2>3, <2>4
<1>9. 0 .. n \subseteq T
  <2>1. 0 \in T
    BY <1>1, <1>2, <1>7 DEF n
  <2> HIDE DEF T
  <2> QED BY <1>1, <1>8, <2>1, Upto
<1>10. f[n] \in Fills
  BY <1>1, <1>9
<1> QED BY <1>6, <1>10 DEF Fills

-----------------------------------------------------------------------------
(* The invariant, its tables apart. *)

\* The transactions that are neither in the pool nor on the chain.
Between == dropped \cup ToSet(back)

(* The invariant by its parts. *)
LEMMA IInvIs ==
  IInv <=> /\ ChainSound(chain) /\ BackSound /\ TemplateSound /\ SweepSound /\ Shapes
           /\ SoundOn(State, chain, Between)
BY PoolIs DEF IInv, Between

(* What it gives before a step. *)
LEMMA Before ==
  ASSUME IInv
  PROVE  /\ ChainSound(chain) /\ BackSound /\ TemplateSound /\ SweepSound /\ Shapes
         /\ SoundOn(State, chain, Between) /\ Tables(State)
         /\ State.pool = pool /\ State.next = nextRow /\ State.pending = pending
<1>1. Tables(State) /\ State.pool = pool /\ State.next = nextRow /\ State.pending = pending
  BY DEF Tables, State
<1> QED BY <1>1, IInvIs

(* What gives it after a step. *)
LEMMA After ==
  ASSUME ChainSound(chain)', BackSound', TemplateSound', SweepSound', Shapes',
         NEW u, u.pool = pool', u.next = nextRow', u.pending = pending', SoundOn(u, chain', Between')
  PROVE  IInv'
<1>1. State'.pool = u.pool /\ State'.next = u.next /\ State'.pending = u.pending
  BY DEF State
<1>2. SoundOn(State', chain', Between')
  BY <1>1 DEF SoundOn, TableSound
<1>3. IInv' <=> (/\ ChainSound(chain) /\ BackSound /\ TemplateSound /\ SweepSound /\ Shapes
                 /\ SoundOn(State, chain, Between))'
  BY IInvIs, PTL
<1> QED BY <1>2, <1>3

(* Nothing is to be put back. *)
LEMMA NothingBack ==
  back = <<>> /\ nextRow <= MaxRows + 1 /\ nextRow \in Nat /\ (pc = "switching" => newTip > 0)
    => BackSound /\ ToSet(back) = {}
<1> SUFFICES ASSUME back = <<>>, nextRow <= MaxRows + 1, nextRow \in Nat, pc = "switching" => newTip > 0
             PROVE  BackSound /\ ToSet(back) = {}
  OBVIOUS
<1>1. ToSet(back) = {} /\ DOMAIN back = {} /\ Len(back) = 0
  BY DEF ToSet
<1>2. InsOf({}) = {} /\ PostsOf({}) = {}
  BY InsAre, PostsAre
<1>3. nextRow + 0 <= MaxRows + 1
  BY CapAssumption
<1> QED BY <1>1, <1>2, <1>3 DEF BackSound, Distinct

(* Nor after a step. *)
LEMMA NothingBackNext ==
  ASSUME back' = <<>>, nextRow' <= MaxRows + 1, nextRow' \in Nat, pc' = "switching" => newTip' > 0
  PROVE  BackSound' /\ ToSet(back') = {}
<1>1. (back = <<>> /\ nextRow <= MaxRows + 1 /\ nextRow \in Nat /\ (pc = "switching" => newTip > 0)
        => BackSound /\ ToSet(back) = {})'
  BY NothingBack, PTL
<1> QED BY <1>1

(* The template's rows while rows only grow. *)
LEMMA TemplateKept ==
  ASSUME TemplateSound, template' = template, nextRow \in Nat, nextRow' \in Nat, nextRow <= nextRow',
         \A e \in pool' : e \in pool \/ e.row = nextRow
  PROVE  TemplateSound'
<1> SUFFICES ASSUME template # None
             PROVE  /\ template.txs \in Seq(Txs) /\ template.rows \subseteq 1 .. nextRow' - 1
                    /\ \A e \in {x \in pool' : x.row \in template.rows} : e.tx \in ToSet(template.txs)
  BY DEF TemplateSound, RowsOf
<1>1. /\ template.txs \in Seq(Txs) /\ template.rows \subseteq 1 .. nextRow - 1
      /\ \A e \in pool : e.row \in template.rows => e.tx \in ToSet(template.txs)
  BY DEF TemplateSound, RowsOf
<1>2. template.rows \subseteq 1 .. nextRow' - 1 /\ nextRow \notin template.rows
  BY <1>1
<1> QED BY <1>1, <1>2

(* The sweep's rows stay gone while the pool only shrinks. *)
LEMMA SweepKept ==
  ASSUME SweepSound, sweep' = sweep, pool' \subseteq pool, pc' \in {"idle", "switching"} => sweep = {}
  PROVE  SweepSound'
BY DEF SweepSound, RowsOf

-----------------------------------------------------------------------------
(* The chain's steps. *)

(* A block is applied and followed. *)
LEMMA FollowStep ==
  ASSUME IInv, NEW b \in Blocks, BlockApplies(chain, b), chain' = Append(chain, b),
         followAppliedBlock(b, Tip + 1), dropped' = dropped, back' = back
  PROVE  /\ ChainSound(chain)' /\ Tip' = Tip + 1 /\ Tip \in Nat
         /\ \E u : /\ u.pool = pool' /\ u.next = nextRow' /\ u.pending = pending'
                   /\ SoundOn(u, chain', Between')
         /\ pool' \subseteq pool /\ nextRow' = nextRow
         /\ \A e \in pool' : e.tx \notin ToSet(b.txs)
<1>1. PICK u : Followed(State, b, Tip + 1, u) /\ Store(u)
  BY DEF followAppliedBlock, Followed
<1>2. /\ ChainSound(chain) /\ SoundOn(State, chain, Between) /\ Tables(State)
      /\ State.pool = pool /\ State.next = nextRow
  BY Before
<1>3. /\ SoundOn(u, chain', Between) /\ u.pool \subseteq State.pool /\ u.next = State.next
      /\ \A e \in u.pool : e.tx \notin ToSet(b.txs)
  BY <1>1, <1>2, FollowedSound
<1>4. u.pool = pool' /\ u.next = nextRow' /\ u.pending = pending'
  BY <1>1 DEF Store
<1>5. Between' = Between
  BY DEF Between
<1>6. ChainSound(chain')
  BY <1>2, SoundAppended
<1>7. Len(chain') = Len(chain) + 1 /\ Len(chain) \in Nat
  BY <1>2 DEF ChainSound
<1> QED BY <1>2, <1>3, <1>4, <1>5, <1>6, <1>7 DEF Tip

(* A peer's block outside a switch. *)
LEMMA PeerBlockHolds ==
  ASSUME IInv, NEW b \in PeerBlocks, PeerBlock(b)
  PROVE  IInv'
<1>1. b \in Blocks
  BY DEF Blocks
<1>2. /\ BlockApplies(chain, b) /\ chain' = Append(chain, b) /\ followAppliedBlock(b, Tip + 1)
      /\ dropped' = dropped /\ back' = back /\ sweep' = sweep /\ newTip' = newTip
      /\ template' = None /\ pc' = "building" /\ pc = "idle" /\ Tip < MaxHeight
  BY DEF PeerBlock
<1>3. /\ ChainSound(chain)' /\ Tip' = Tip + 1 /\ Tip \in Nat
      /\ \E u : /\ u.pool = pool' /\ u.next = nextRow' /\ u.pending = pending'
                /\ SoundOn(u, chain', Between')
      /\ pool' \subseteq pool /\ nextRow' = nextRow
  BY <1>1, <1>2, FollowStep
<1>4. BackSound /\ SweepSound /\ Shapes
  BY Before
<1>5. Shapes'
  BY <1>2, <1>3, <1>4, CapAssumption DEF Shapes
<1>6. BackSound'
  BY <1>2, <1>4, <1>5, NothingBackNext DEF BackSound, Shapes
<1>7. SweepSound'
  BY <1>2, <1>3, <1>4, SweepKept
<1>8. TemplateSound'
  BY <1>2 DEF TemplateSound
<1> QED BY <1>3, <1>5, <1>6, <1>7, <1>8, After

(* A block of the branch a switch moves to. *)
LEMMA BranchBlockHolds ==
  ASSUME IInv, NEW b \in PeerBlocks, BranchBlock(b)
  PROVE  IInv'
<1>1. b \in Blocks
  BY DEF Blocks
<1>2. /\ BlockApplies(chain, b) /\ chain' = Append(chain, b) /\ followAppliedBlock(b, Tip + 1)
      /\ dropped' = dropped /\ back' = back /\ sweep' = sweep /\ newTip' = newTip
      /\ template' = template /\ pc' = pc /\ pc = "switching" /\ back = <<>> /\ Tip < newTip
  BY DEF BranchBlock
<1>3. /\ ChainSound(chain)' /\ Tip' = Tip + 1 /\ Tip \in Nat
      /\ \E u : /\ u.pool = pool' /\ u.next = nextRow' /\ u.pending = pending'
                /\ SoundOn(u, chain', Between')
      /\ pool' \subseteq pool /\ nextRow' = nextRow
  BY <1>1, <1>2, FollowStep
<1>4. BackSound /\ SweepSound /\ Shapes /\ TemplateSound
  BY Before
<1>5. Shapes'
  BY <1>2, <1>3, <1>4, CapAssumption DEF Shapes
<1>6. BackSound'
  BY <1>2, <1>4, <1>5, NothingBackNext DEF BackSound, Shapes
<1>7. SweepSound'
  BY <1>2, <1>3, <1>4, SweepKept DEF SweepSound
<1>8. TemplateSound'
  <2>1. nextRow \in Nat /\ nextRow <= nextRow'
    BY <1>3, <1>4 DEF Shapes
  <2> QED BY <1>2, <1>3, <1>4, <2>1, TemplateKept
<1> QED BY <1>3, <1>5, <1>6, <1>7, <1>8, After

(* The mined block's rows name nothing the apply left in the pool. *)
LEMMA SubmitAppliedHolds ==
  ASSUME IInv, SubmitApplied
  PROVE  IInv'
<1>1. BackSound /\ SweepSound /\ Shapes /\ TemplateSound
  BY Before
<1>2. /\ BlockApplies(chain, MinedBlock) /\ chain' = Append(chain, MinedBlock)
      /\ followAppliedBlock(MinedBlock, Tip + 1)
      /\ dropped' = dropped /\ back' = back /\ sweep' = template.rows /\ newTip' = newTip
      /\ template' = None /\ pc' = "building" /\ pc = "idle" /\ Tip < MaxHeight /\ template # None
  BY DEF SubmitApplied
<1>3. /\ template.txs \in Seq(Txs) /\ template.rows \subseteq 1 .. nextRow - 1
      /\ \A e \in pool : e.row \in template.rows => e.tx \in ToSet(template.txs)
  BY <1>1, <1>2 DEF TemplateSound, RowsOf
<1>4. MinedBlock \in Blocks /\ MinedBlock.txs = template.txs
  BY <1>3 DEF MinedBlock, MinedBlocks, Blocks
<1>5. /\ ChainSound(chain)' /\ Tip' = Tip + 1 /\ Tip \in Nat
      /\ \E u : /\ u.pool = pool' /\ u.next = nextRow' /\ u.pending = pending'
                /\ SoundOn(u, chain', Between')
      /\ pool' \subseteq pool /\ nextRow' = nextRow
      /\ \A e \in pool' : e.tx \notin ToSet(MinedBlock.txs)
  BY <1>2, <1>4, FollowStep
<1>6. template.rows \subseteq 1 .. MaxRows
  BY <1>1, <1>3, CapAssumption DEF Shapes
<1>7. Shapes'
  BY <1>1, <1>2, <1>5, <1>6, CapAssumption DEF Shapes
<1>8. BackSound'
  BY <1>1, <1>2, <1>7, NothingBackNext DEF BackSound, Shapes
<1>9. SweepSound'
  <2>1. \A e \in pool' : e.row \notin sweep'
    BY <1>2, <1>3, <1>4, <1>5
  <2>2. pc' \notin {"idle", "switching"}
    BY <1>2
  <2> QED BY <2>1, <2>2 DEF SweepSound, RowsOf
<1>10. TemplateSound'
  BY <1>2 DEF TemplateSound
<1> QED BY <1>5, <1>7, <1>8, <1>9, <1>10, After

-----------------------------------------------------------------------------
(* The switch's steps. *)

(* A box the chain had made is still there below the fork, or its transaction returns, or
   a settlement made it. *)
LEMMA CutBase ==
  ASSUME NEW c, c \in Seq(Blocks), NEW n \in 0 .. Len(c), NEW a, a = SubSeq(c, 1, n),
         NEW R, Above(c, n, R),
         NEW D, NEW x, x \in GenesisBoxes \cup OutsOf(TxsOf(c)) \cup Settled(c), x \notin Spent(a)
  PROVE  x \in BaseOf(a, D \cup R)
<1>1. TxsOf(c) = TxsOf(a) \cup R
  <2>1. Shrunk(a, c, R)
    BY Cut
  <2> QED BY <2>1 DEF Shrunk
<1>2. Settled(c) \subseteq SettlementBoxes
  BY ChainTypes
<1>3. OutsOf(TxsOf(c)) = OutsOf(TxsOf(a)) \cup OutsOf(R) /\ OutsOf(R) \subseteq OutsOf(D \cup R)
  BY <1>1, OutsAre
<1> QED BY <1>2, <1>3 DEF BaseOf, Live

(* The blocks above the fork are reverted: what the pool's entries spend is fed by what is
   left of the chain or by what returns, and what returns spends nothing spent. *)
LEMMA StartSwitchHolds ==
  ASSUME IInv, NEW fork \in 0 .. MaxHeight, NEW length \in 1 .. 2, StartSwitch(fork, length)
  PROVE  IInv'
<1> DEFINE r == ReturnedTxs(fork)
           R == ToSet(r)
<1>1. /\ ChainSound(chain) /\ BackSound /\ SweepSound /\ Shapes /\ TemplateSound
      /\ SoundOn(State, chain, Between)
      /\ State.pool = pool /\ State.next = nextRow /\ State.pending = pending
  BY Before
<1>2. /\ pc = "idle" /\ fork < Tip /\ fork + length <= MaxHeight
      /\ nextRow + Len(r) <= MaxRows + 1 /\ back' = r /\ newTip' = fork + length
      /\ chain' = SubSeq(chain, 1, fork) /\ pending' = pending \cup PostsOf(R) /\ pc' = "switching"
      /\ pool' = pool /\ nextRow' = nextRow /\ template' = template /\ sweep' = sweep /\ dropped' = dropped
  BY DEF StartSwitch
<1>3. chain \in Seq(Blocks) /\ Tip = Len(chain) /\ Tip \in Nat /\ fork \in 0 .. Tip /\ fork \in 0 .. Len(chain)
  BY <1>1, <1>2 DEF ChainSound, Tip
<1>4. r \in Seq(Txs) /\ Distinct(r) /\ Above(chain, fork, R)
  BY <1>1, <1>2, <1>3, ReturnedAre DEF Above
<1>5. R \subseteq Txs
  BY <1>4 DEF ToSet
<1> HIDE DEF r, R
<1>6. ChainSound(chain')
  BY <1>1, <1>2, <1>3, SoundCut
<1>7. /\ chain' \in Seq(Blocks) /\ Len(chain') = fork /\ \A i \in 1 .. fork : chain'[i] = chain[i]
      /\ TxsOf(chain) = TxsOf(chain') \cup R
      /\ Spent(chain') \subseteq Spent(chain) /\ Settled(chain') \subseteq Settled(chain)
  <2>1. chain' \in Seq(Blocks) /\ Len(chain') = fork /\ \A i \in 1 .. fork : chain'[i] = chain[i]
    BY <1>2, <1>3
  <2>2. Shrunk(chain', chain, R)
    BY <1>2, <1>3, <1>4, Cut
  <2> QED BY <2>1, <2>2 DEF Shrunk
<1>8. Between = dropped /\ ToSet(back') = R /\ Between' = dropped \cup R
  <2>1. ToSet(<<>>) = {}
    BY DEF ToSet
  <2>2. back = <<>>
    BY <1>1, <1>2 DEF BackSound
  <2>3. ToSet(back') = R
    BY <1>2 DEF R
  <2> QED BY <1>2, <2>1, <2>2, <2>3 DEF Between
<1>9. TableSound(State, Spent(chain), BaseOf(chain, dropped), PostsOf(dropped))
  BY <1>1, <1>8 DEF SoundOn
<1> DEFINE c == chain'
<1> HIDE DEF c
<1>10. c = SubSeq(chain, 1, fork)
  BY <1>2 DEF c
<1>11. \A x : x \in GenesisBoxes \cup OutsOf(TxsOf(chain)) \cup Settled(chain) /\ x \notin Spent(c)
              => x \in BaseOf(c, dropped \cup R)
  BY <1>3, <1>4, <1>10, CutBase
<1>12. InsOf(R) \subseteq Spent(chain)
  BY <1>7, InsAre DEF Spent
<1>13. InsOf(R) \cap Spent(c) = {}
  <2> SUFFICES ASSUME NEW x \in InsOf(R), x \in Spent(c) PROVE FALSE
    OBVIOUS
  <2>1. PICK t \in R : x \in Tx[t].ins
    BY InsAre
  <2>2. PICK i \in fork + 1 .. Len(chain) : t \in ToSet(chain[i].txs)
    BY <1>4 DEF Above
  <2>3. PICK j \in DOMAIN c : x \in SpentAt(c[j])
    BY SpentAre
  <2>4. j \in 1 .. fork /\ c[j] = chain[j]
    BY <1>7, <2>3 DEF c
  <2>5. j \in DOMAIN chain /\ i \in DOMAIN chain /\ j < i
    BY <1>3, <2>4
  <2>6. x \in InsOf(ToSet(chain[i].txs))
    BY <2>1, <2>2, InsAre
  <2> QED BY <1>1, <2>3, <2>4, <2>5, <2>6 DEF ChainSound
<1>14. ASSUME NEW x, x \in BaseOf(chain, dropped), x \notin Spent(c) PROVE x \in BaseOf(c, dropped \cup R)
  <2>1. CASE x \in Live(chain)
    BY <1>11, <1>14, <2>1 DEF Live
  <2>2. CASE x \in OutsOf(dropped)
    <3>1. x \in OutsOf(dropped \cup R)
      BY <2>2, OutsAre
    <3> QED BY <3>1 DEF BaseOf
  <2>3. CASE x \in SettlementBoxes \ Settled(chain)
    BY <1>7, <2>3 DEF BaseOf, c
  <2> QED BY <1>14, <2>1, <2>2, <2>3 DEF BaseOf
<1>15. TableSound(State, Spent(c), BaseOf(c, dropped \cup R), PostsOf(dropped \cup R))
  <2>1. PendingSpends(State.pool) \cap Spent(c) = {}
    BY <1>7, <1>9 DEF c, TableSound
  <2>2. \A x \in PendingSpends(State.pool) :
          x \in BaseOf(chain, dropped) => x \in BaseOf(c, dropped \cup R) \cup PendingOutputs(State.pool)
    BY <1>14, <2>1
  <2>3. PostsOf(dropped) \subseteq PostsOf(dropped \cup R) \cup PostsOf(TxsIn(State.pool))
    BY PostsAre
  <2> QED BY <1>9, <2>1, <2>2, <2>3, Rebased
<1> DEFINE u == [State EXCEPT !.pending = pending']
<1>16. u.pool = pool /\ u.next = nextRow /\ u.pending = pending'
  BY DEF State
<1> HIDE DEF u
<1>17. SoundOn(u, c, dropped \cup R)
  <2>1. PostsOf(R) \subseteq Posts /\ PostsOf(R) \subseteq PostsOf(dropped \cup R)
    BY <1>5, PostsAre DEF Posts
  <2> QED BY <1>1, <1>2, <1>15, <1>16, <2>1 DEF SoundOn, TableSound
<1>18. Shapes'
  <2>1. fork <= MaxHeight /\ fork + length \in 0 .. MaxHeight
    BY <1>2, CapAssumption
  <2> QED BY <1>1, <1>2, <1>4, <1>7, <2>1 DEF Shapes, Tip
<1>19. BackSound'
  <2>1. TxsIn(pool) \cap R = {}
    <3> SUFFICES ASSUME NEW e \in pool, e.tx \in R PROVE FALSE
      BY TxsInAre
    <3>1. PICK y : y \in Tx[e.tx].ins
      BY <1>5, TxAssumption
    <3>2. y \in PendingSpends(pool) /\ y \in InsOf(R)
      BY <3>1, SpendsAre, InsAre
    <3> QED BY <1>1, <1>9, <1>12, <3>2 DEF TableSound
  <2>2. InsOf(R) \subseteq BaseOf(c, dropped \cup R)
    <3> SUFFICES ASSUME NEW x \in InsOf(R) PROVE x \in BaseOf(c, dropped \cup R)
      OBVIOUS
    <3>1. x \in GenesisBoxes \cup OutsOf(TxsOf(chain)) \cup Settled(chain)
      BY <1>1, <1>12, SpentMade
    <3> QED BY <1>11, <1>13, <3>1
  <2>3. InsOf(R) \subseteq Sources'
    <3>1. BaseOf(c, dropped \cup R) = BaseOf(c, dropped' \cup ToSet(back'))
      BY <1>2, <1>8
    <3> QED BY <2>2, <3>1 DEF BaseOf, Sources, c
  <2>4. newTip' > 0 /\ nextRow' + Len(back') <= MaxRows + 1
    BY <1>2
  <2>5. TxsIn(pool)' = TxsIn(pool)
    BY <1>2 DEF TxsIn
  <2>6. Distinct(back')
    BY <1>2, <1>4
  <2>7. InsOf(ToSet(back')) \cap Spent(chain') = {} /\ PostsOf(ToSet(back')) \subseteq pending'
    BY <1>2, <1>8, <1>13 DEF c
  <2> QED BY <1>2, <1>8, <2>1, <2>3, <2>4, <2>5, <2>6, <2>7 DEF BackSound
<1>20. SweepSound'
  BY <1>1, <1>2, SweepKept DEF SweepSound
<1>21. TemplateSound'
  <2>1. nextRow \in Nat
    BY <1>1 DEF Shapes
  <2> QED BY <1>1, <1>2, <2>1, TemplateKept
<1> QED
  <2>1. u.pool = pool' /\ u.next = nextRow' /\ u.pending = pending' /\ SoundOn(u, chain', Between')
    BY <1>2, <1>8, <1>16, <1>17 DEF c
  <2> QED BY <1>6, <1>18, <1>19, <1>20, <1>21, <2>1, After

(* The switch ends. *)
LEMMA EndSwitchHolds ==
  ASSUME IInv, EndSwitch
  PROVE  IInv'
<1>1. /\ ChainSound(chain) /\ BackSound /\ SweepSound /\ Shapes /\ SoundOn(State, chain, Between)
      /\ State.pool = pool /\ State.next = nextRow /\ State.pending = pending
  BY Before
<1>2. /\ pc = "switching" /\ back = <<>> /\ template' = None /\ pc' = "building" /\ newTip' = 0
      /\ chain' = chain /\ pool' = pool /\ nextRow' = nextRow /\ pending' = pending
      /\ sweep' = sweep /\ dropped' = dropped /\ back' = back
  BY DEF EndSwitch
<1>3. Shapes'
  BY <1>1, <1>2, CapAssumption DEF Shapes, Tip
<1>4. BackSound'
  BY <1>2, <1>3, NothingBackNext DEF Shapes
<1>5. SweepSound' /\ TemplateSound'
  BY <1>1, <1>2, SweepKept DEF TemplateSound
<1>6. SoundOn(State, chain', Between') /\ ChainSound(chain)'
  BY <1>1, <1>2 DEF Between
<1> QED BY <1>1, <1>2, <1>3, <1>4, <1>5, <1>6, After

(* A sequence without its first element. *)
LEMMA TailIs ==
  ASSUME NEW S, NEW q \in Seq(S), q # <<>>, Distinct(q)
  PROVE  /\ Head(q) \in S /\ Tail(q) \in Seq(S) /\ Len(Tail(q)) = Len(q) - 1 /\ Len(q) \in Nat \ {0}
         /\ Distinct(Tail(q)) /\ Head(q) \notin ToSet(Tail(q))
         /\ ToSet(q) = ToSet(Tail(q)) \cup {Head(q)}
<1> DEFINE r == Tail(q)
           n == Len(q)
<1>1. /\ n \in Nat \ {0} /\ DOMAIN q = 1 .. n /\ Head(q) = q[1] /\ Head(q) \in S
      /\ r \in Seq(S) /\ Len(r) = n - 1 /\ DOMAIN r = 1 .. n - 1 /\ \A i \in 1 .. n - 1 : r[i] = q[i + 1]
  OBVIOUS
<1> HIDE DEF r, n
<1>2. \A i \in 1 .. n - 1 : i + 1 \in 1 .. n /\ i + 1 # 1 /\ r[i] = q[i + 1]
  BY <1>1
<1>3. \A i \in 1 .. n : i = 1 \/ (i - 1 \in 1 .. n - 1 /\ q[i] = r[i - 1])
  <2> TAKE i \in 1 .. n
  <2>1. CASE i # 1
    <3>1. i - 1 \in 1 .. n - 1 /\ (i - 1) + 1 = i
      BY <1>1, <2>1
    <3> QED BY <1>1, <3>1
  <2> QED BY <2>1
<1>4. 1 \in 1 .. n
  BY <1>1
<1>5. Distinct(r)
  <2> SUFFICES ASSUME NEW i \in 1 .. n - 1, NEW j \in 1 .. n - 1, r[i] = r[j] PROVE i = j
    BY <1>1 DEF Distinct
  <2>1. i + 1 \in DOMAIN q /\ j + 1 \in DOMAIN q /\ q[i + 1] = q[j + 1]
    BY <1>1, <1>2
  <2>2. i + 1 = j + 1
    BY <2>1 DEF Distinct
  <2> QED BY <1>1, <2>2
<1>6. q[1] \notin ToSet(r)
  <2> SUFFICES ASSUME NEW i \in 1 .. n - 1, r[i] = q[1] PROVE FALSE
    BY <1>1 DEF ToSet
  <2> QED BY <1>1, <1>2, <1>4 DEF Distinct
<1>7. ToSet(q) = ToSet(r) \cup {q[1]}
  <2>1. \A x : x \in ToSet(q) <=> \E i \in 1 .. n : x = q[i]
    BY <1>1 DEF ToSet
  <2>2. \A x : x \in ToSet(r) <=> \E i \in 1 .. n - 1 : x = r[i]
    BY <1>1 DEF ToSet
  <2> QED BY <1>2, <1>3, <1>4, <2>1, <2>2
<1> QED BY <1>1, <1>5, <1>6, <1>7 DEF r, n

(* A transaction that goes back spends what is there; what it displaces is dropped. *)
LEMMA ReturnedHolds ==
  ASSUME IInv, ReturnTx, Returns(Head(back))
  PROVE  IInv'
<1> DEFINE t == Head(back)
           w == insertUtxoTx(State, t, newTip + Expiry)
           B == ToSet(back)
           T == ToSet(Tail(back))
<1>1. /\ ChainSound(chain) /\ BackSound /\ SweepSound /\ Shapes /\ TemplateSound
      /\ SoundOn(State, chain, Between) /\ Tables(State)
      /\ State.pool = pool /\ State.next = nextRow /\ State.pending = pending
  BY Before
<1>2. /\ pc = "switching" /\ back # <<>>
      /\ pool' = w.pool /\ nextRow' = w.next /\ pending' = w.pending
      /\ dropped' = dropped \cup (TxsIn(pool) \ TxsIn(pool')) /\ back' = Tail(back)
      /\ chain' = chain /\ template' = template /\ sweep' = sweep /\ pc' = pc /\ newTip' = newTip
  BY DEF ReturnTx, Store
<1>3. MayInsert(State, t)
  BY DEF Returns
<1>4. /\ t \in Txs /\ Tail(back) \in Seq(Txs) /\ Len(Tail(back)) = Len(back) - 1 /\ Len(back) \in Nat \ {0}
      /\ Distinct(Tail(back)) /\ t \notin T /\ B = T \cup {t}
  BY <1>1, <1>2, TailIs DEF BackSound, Shapes
<1> HIDE DEF t, B, T
<1>5. /\ TxsIn(pool) \cap B = {} /\ InsOf(B) \cap Spent(chain) = {} /\ InsOf(B) \subseteq Sources
      /\ PostsOf(B) \subseteq pending /\ nextRow + Len(back) <= MaxRows + 1 /\ newTip > 0
  BY <1>1, <1>2 DEF BackSound, B
<1>6. Between = dropped \cup B /\ B \subseteq Txs
  BY <1>1 DEF Between, B, Shapes, ToSet
<1>7. TableSound(State, Spent(chain), BaseOf(chain, Between), PostsOf(Between))
  BY <1>1 DEF SoundOn
<1>8. Sources = BaseOf(chain, Between) \cup PendingOutputs(State.pool)
  BY <1>1 DEF Sources, BaseOf, Between
<1>9. Tx[t].ins \cap Spent(chain) = {} /\ Tx[t].ins \subseteq BaseOf(chain, Between) \cup PendingOutputs(State.pool)
  <2>1. Tx[t].ins \subseteq InsOf(B)
    BY <1>4, InsAre
  <2> QED BY <1>5, <1>8, <2>1
<1>10. newTip + Expiry \in 1 .. MaxHeight + 1 + Expiry /\ State.next > 0 /\ nextRow \in Nat
  BY <1>1, <1>5, CapAssumption DEF Shapes
<1> DEFINE u == [State EXCEPT !.pool = w.pool, !.next = w.next, !.pending = w.pending \cup PostsOf({t})]
           base == BaseOf(chain, Between)
           expires == newTip + Expiry
<1>11. u.pool = w.pool /\ u.next = w.next /\ u.pending = w.pending \cup PostsOf({t})
  BY DEF State
<1>12. w = insertUtxoTx(State, t, expires)
  OBVIOUS
<1> HIDE DEF u, w, base, expires
<1>13. TableSound(u, Spent(chain), base, PostsOf(Between)) /\ Inserted(State, t, expires, w)
  BY <1>1, <1>3, <1>4, <1>7, <1>9, <1>10, <1>11, <1>12, InsertTables DEF base, expires
<1>14. PICK C \in SUBSET pool : /\ pool' = (pool \ C) \cup {[row |-> nextRow, tx |-> t, expires |-> expires]}
                                /\ nextRow' = nextRow + 1 /\ pending' = pending \ PostsOf(TxsIn(C))
  BY <1>1, <1>2, <1>13 DEF Inserted
<1>15. PostsOf(B) \subseteq pending'
  <2> SUFFICES ASSUME NEW x \in PostsOf(B), x \in PostsOf(TxsIn(C)) PROVE FALSE
    BY <1>5, <1>14
  <2>1. PICK e \in C : x = Tx[e.tx].post /\ x # NoPost
    BY PostsInAre
  <2>2. PICK b \in B : x = Tx[b].post
    BY PostsAre
  <2>3. e \in pool /\ e.tx \in Txs /\ b \in Txs
    BY <1>1, <1>6, <1>7, <1>14, <2>1 DEF TableSound, PoolEntries
  <2>4. e.tx \in TxsIn(pool)
    BY <2>3, TxsInAre
  <2> QED BY <1>5, <2>1, <2>2, <2>3, <2>4, TxAssumption
<1>16. u.pool = pool' /\ u.next = nextRow' /\ u.pending = pending'
  <2>1. PostsOf({t}) \subseteq PostsOf(B)
    BY <1>4, PostsAre
  <2> QED BY <1>2, <1>11, <1>15, <2>1
<1>17. Between' = dropped \cup (TxsIn(pool) \ TxsIn(pool')) \cup T /\ ToSet(back') = T
  BY <1>2 DEF Between, T
<1>18. t \in TxsIn(pool') /\ \A s \in TxsIn(pool') : s = t \/ s \in TxsIn(pool)
  <2> DEFINE e == [row |-> nextRow, tx |-> t, expires |-> expires]
  <2>1. pool' = (pool \ C) \cup {e} /\ e.tx = t
    BY <1>14
  <2> HIDE DEF e
  <2> QED BY <2>1, TxsInAre
<1>19. Between \subseteq Between' \cup TxsIn(pool')
  BY <1>4, <1>6, <1>17, <1>18
<1>20. ASSUME NEW x, x \in base PROVE x \in BaseOf(chain', Between') \cup PendingOutputs(pool')
  <2>1. CASE x \in OutsOf(Between)
    <3>1. PICK s \in Between : x \in Tx[s].outs
      BY <2>1, OutsAre
    <3>2. CASE s \in Between'
      <4>1. x \in OutsOf(Between')
        BY <3>1, <3>2, OutsAre
      <4> QED BY <4>1 DEF BaseOf
    <3>3. CASE s \in TxsIn(pool')
      BY <3>1, <3>3, OutsAre DEF PendingOutputs
    <3> QED BY <1>19, <3>2, <3>3
  <2> QED BY <1>2, <1>20, <2>1 DEF base, BaseOf
<1>21. SoundOn(u, chain', Between')
  <2>1. \A x \in PendingSpends(u.pool) : x \in base => x \in BaseOf(chain', Between') \cup PendingOutputs(u.pool)
    BY <1>16, <1>20
  <2>2. PostsOf(Between) \subseteq PostsOf(Between') \cup PostsOf(TxsIn(u.pool))
    BY <1>16, <1>19, PostsAre
  <2>3. PendingSpends(u.pool) \cap Spent(chain') = {}
    BY <1>2, <1>13 DEF TableSound
  <2>4. TableSound(u, Spent(chain'), BaseOf(chain', Between'), PostsOf(Between'))
    BY <1>13, <2>1, <2>2, <2>3, Rebased
  <2> QED BY <2>4 DEF SoundOn
<1>22. \A e \in pool : e.tx \in Txs
  BY <1>1, <1>7 DEF TableSound, PoolEntries
<1>23. Shapes'
  <2>1. TxsIn(pool) \subseteq Txs
    BY <1>22, TxsInAre
  <2>2. nextRow' \in 1 .. MaxRows + 1
    BY <1>4, <1>5, <1>10, <1>14, CapAssumption
  <2> QED BY <1>1, <1>2, <1>4, <2>1, <2>2 DEF Shapes, Tip
<1>24. BackSound'
  <2>1. TxsIn(pool') \cap T = {}
    BY <1>4, <1>5, <1>18
  <2>2. InsOf(T) \subseteq InsOf(B) /\ PostsOf(T) \subseteq PostsOf(B)
    BY <1>4, InsAre, PostsAre
  <2>3. ASSUME NEW x \in InsOf(T) PROVE x \in BaseOf(chain', Between') \cup PendingOutputs(pool')
    <3>1. x \in base \/ x \in PendingOutputs(pool)
      BY <1>1, <1>5, <1>8, <2>2, <2>3 DEF base
    <3>2. CASE x \in PendingOutputs(pool)
      <4>1. PICK s \in TxsIn(pool) : x \in Tx[s].outs
        BY <3>2, OutsAre DEF PendingOutputs
      <4>2. CASE s \in TxsIn(pool')
        BY <4>1, <4>2, OutsAre DEF PendingOutputs
      <4>3. CASE s \notin TxsIn(pool')
        <5>1. x \in OutsOf(Between')
          BY <1>17, <4>1, <4>3, OutsAre
        <5> QED BY <5>1 DEF BaseOf
      <4> QED BY <4>2, <4>3
    <3> QED BY <1>20, <3>1, <3>2
  <2>4. InsOf(T) \subseteq Sources'
    BY <1>17, <2>3 DEF Sources, BaseOf, Between
  <2>5. nextRow' + Len(back') <= MaxRows + 1
    <3>1. nextRow' + Len(back') = nextRow + Len(back)
      BY <1>2, <1>4, <1>10, <1>14
    <3> QED BY <1>5, <3>1
  <2>6. InsOf(T) \cap Spent(chain') = {}
    BY <1>2, <1>5, <2>2
  <2>7. PostsOf(T) \subseteq pending' /\ Distinct(back')
    BY <1>2, <1>4, <1>15, <2>2
  <2>8. TxsIn(pool)' = TxsIn(pool')
    BY DEF TxsIn
  <2> QED BY <1>2, <1>5, <1>17, <2>1, <2>4, <2>5, <2>6, <2>7, <2>8 DEF BackSound
<1>25. SweepSound'
  <2>1. sweep = {}
    BY <1>1, <1>2 DEF SweepSound
  <2> QED BY <1>2, <2>1 DEF SweepSound, RowsOf
<1>26. TemplateSound'
  <2>1. \A e \in pool' : e \in pool \/ e.row = nextRow
    BY <1>14
  <2> QED BY <1>1, <1>2, <1>10, <1>14, <2>1, TemplateKept
<1>27. ChainSound(chain)'
  BY <1>1, <1>2
<1> QED BY <1>16, <1>21, <1>23, <1>24, <1>25, <1>26, <1>27, After

(* A transaction that does not go back is dropped. *)
LEMMA LeftOutHolds ==
  ASSUME IInv, ReturnTx, ~ Returns(Head(back))
  PROVE  IInv'
<1> DEFINE t == Head(back)
           T == ToSet(Tail(back))
<1>1. /\ ChainSound(chain) /\ BackSound /\ SweepSound /\ Shapes /\ TemplateSound
      /\ SoundOn(State, chain, Between)
      /\ State.pool = pool /\ State.next = nextRow /\ State.pending = pending
  BY Before
<1>2. /\ pc = "switching" /\ back # <<>> /\ pool' = pool /\ nextRow' = nextRow /\ pending' = pending
      /\ dropped' = dropped \cup {t} /\ back' = Tail(back)
      /\ chain' = chain /\ template' = template /\ sweep' = sweep /\ pc' = pc /\ newTip' = newTip
  BY DEF ReturnTx
<1>3. /\ t \in Txs /\ Tail(back) \in Seq(Txs) /\ Len(Tail(back)) = Len(back) - 1 /\ Len(back) \in Nat \ {0}
      /\ Distinct(Tail(back)) /\ t \notin T /\ ToSet(back) = T \cup {t}
  BY <1>1, <1>2, TailIs DEF BackSound, Shapes
<1>4. ToSet(back') = T
  BY <1>2
<1> HIDE DEF t, T
<1>5. Between' = Between
  BY <1>2, <1>3, <1>4 DEF Between
<1>6. Sources' = Sources
  BY <1>2, <1>5 DEF Sources, Between
<1>7. Shapes'
  BY <1>1, <1>2, <1>3 DEF Shapes, Tip
<1>8. BackSound'
  <2>1. InsOf(T) \subseteq InsOf(ToSet(back)) /\ PostsOf(T) \subseteq PostsOf(ToSet(back)) /\ T \subseteq ToSet(back)
    BY <1>3, InsAre, PostsAre
  <2>2. nextRow + Len(Tail(back)) <= MaxRows + 1
    BY <1>1, <1>3, CapAssumption DEF BackSound, Shapes
  <2>3. TxsIn(pool)' = TxsIn(pool)
    BY <1>2 DEF TxsIn
  <2> QED BY <1>1, <1>2, <1>3, <1>4, <1>6, <2>1, <2>2, <2>3 DEF BackSound
<1>9. SweepSound' /\ TemplateSound' /\ ChainSound(chain)'
  <2>1. SweepSound'
    BY <1>1, <1>2, SweepKept DEF SweepSound
  <2>2. nextRow \in Nat
    BY <1>1 DEF Shapes
  <2> QED BY <1>1, <1>2, <2>1, <2>2, TemplateKept
<1>10. SoundOn(State, chain', Between')
  BY <1>1, <1>2, <1>5
<1> QED BY <1>1, <1>2, <1>7, <1>8, <1>9, <1>10, After

-----------------------------------------------------------------------------
(* The pool's and the template's steps. *)

(* An admitted transaction spends nothing spent: a pooled output is not spent while its
   maker is pooled. *)
LEMMA SubmitHolds ==
  ASSUME IInv, NEW t \in Txs, Submit(t)
  PROVE  IInv'
<1> DEFINE w == insertUtxoTx(State, t, Tip + 1 + Expiry)
           expires == Tip + 1 + Expiry
           base == BaseOf(chain, Between)
           u == [w EXCEPT !.pending = @ \cup PostsOf({t})]
<1>1. /\ ChainSound(chain) /\ BackSound /\ SweepSound /\ Shapes /\ TemplateSound
      /\ SoundOn(State, chain, Between) /\ Tables(State)
      /\ State.pool = pool /\ State.next = nextRow /\ State.pending = pending
  BY Before
<1>2. /\ pc = "idle" /\ nextRow <= MaxRows /\ MayInsert(State, t)
      /\ Tx[t].ins \subseteq Live(chain) \cup PendingOutputs(pool)
      /\ pool' = u.pool /\ nextRow' = u.next /\ pending' = u.pending
      /\ chain' = chain /\ template' = template /\ sweep' = sweep /\ pc' = pc
      /\ dropped' = dropped /\ back' = back /\ newTip' = newTip
  BY DEF Submit, Store
<1>3. TableSound(State, Spent(chain), base, PostsOf(Between))
  BY <1>1 DEF SoundOn
<1>4. nextRow \in Nat /\ State.next > 0 /\ expires \in 1 .. MaxHeight + 1 + Expiry
  BY <1>1, CapAssumption DEF Shapes, ChainSound, Tip
<1>5. Tx[t].ins \cap Spent(chain) = {}
  <2> SUFFICES ASSUME NEW x \in Tx[t].ins, x \in Spent(chain) PROVE FALSE
    OBVIOUS
  <2>1. x \in PendingOutputs(pool)
    BY <1>2 DEF Live
  <2>2. PICK e \in pool : x \in Tx[e.tx].outs
    BY <2>1, OutputsAre
  <2>3. e.tx \in Txs
    BY <1>1, <1>3, <2>2 DEF TableSound, PoolEntries
  <2>4. PICK y \in Tx[e.tx].ins : y \in Spent(chain)
    BY <1>1, <2>2, <2>3, MakerSpends
  <2>5. y \in PendingSpends(pool)
    BY <2>2, <2>4, SpendsAre
  <2> QED BY <1>1, <1>3, <2>4, <2>5 DEF TableSound
<1>6. Tx[t].ins \subseteq base \cup PendingOutputs(State.pool)
  BY <1>1, <1>2 DEF BaseOf
<1> DEFINE v == [x \in {"pool", "next", "pending"} |-> IF x = "pending" THEN w.pending \cup PostsOf({t}) ELSE w[x]]
<1>7. v.pool = w.pool /\ v.next = w.next /\ v.pending = w.pending \cup PostsOf({t})
  BY Zenon
<1>8. w = insertUtxoTx(State, t, expires)
  OBVIOUS
<1> HIDE DEF w, base, expires, v
<1>9. TableSound(v, Spent(chain), base, PostsOf(Between)) /\ Tables(w) /\ Inserted(State, t, expires, w)
  BY <1>1, <1>2, <1>3, <1>4, <1>5, <1>6, <1>7, <1>8, InsertTables
<1>10. v.pool = pool' /\ v.next = nextRow' /\ v.pending = pending'
  <2>1. u.pool = w.pool /\ u.next = w.next /\ u.pending = w.pending \cup PostsOf({t})
    BY <1>9 DEF Tables
  <2> QED BY <1>2, <1>7, <2>1
<1> HIDE DEF u
<1>11. SoundOn(v, chain', Between')
  BY <1>2, <1>9 DEF SoundOn, Between, base
<1>12. nextRow' = nextRow + 1 /\ \A e \in pool' : e \in pool \/ e.row = nextRow
  BY <1>1, <1>7, <1>9, <1>10 DEF Inserted
<1>13. Shapes'
  BY <1>1, <1>2, <1>4, <1>12, CapAssumption DEF Shapes, Tip
<1>14. BackSound'
  BY <1>1, <1>2, <1>13, NothingBackNext DEF BackSound, Shapes
<1>15. TemplateSound'
  BY <1>1, <1>2, <1>4, <1>12, TemplateKept
<1>16. SweepSound'
  BY <1>1, <1>2 DEF SweepSound, RowsOf
<1>17. ChainSound(chain)'
  BY <1>1, <1>2
<1> QED BY <1>10, <1>11, <1>13, <1>14, <1>15, <1>16, <1>17, After

(* Entries leave with their dependents, and nothing else of the pool's moves. *)
LEMMA TrimStep ==
  ASSUME IInv, NEW E, Store(removeUnconfirmed(State, E)), pc # "switching", pc' # "switching",
         chain' = chain, dropped' = dropped, back' = back, newTip' = newTip, sweep' = sweep,
         pc' \in {"idle", "building", "sweeping"}, pc' = "idle" => sweep = {}, TemplateSound'
  PROVE  IInv'
<1> DEFINE u == removeUnconfirmed(State, E)
<1>1. /\ ChainSound(chain) /\ BackSound /\ SweepSound /\ Shapes
      /\ SoundOn(State, chain, Between) /\ Tables(State)
      /\ State.pool = pool /\ State.next = nextRow /\ State.pending = pending
  BY Before
<1>2. Trim(State, u)
  BY <1>1, RemovedTrims
<1>3. pool' = u.pool /\ nextRow' = u.next /\ pending' = u.pending
  BY DEF Store
<1> HIDE DEF u
<1>4. SoundOn(u, chain', Between')
  <2>1. TableSound(u, Spent(chain), BaseOf(chain, Between), PostsOf(Between))
    BY <1>1, <1>2, TrimSound DEF SoundOn
  <2> QED BY <2>1 DEF SoundOn, Between
<1>5. pool' \subseteq pool /\ nextRow' = nextRow
  BY <1>1, <1>2, <1>3 DEF Trim
<1>6. Shapes'
  BY <1>1, <1>5 DEF Shapes, Tip
<1>7. BackSound'
  BY <1>1, <1>6, NothingBackNext DEF BackSound, Shapes
<1>8. SweepSound'
  BY <1>1, <1>5, SweepKept
<1>9. ChainSound(chain)'
  BY <1>1
<1> QED BY <1>3, <1>4, <1>6, <1>7, <1>8, <1>9, After

(* A refused block's rows leave with their dependents. *)
LEMMA SubmitRefusedHolds ==
  ASSUME IInv, SubmitRefused
  PROVE  IInv'
<1>1. /\ pc = "idle" /\ pc' = "building" /\ chain' = chain /\ template' = template /\ sweep' = sweep
      /\ dropped' = dropped /\ back' = back /\ newTip' = newTip
      /\ Store(removeUnconfirmed(State, RowsOf(template.rows)))
  BY DEF SubmitRefused
<1>2. TemplateSound'
  <2>1. TemplateSound /\ Shapes /\ Tables(State) /\ State.pool = pool /\ State.next = nextRow
    BY Before
  <2>2. Trim(State, removeUnconfirmed(State, RowsOf(template.rows)))
    BY <2>1, RemovedTrims
  <2>3. pool' \subseteq pool /\ nextRow' = nextRow /\ nextRow \in Nat
    BY <1>1, <2>1, <2>2 DEF Trim, Store, Shapes
  <2> QED BY <1>1, <2>1, <2>3, TemplateKept
<1> QED BY <1>1, <1>2, TrimStep

(* Nothing of the pool's moves. *)
LEMMA PoolKept ==
  ASSUME IInv, pool' = pool, nextRow' = nextRow, pending' = pending, pc # "switching", pc' # "switching",
         chain' = chain, dropped' = dropped, back' = back, newTip' = newTip,
         pc' \in {"idle", "building", "sweeping"}, SweepSound', sweep' \subseteq sweep, TemplateSound'
  PROVE  IInv'
<1>1. /\ ChainSound(chain) /\ BackSound /\ SweepSound /\ Shapes /\ SoundOn(State, chain, Between)
      /\ State.pool = pool /\ State.next = nextRow /\ State.pending = pending
  BY Before
<1>2. SoundOn(State, chain', Between') /\ ChainSound(chain)'
  BY <1>1 DEF Between
<1>3. Shapes'
  BY <1>1 DEF Shapes, Tip
<1>4. BackSound'
  BY <1>1, <1>3, NothingBackNext DEF BackSound, Shapes
<1> QED BY <1>1, <1>2, <1>3, <1>4, After

(* A declined build. *)
LEMMA DeclineHolds ==
  ASSUME IInv, Decline
  PROVE  IInv'
<1>1. SweepSound
  BY Before
<1>2. /\ pc = "building" /\ template' = None /\ pc' = AfterBuild /\ chain' = chain /\ sweep' = sweep
      /\ dropped' = dropped /\ back' = back /\ newTip' = newTip
      /\ pool' = pool /\ nextRow' = nextRow /\ pending' = pending
  BY DEF Decline
<1>3. pc' \in {"idle", "sweeping"} /\ (pc' = "idle" => sweep = {})
  BY <1>2 DEF AfterBuild
<1>4. SweepSound' /\ TemplateSound'
  BY <1>1, <1>2, <1>3 DEF SweepSound, RowsOf, TemplateSound
<1> QED BY <1>2, <1>3, <1>4, PoolKept

(* The sweep takes nothing. *)
LEMMA SweepHoldsStep ==
  ASSUME IInv, Sweep
  PROVE  IInv' /\ pool' = pool
<1>1. SweepSound /\ TemplateSound /\ Tables(State) /\ State.pool = pool /\ State.next = nextRow /\ State.pending = pending
  BY Before
<1>2. /\ pc = "sweeping" /\ pc' = "idle" /\ sweep' = {} /\ chain' = chain /\ template' = template
      /\ dropped' = dropped /\ back' = back /\ newTip' = newTip /\ Store(Without(State, RowsOf(sweep)))
  BY DEF Sweep
<1>3. RowsOf(sweep) = {}
  BY <1>1 DEF SweepSound
<1>4. PostsOf(TxsIn({})) = {}
  BY PostsInAre
<1>5. pool' = pool /\ nextRow' = nextRow /\ pending' = pending
  BY <1>1, <1>2, <1>3, <1>4 DEF Store, Without, Tables
<1>6. SweepSound' /\ TemplateSound'
  BY <1>1, <1>2, <1>5 DEF SweepSound, RowsOf, TemplateSound
<1> QED BY <1>2, <1>5, <1>6, PoolKept

(* A build leaves a template whose rows are of its transactions, or evicts. *)
LEMMA BuildHolds ==
  ASSUME IInv, Build
  PROVE  IInv'
<1>1. SweepSound /\ TemplateSound /\ Shapes /\ SoundOn(State, chain, Between) /\ State.pool = pool
      /\ Tables(State) /\ State.next = nextRow
  BY Before
<1>2. /\ pc = "building" /\ chain' = chain /\ sweep' = sweep
      /\ dropped' = dropped /\ back' = back /\ newTip' = newTip
  BY DEF Build
<1> DEFINE full == Selection
           chosen(trim) == SubSeq(full, 1, Len(full) - trim)
           ts(trim) == [k \in DOMAIN chosen(trim) |-> chosen(trim)[k].tx]
<1>3. PICK trim \in Trims \cap 0 .. Len(full) :
        \/ /\ template' = [on |-> chain, txs |-> ts(trim), rows |-> {e.row : e \in ToSet(chosen(trim))}]
           /\ pc' = AfterBuild
           /\ pool' = pool /\ nextRow' = nextRow /\ pending' = pending
        \/ /\ \E E : Store(removeUnconfirmed(State, E))
           /\ template' = template /\ pc' = pc
  BY DEF Build
<1>4. CASE \E E : Store(removeUnconfirmed(State, E)) /\ template' = template /\ pc' = pc
  <2>1. PICK E : Store(removeUnconfirmed(State, E)) /\ template' = template /\ pc' = pc
    BY <1>4
  <2>2. TemplateSound'
    <3>1. Trim(State, removeUnconfirmed(State, E))
      BY <1>1, RemovedTrims
    <3>2. pool' \subseteq pool /\ nextRow' = nextRow /\ nextRow \in Nat
      BY <1>1, <2>1, <3>1 DEF Trim, Store, Shapes
    <3> QED BY <1>1, <2>1, <3>2, TemplateKept
  <2> QED BY <1>2, <2>1, <2>2, TrimStep
<1>5. CASE /\ template' = [on |-> chain, txs |-> ts(trim), rows |-> {e.row : e \in ToSet(chosen(trim))}]
           /\ pc' = AfterBuild
           /\ pool' = pool /\ nextRow' = nextRow /\ pending' = pending
  <2>1. /\ Entries(pool) /\ pool \subseteq PoolEntries(nextRow)
        /\ \A e, x \in pool : e.row = x.row => e = x
    BY <1>1 DEF SoundOn, TableSound, PoolEntries, Entries
  <2>2. full \in Seq(pool)
    BY <2>1, SelectionIs
  <2> HIDE DEF full
  <2>3. chosen(trim) \in Seq(pool)
    BY <2>2
  <2> DEFINE q == chosen(trim)
             body == [k \in DOMAIN q |-> q[k].tx]
  <2>4. template'.txs = body /\ template'.rows = {e.row : e \in ToSet(q)}
    BY <1>5
  <2>5. q \in Seq(pool)
    BY <2>3
  <2> HIDE DEF chosen, q
  <2>6. DOMAIN q = 1 .. Len(q) /\ Len(q) \in Nat /\ \A k \in DOMAIN q : q[k] \in pool
    BY <2>5
  <2>7. \A e \in pool : e.tx \in Txs /\ e.row \in 1 .. nextRow - 1
    BY <2>1 DEF PoolEntries
  <2>8. body \in Seq(Txs)
    BY <2>6, <2>7
  <2>9. \A e \in ToSet(q) : e \in pool /\ e.tx \in ToSet(body)
    BY <2>6 DEF ToSet
  <2>10. \A e \in pool : e.row \in template'.rows => e \in ToSet(q)
    BY <2>1, <2>4, <2>9
  <2>11. template'.rows \subseteq 1 .. nextRow - 1
    BY <2>4, <2>7, <2>9
  <2>12. TemplateSound'
    BY <1>5, <2>4, <2>8, <2>9, <2>10, <2>11 DEF TemplateSound, RowsOf
  <2>13. pc' \in {"idle", "sweeping"} /\ (pc' = "idle" => sweep = {})
    BY <1>5 DEF AfterBuild
  <2>14. SweepSound'
    BY <1>1, <1>2, <1>5, <2>13 DEF SweepSound, RowsOf
  <2> QED BY <1>2, <1>5, <2>12, <2>13, <2>14, PoolKept
<1> QED BY <1>3, <1>4, <1>5

-----------------------------------------------------------------------------
(* The theorems. *)

(* The initial state. *)
LEMMA Starts == Init => IInv
<1> SUFFICES ASSUME Init PROVE IInv
  OBVIOUS
<1>1. /\ chain = <<>> /\ pool = {} /\ nextRow = 1 /\ pending = {} /\ template = None /\ sweep = {}
      /\ pc = "building" /\ dropped = {} /\ back = <<>> /\ newTip = 0
  BY DEF Init
<1>2. ChainSound(chain)
  BY <1>1 DEF ChainSound
<1>3. Shapes
  BY <1>1, CapAssumption DEF Shapes, Tip
<1>4. BackSound
  BY <1>1, <1>3, NothingBack DEF Shapes
<1>5. TemplateSound /\ SweepSound
  BY <1>1 DEF TemplateSound, SweepSound, RowsOf
<1>6. SoundOn(State, chain, Between)
  <2>1. State.pool = {} /\ State.next = 1 /\ State.pending = {}
    BY <1>1 DEF State
  <2>2. \A class : InClass({}, class) = {}
    BY DEF InClass
  <2>3. Capped({}) /\ IsFiniteSet({})
    BY <2>2, FS_EmptySet, CapAssumption DEF Capped
  <2>4. PendingSpends({}) = {} /\ PostsOf(TxsIn({})) = {}
    BY SpendsAre, PostsInAre
  <2> QED BY <2>1, <2>3, <2>4 DEF SoundOn, TableSound
<1> QED BY <1>2, <1>3, <1>4, <1>5, <1>6, IInvIs

(* Every step. *)
LEMMA Keeps == IInv /\ [Next]_vars => IInv'
<1> SUFFICES ASSUME IInv, [Next]_vars PROVE IInv'
  OBVIOUS
<1>1. CASE \E t \in Txs : Submit(t)
  BY <1>1, SubmitHolds
<1>2. CASE \E b \in PeerBlocks : PeerBlock(b)
  BY <1>2, PeerBlockHolds
<1>3. CASE \E fork \in 0 .. MaxHeight : \E length \in 1 .. 2 : StartSwitch(fork, length)
  BY <1>3, StartSwitchHolds
<1>4. CASE ReturnTx
  BY <1>4, ReturnedHolds, LeftOutHolds
<1>5. CASE \E b \in PeerBlocks : BranchBlock(b)
  BY <1>5, BranchBlockHolds
<1>6. CASE EndSwitch
  BY <1>6, EndSwitchHolds
<1>7. CASE Build
  BY <1>7, BuildHolds
<1>8. CASE Decline
  BY <1>8, DeclineHolds
<1>9. CASE SubmitApplied
  BY <1>9, SubmitAppliedHolds
<1>10. CASE SubmitRefused
  BY <1>10, SubmitRefusedHolds
<1>11. CASE Sweep
  BY <1>11, SweepHoldsStep
<1>12. CASE UNCHANGED vars
  <2>1. /\ chain' = chain /\ pool' = pool /\ nextRow' = nextRow /\ pending' = pending
        /\ template' = template /\ sweep' = sweep /\ pc' = pc /\ dropped' = dropped
        /\ back' = back /\ newTip' = newTip
    BY <1>12 DEF vars
  <2>2. /\ ChainSound(chain) /\ BackSound /\ SweepSound /\ Shapes /\ TemplateSound
        /\ SoundOn(State, chain, Between)
        /\ State.pool = pool /\ State.next = nextRow /\ State.pending = pending
    BY Before
  <2>3. Shapes'
    BY <2>1, <2>2 DEF Shapes, Tip
  <2>4. BackSound' /\ TemplateSound' /\ SweepSound'
    BY <2>1, <2>2 DEF BackSound, Sources, TemplateSound, SweepSound, RowsOf, PendingOutputs, TxsIn
  <2>5. SoundOn(State, chain', Between') /\ ChainSound(chain)'
    BY <2>1, <2>2 DEF Between
  <2> QED BY <2>1, <2>2, <2>3, <2>4, <2>5, After
<1> QED BY <1>1, <1>2, <1>3, <1>4, <1>5, <1>6, <1>7, <1>8, <1>9, <1>10, <1>11, <1>12 DEF Next

(* Through admission, displacement, confirmation, expiry, eviction, reverts and returns no
   box has two pending spenders and none is spent by the chain, every entry is fed, every
   class is within its cap, and the pending rows are those of the entries. *)
THEOREM PoolHolds == Spec => []PoolSound
<1>1. IInv => PoolSound
  BY DEF IInv
<1> QED BY <1>1, Starts, Keeps, PTL DEF Spec

\* While nothing is built or switched a template applies to the tip it was built on.
AtRest ==
  pc \in {"idle", "sweeping"} /\ template # None
    => template.on = chain /\ BodyApplies(chain, template.txs)

(* A template that a nonce may come back for extends the tip, and its body applies there,
   whatever was applied, switched, refused or declined since it was built. *)
THEOREM TemplateHolds == Spec => []TemplateApplies
<1>1. Init => AtRest
  BY DEF Init, AtRest
<1>2. AtRest /\ [Next]_vars => AtRest'
  <2> SUFFICES ASSUME AtRest, [Next]_vars PROVE AtRest'
    OBVIOUS
  <2>1. CASE pc' \in {"building", "switching"}
    BY <2>1 DEF AtRest
  <2>2. CASE template' = None
    BY <2>2 DEF AtRest
  <2>3. CASE pc \in {"idle", "sweeping"} /\ chain' = chain /\ template' = template
    BY <2>3 DEF AtRest
  <2>4. CASE Build
    <3>1. CASE pc' = pc
      BY <2>4, <3>1 DEF Build, AtRest
    <3>2. CASE pc' # pc
      <4>1. PICK ts, rows : BodyApplies(chain, ts) /\ template' = [on |-> chain, txs |-> ts, rows |-> rows]
        BY <2>4, <3>2 DEF Build
      <4>2. template'.on = chain /\ template'.txs = ts /\ chain' = chain
        BY <2>4, <4>1 DEF Build
      <4> QED BY <4>1, <4>2 DEF AtRest
    <3> QED BY <3>1, <3>2
  <2>5. CASE \E t \in Txs : Submit(t)
    BY <2>3, <2>5 DEF Submit
  <2>6. CASE \E b \in PeerBlocks : PeerBlock(b)
    BY <2>1, <2>6 DEF PeerBlock
  <2>7. CASE \E fork \in 0 .. MaxHeight : \E length \in 1 .. 2 : StartSwitch(fork, length)
    BY <2>1, <2>7 DEF StartSwitch
  <2>8. CASE ReturnTx
    BY <2>1, <2>8 DEF ReturnTx
  <2>9. CASE \E b \in PeerBlocks : BranchBlock(b)
    BY <2>1, <2>9 DEF BranchBlock
  <2>10. CASE EndSwitch \/ SubmitApplied \/ SubmitRefused
    BY <2>1, <2>10 DEF EndSwitch, SubmitApplied, SubmitRefused
  <2>11. CASE Decline
    BY <2>2, <2>11 DEF Decline
  <2>12. CASE Sweep
    BY <2>3, <2>12 DEF Sweep
  <2>13. CASE UNCHANGED vars
    BY <2>13 DEF AtRest, vars
  <2> QED BY <2>4, <2>5, <2>6, <2>7, <2>8, <2>9, <2>10, <2>11, <2>12, <2>13 DEF Next
<1>3. AtRest => TemplateApplies
  BY DEF AtRest, TemplateApplies
<1> QED BY <1>1, <1>2, <1>3, PTL DEF Spec

(* The rows read before the apply name no entry that is in the pool after it: the sweep
   of a mined block's rows takes nothing away. *)
THEOREM SweepHolds == Spec => SweepTakesNothing
<1>1. IInv /\ [Next]_vars => [pc = "sweeping" => pool' = pool]_vars
  <2> SUFFICES ASSUME IInv, [Next]_vars, pc = "sweeping" PROVE pool' = pool
    OBVIOUS
  <2>1. CASE Sweep
    BY <2>1, SweepHoldsStep
  <2>2. CASE UNCHANGED vars
    BY <2>2 DEF vars
  <2>3. (\E t \in Txs : Submit(t)) \/ (\E b \in PeerBlocks : PeerBlock(b)) => pc = "idle"
    BY DEF Submit, PeerBlock
  <2>4. (\E fork \in 0 .. MaxHeight : \E length \in 1 .. 2 : StartSwitch(fork, length)) => pc = "idle"
    BY DEF StartSwitch
  <2>5. ReturnTx \/ (\E b \in PeerBlocks : BranchBlock(b)) \/ EndSwitch => pc = "switching"
    BY DEF ReturnTx, BranchBlock, EndSwitch
  <2>6. Build \/ Decline => pc = "building"
    BY DEF Build, Decline
  <2>7. SubmitApplied \/ SubmitRefused => pc = "idle"
    BY DEF SubmitApplied, SubmitRefused
  <2> QED BY <2>1, <2>2, <2>3, <2>4, <2>5, <2>6, <2>7 DEF Next
<1> QED BY <1>1, Starts, Keeps, PTL DEF Spec, SweepTakesNothing
=============================================================================
