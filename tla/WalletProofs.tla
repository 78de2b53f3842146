---------------------------- MODULE WalletProofs ----------------------------
(***************************************************************************)
(* The wallet for any number of pages, boxes and spends.  The lock is the  *)
(* argument: only the page that holds it moves what waits, so what a flow  *)
(* or a pass read when it took the lock is still so at its answer          *)
(* (Placed).  While the wallet knows the fate of its sends (Calm), the     *)
(* transactions alive spend no box twice and what one of them spends is    *)
(* with the node or comes of a write that waits before it.                 *)
(***************************************************************************)
EXTENDS Wallet, SumProofs, SequenceTheorems

-----------------------------------------------------------------------------
(* The types. *)

Marks == [TxIds -> {"none", "waiting", "sent"}]
Stores ==
  [base : Bases \cup {NoBase}, writes : Seq(Writes), pending : Marks, chain : Chains]
PageStates ==
  [open : BOOLEAN, tipChain : Chains \cup {NoChain}, tip : BOOLEAN, entries : Marks,
   inFlight : BOOLEAN, passChain : Chains \cup {NoChain}, job : Jobs \cup {NoJob}]
NodeStates == [chain : Chains, pool : SUBSET TxIds, confirmed : SUBSET TxIds]

Typed ==
  /\ store \in Stores /\ page \in [Pages -> PageStates] /\ node \in NodeStates
  /\ lock \in Pages \cup {NoPage}
  /\ txs \in Seq(Seq(Boxes)) /\ Len(txs) <= MaxTxs
  /\ ended \subseteq TxIds /\ clean \in BOOLEAN /\ used \in Nat

-----------------------------------------------------------------------------
(* What holds whatever happens. *)

\* One transaction after another.
Ordered(ws) == \A i, j \in DOMAIN ws : i < j => ws[i].tx < ws[j].tx

\* The transactions of some writes.
TxsOf(ws) == {ws[i].tx : i \in DOMAIN ws}

Waiting == TxsOf(store.writes)

\* A flow's transaction is the last one built, and new.
FlowPlaced(j) ==
  /\ j.tx = Len(txs) /\ j.tx \in TxIds /\ j.tx \notin Waiting \cup ended
  /\ j.pc # "taken" => j.tx \notin Taken
  /\ j.stranded = {}

\* A pass sends what waits, in its order.
PassPlaced(j) ==
  /\ j.pc # "sign" /\ j.todo # <<>>
  /\ Ordered(j.todo) /\ Range(j.todo) = Range(store.writes)

JobPlaced(p) ==
  page[p].job # NoJob =>
    /\ lock = p /\ page[p].open
    /\ IF page[p].job.kind = "flush" THEN PassPlaced(page[p].job) ELSE FlowPlaced(page[p].job)

Placed ==
  /\ Ordered(store.writes)
  /\ Waiting \cup Taken \cup ended \subseteq 1 .. Len(txs)
  /\ \A p \in Pages : JobPlaced(p)

-----------------------------------------------------------------------------
(* What holds while the wallet knows the fate of its sends. *)

Working(p) == page[p].job # NoJob

\* The transactions of flows, those taken and not answered yet, the change
\* that is gone with the writes the pass has ended.
Flown == {page[p].job.tx : p \in {q \in Pages : Working(q) /\ page[q].job.kind # "flush"}}
Unheard == {Sends(page[p].job) : p \in {q \in Pages : Working(q) /\ page[q].job.pc = "taken"}}
Stranded == UNION {page[p].job.stranded : p \in {q \in Pages : Working(q)}}

Live == Waiting \cup Taken \cup Flown
ChangesOf(T) == UNION {Changes(t) : t \in T}

\* The chains a page goes by: its own, and that of a pass that waits for the lock.
Named(r) == {r.tipChain, r.passChain}

OneChain ==
  /\ node.chain = 1 /\ store.chain = 1
  /\ store.base # NoBase => store.base.chain = 1
  /\ \A i \in DOMAIN store.writes : store.writes[i].chain = 1
  /\ \A p \in Pages :
       /\ Named(page[p]) \subseteq {1, NoChain}
       /\ Working(p) /\ page[p].job.kind = "flush" => page[p].job.chain = 1

\* A transaction spends boxes older than itself, each once.
Numbered == \A t \in DOMAIN txs : IsInjective(txs[t]) /\ \A b \in Spent(t) : b.tx < t

\* No box is spent by two of the live ones.
Disjoint == \A t, u \in Live : t # u => Spent(t) \cap Spent(u) = {}

\* Nothing the node took spends what a write that waits or a flow makes.
Fresh == \A t \in Waiting \cup Flown, u \in Taken : Change(t) \notin Spent(u)

\* What one still to be taken spends the node has, or waits, or was stranded.
Available ==
  \A t \in (Waiting \cup Flown) \ Taken : Spent(t) \subseteq NodeView \cup ChangesOf(Waiting) \cup Stranded

\* What waits is not taken, but for the one whose answer is on its way; what
\* has ended is neither.
Apart ==
  /\ Unheard \subseteq Taken /\ (Waiting \cup Flown) \cap Taken \subseteq Unheard
  /\ ended \cap Live = {}

\* The base is the node's view before the one whose answer is on its way.
BaseSound ==
  store.base # NoBase =>
    LET have == Range(store.base.spendable)
    IN  /\ IsInjective(store.base.spendable)
        /\ NodeView = (have \ UNION {Spent(t) : t \in Unheard}) \cup ChangesOf(Unheard)
        /\ \A t \in Unheard : Change(t) \notin have

\* A pass sends nothing that spends a stranded box, a burn is over no waiting
\* write, and only a press built on one that waits is refused for a box.
Orderly(j) ==
  /\ j.kind = "flush" => Spent(Head(j.todo).tx) \cap j.stranded = {}
  /\ j.kind = "burn" => store.writes = <<>>
  /\ j.pc = "taken" \/ Sends(j) \notin Taken
  /\ j.pc = "clash" => j.kind = "press" /\ ChangesOf(Waiting) \cap Spent(j.tx) # {}

Calm ==
  /\ OneChain /\ Numbered /\ Disjoint /\ Fresh /\ Available /\ Apart /\ BaseSound
  /\ \A p \in Pages : Working(p) => Orderly(page[p].job)

IInv == Typed /\ Placed /\ (clean => Calm)
-----------------------------------------------------------------------------
(* Lists of writes and of boxes. *)

(* What a part of some writes keeps of them. *)
LEMMA AmongWrites ==
  ASSUME NEW ws \in Seq(Writes), NEW S
  PROVE  LET r == Among(ws, S)
         IN  /\ r \in Seq(Writes) /\ Range(r) = Range(ws) \cap S
             /\ Ordered(ws) => Ordered(r)
<1> DEFINE r == Among(ws, S)
<1>1. r \in Seq(Writes) /\ Picks(r, ws, S)
  BY AmongIs
<1> HIDE DEF r
<1>2. Range(r) = Range(ws) \cap S
  BY <1>1 DEF Picks, Range
<1>3. ASSUME Ordered(ws) PROVE Ordered(r)
  <2> SUFFICES ASSUME NEW i \in DOMAIN r, NEW k \in DOMAIN r, i < k PROVE r[i].tx < r[k].tx
    BY DEF Ordered
  <2>1. PICK j \in DOMAIN ws, l \in DOMAIN ws : j < l /\ ws[j] = r[i] /\ ws[l] = r[k]
    BY <1>1 DEF Picks
  <2> QED BY <1>3, <2>1 DEF Ordered
<1> QED BY <1>1, <1>2, <1>3 DEF r

(* A box listed once is listed once in a part of the list. *)
LEMMA AmongBoxes ==
  ASSUME NEW s \in Seq(Boxes), NEW S
  PROVE  LET r == Among(s, S)
         IN  /\ r \in Seq(Boxes) /\ Range(r) = Range(s) \cap S
             /\ IsInjective(s) => IsInjective(r)
<1> DEFINE r == Among(s, S)
<1>1. r \in Seq(Boxes) /\ Picks(r, s, S)
  BY AmongIs
<1> HIDE DEF r
<1>2. Range(r) = Range(s) \cap S
  BY <1>1 DEF Picks, Range
<1>3. ASSUME IsInjective(s) PROVE IsInjective(r)
  <2>1. ASSUME NEW i \in DOMAIN r, NEW k \in DOMAIN r, i < k PROVE r[i] # r[k]
    <3>1. PICK j \in DOMAIN s, l \in DOMAIN s : j < l /\ s[j] = r[i] /\ s[l] = r[k]
      BY <1>1, <2>1 DEF Picks
    <3>2. j # l
      BY <3>1
    <3> QED BY <1>3, <3>1, <3>2 DEF IsInjective
  <2>2. \A i, k \in DOMAIN r : i = k \/ i < k \/ k < i
    BY <1>1
  <2> QED BY <2>1, <2>2 DEF IsInjective
<1> QED BY <1>1, <1>2, <1>3 DEF r

(* Nothing is twice in a sequence without repetition. *)
LEMMA AppendOnce ==
  ASSUME NEW T, NEW s \in Seq(T), NEW x \in T
  PROVE  /\ s \o <<x>> \in Seq(T) /\ Range(s \o <<x>>) = Range(s) \cup {x}
         /\ IsInjective(s) /\ x \notin Range(s) => IsInjective(s \o <<x>>)
<1> DEFINE r == s \o <<x>>
<1>1. r \in Seq(T) /\ Len(r) = Len(s) + 1 /\ r[Len(s) + 1] = x
      /\ \A i \in 1 .. Len(s) : r[i] = s[i]
  OBVIOUS
<1>2. DOMAIN r = 1 .. Len(s) + 1 /\ DOMAIN s = 1 .. Len(s) /\ Len(s) \in Nat
  BY <1>1
<1> HIDE DEF r
<1>3. \A i \in DOMAIN r : i = Len(s) + 1 \/ i \in DOMAIN s
  BY <1>2
<1>4. Range(r) = Range(s) \cup {x}
  <2>1. \A i \in DOMAIN s : i \in DOMAIN r /\ r[i] = s[i]
    BY <1>1, <1>2
  <2>2. Len(s) + 1 \in DOMAIN r
    BY <1>2
  <2> QED BY <1>1, <1>3, <2>1, <2>2 DEF Range
<1>5. ASSUME IsInjective(s), x \notin Range(s) PROVE IsInjective(r)
  <2>1. \A i \in DOMAIN s : r[i] = s[i] /\ r[i] # x
    BY <1>1, <1>2, <1>5 DEF Range
  <2> QED BY <1>1, <1>3, <1>5, <2>1 DEF IsInjective
<1> QED BY <1>1, <1>4, <1>5 DEF r

\* The change of a transaction is a box or none.
LEMMA ChangeType ==
  ASSUME NEW t \in Nat
  PROVE  /\ Change(t) \in Boxes /\ Change(t).tx = t
         /\ Changes(t) = IF t \in Exact THEN {} ELSE {Change(t)}
<1>1. Change(t) \in Boxes /\ Change(t).tx = t
  BY DEF Change, Boxes
<1>2. CASE t \in Exact
  BY <1>1, <1>2 DEF Changes, ChangeOf, Range
<1>3. CASE t \notin Exact
  BY <1>1, <1>3 DEF Changes, ChangeOf, Range
<1> QED BY <1>1, <1>2, <1>3

(* A spend takes its inputs out of a list of boxes and adds its change. *)
LEMMA ApplyIs ==
  ASSUME NEW boxes \in Seq(Boxes), NEW t \in TxIds
  PROVE  LET r == ApplyToSpendable(boxes, t)
         IN  /\ r \in Seq(Boxes) /\ Range(r) = (Range(boxes) \ Spent(t)) \cup Changes(t)
             /\ IsInjective(boxes) /\ Change(t) \notin Range(boxes) => IsInjective(r)
<1> DEFINE s == Among(boxes, Range(boxes) \ Spent(t))
           r == ApplyToSpendable(boxes, t)
<1>0. t \in Nat
  BY WalletAssumption DEF TxIds
<1>1. s \in Seq(Boxes) /\ Range(s) = Range(boxes) \ Spent(t)
      /\ (IsInjective(boxes) => IsInjective(s))
  BY AmongBoxes
<1>2. r = s \o ChangeOf(t)
  BY DEF ApplyToSpendable
<1> HIDE DEF s, r
<1>3. CASE t \in Exact
  <2>1. r = s
    BY <1>1, <1>2, <1>3 DEF ChangeOf
  <2>2. Changes(t) = {}
    BY <1>0, <1>3, ChangeType
  <2> QED BY <1>1, <2>1, <2>2 DEF r
<1>4. CASE t \notin Exact
  <2>1. r = s \o <<Change(t)>>
    BY <1>2, <1>4 DEF ChangeOf
  <2>2. Changes(t) = {Change(t)} /\ Change(t) \in Boxes
    BY <1>0, <1>4, ChangeType
  <2>3. r \in Seq(Boxes) /\ Range(r) = Range(s) \cup {Change(t)}
        /\ (IsInjective(s) /\ Change(t) \notin Range(s) => IsInjective(r))
    BY <1>1, <2>1, <2>2, AppendOnce
  <2> QED BY <1>1, <2>2, <2>3 DEF r
<1> QED BY <1>3, <1>4

(* A finite set is listed with each element once. *)
LEMMA SetToSeqIs ==
  ASSUME NEW T, NEW S, S \subseteq T, IsFiniteSet(S)
  PROVE  SetToSeq(S) \in Seq(T) /\ Range(SetToSeq(S)) = S /\ IsInjective(SetToSeq(S))
<1> DEFINE n == Cardinality(S)
           s == SetToSeq(S)
<1>1. n \in Nat /\ ExistsBijection(1 .. n, S)
  BY FS_CardinalityType
<1>2. PICK f \in Bijection(1 .. n, S) : TRUE
  BY <1>1 DEF ExistsBijection
<1>3. f \in [1 .. n -> S] /\ IsInjective(f)
  BY <1>2 DEF Bijection, Injection
<1>4. s = CHOOSE g \in [1 .. n -> S] : IsInjective(g)
  BY DEF SetToSeq
<1> HIDE DEF s, n
<1>5. s \in [1 .. n -> S] /\ IsInjective(s)
  BY <1>3, <1>4
<1>6. s \in Injection(1 .. n, S)
  BY <1>5 DEF Injection
<1>7. IsFiniteSet(1 .. n) /\ Cardinality(1 .. n) = n
  BY <1>1, FS_Interval
<1>8. s \in Surjection(1 .. n, S)
  BY <1>6, <1>7, FS_Injection DEF n
<1>9. Range(s) = S
  BY <1>5, <1>8 DEF Surjection, Range
<1>10. s \in Seq(T)
  BY <1>1, <1>5
<1> QED BY <1>5, <1>9, <1>10 DEF s

SpentOf(T) == UNION {Spent(t) : t \in T}

\* The lists of boxes on the way from the base to the view, one more write each.
Advances(s, k, a) ==
  LET w == WaitingOf(s, k)
  IN  /\ a \in [0 .. Len(w) -> Seq(Boxes)] /\ a[0] = s.base.spendable /\ a[Len(w)] = View(s, k)
      /\ \A i \in 1 .. Len(w) : a[i] = ApplyToSpendable(a[i - 1], w[i].tx)

(* The view is made in such steps. *)
LEMMA ViewSteps ==
  ASSUME NEW s \in Stores, NEW k, ReadBase(s, k) # NoBase
  PROVE  (\E a : Advances(s, k, a)) /\ View(s, k) \in Seq(Boxes)
<1> DEFINE w == WaitingOf(s, k)
           n == Len(w)
           x == s.base.spendable
           D == Seq(Boxes)
           F == [i \in 1 .. n |-> [r \in D |-> ApplyToSpendable(r, w[i].tx)]]
           Is(g) == g = [i \in 0 .. n |-> IF i = 0 THEN ReadBase(s, k).spendable
                                          ELSE ApplyToSpendable(g[i - 1], w[i].tx)]
           after == CHOOSE g : Is(g)
<1>1. x \in D /\ ReadBase(s, k) = s.base /\ s.writes \in Seq(Writes)
  BY DEF ReadBase, Stores, Bases
<1>2. w \in Seq(Writes)
  BY <1>1, AmongWrites DEF WaitingOf
<1>3. n \in Nat /\ DOMAIN w = 1 .. n
  <2> HIDE DEF w
  <2> QED BY <1>2
<1>4. \A i \in 1 .. n : w[i].tx \in TxIds
  <2> HIDE DEF w, n
  <2>1. \A i \in 1 .. n : w[i] \in Writes
    BY <1>2, <1>3
  <2> QED BY <2>1 DEF Writes
<1>5. View(s, k) = after[n]
  BY DEF View
<1> HIDE DEF w, n, D, x
<1>6. F \in [1 .. n -> [D -> D]] /\ \A i \in 1 .. n : \A r \in D : F[i][r] = ApplyToSpendable(r, w[i].tx)
  <2>1. \A i \in 1 .. n : \A r \in D : ApplyToSpendable(r, w[i].tx) \in D
    BY <1>4, ApplyIs DEF D
  <2> QED BY <2>1
<1> HIDE DEF F
<1>7. PICK g \in [0 .. n -> D] : g[0] = x /\ \A i \in 1 .. n : g[i] = F[i][g[i - 1]]
  <2>1. Defined(n, D, x, F)
    BY <1>1, <1>3, <1>6, Recursion
  <2> QED BY <2>1 DEF Defined
<1>8. Is(g)
  <2>1. \A i \in 0 .. n : g[i] = IF i = 0 THEN ReadBase(s, k).spendable
                                 ELSE ApplyToSpendable(g[i - 1], w[i].tx)
    <3> TAKE i \in 0 .. n
    <3>1. CASE i = 0
      BY <1>1, <1>7, <3>1 DEF x
    <3>2. CASE i # 0
      <4>1. i \in 1 .. n /\ i - 1 \in 0 .. n
        BY <1>3, <3>2
      <4>2. g[i] = F[i][g[i - 1]] /\ g[i - 1] \in D
        BY <1>7, <4>1
      <4> QED BY <1>6, <3>2, <4>1, <4>2
    <3> QED BY <3>1, <3>2
  <2> QED BY <1>7, <2>1
<1> HIDE DEF Is
<1>9. Is(after)
  BY <1>8
<1>10. Is(after) => \A i \in 0 .. n : after[i] = IF i = 0 THEN ReadBase(s, k).spendable
                                                 ELSE ApplyToSpendable(after[i - 1], w[i].tx)
  <2> HIDE DEF after
  <2> QED BY DEF Is
<1> HIDE DEF after
<1>11. after[0] = x /\ \A i \in 1 .. n : after[i] = ApplyToSpendable(after[i - 1], w[i].tx)
  <2>1. after[0] = x
    BY <1>1, <1>3, <1>9, <1>10 DEF x
  <2>2. ASSUME NEW i \in 1 .. n PROVE after[i] = ApplyToSpendable(after[i - 1], w[i].tx)
    <3>1. i \in 0 .. n /\ i # 0
      BY <1>3
    <3> QED BY <1>9, <1>10, <3>1
  <2> QED BY <2>1, <2>2
<1>12. Is(after) => DOMAIN after = 0 .. n
  <2> HIDE DEF after
  <2> QED BY DEF Is
<1> DEFINE G == {i \in 0 .. n : after[i] \in D}
<1>13. 0 \in G
  BY <1>1, <1>3, <1>11
<1>14. ASSUME NEW i \in 1 .. n, i - 1 \in G PROVE i \in G
  <2>1. i \in 0 .. n /\ after[i] = F[i][after[i - 1]] /\ after[i - 1] \in D
    BY <1>3, <1>6, <1>11, <1>14
  <2> QED BY <1>6, <2>1
<1> HIDE DEF G
<1>15. 0 .. n \subseteq G
  BY <1>3, <1>13, <1>14, Upto
<1>16. DOMAIN after = 0 .. n /\ \A i \in 0 .. n : after[i] \in D
  BY <1>9, <1>12, <1>15 DEF G
<1>17. Is(after) => after = [i \in 0 .. n |-> after[i]]
  <2> HIDE DEF after
  <2> QED BY DEF Is
<1>18. after \in [0 .. n -> D]
  BY <1>9, <1>16, <1>17
<1>19. Advances(s, k, after)
  BY <1>5, <1>11, <1>18 DEF Advances, D, n, w, x
<1>20. after[n] \in D
  BY <1>3, <1>18
<1> QED BY <1>5, <1>19, <1>20 DEF D

(* The view a page builds on: the base and what the waiting writes make, less
   what they spend. *)
LEMMA ViewIs ==
  ASSUME NEW s \in Stores, NEW k, ReadBase(s, k) # NoBase, Ordered(s.writes),
         \A i \in DOMAIN s.writes : s.writes[i].chain = k,
         IsInjective(s.base.spendable),
         \A t \in TxsOf(s.writes) : /\ Change(t) \notin Range(s.base.spendable)
                                    /\ \A b \in Spent(t) : b.tx < t
  PROVE  /\ View(s, k) \in Seq(Boxes) /\ IsInjective(View(s, k))
         /\ Range(View(s, k)) =
              (Range(s.base.spendable) \cup ChangesOf(TxsOf(s.writes))) \ SpentOf(TxsOf(s.writes))
<1> DEFINE w == WaitingOf(s, k)
           n == Len(w)
           x == s.base.spendable
           D == Seq(Boxes)
<1>1. x \in D /\ ReadBase(s, k) = s.base /\ s.writes \in Seq(Writes)
  BY DEF ReadBase, Stores, Bases
<1>2. w \in Seq(Writes) /\ Range(w) = Range(s.writes) /\ Ordered(w)
  <2> DEFINE S == {v \in Range(s.writes) : v.chain = k}
  <2>1. S = Range(s.writes)
    BY DEF Range
  <2>2. w = Among(s.writes, S)
    BY DEF WaitingOf
  <2> HIDE DEF S, w
  <2>3. Among(s.writes, S) \in Seq(Writes) /\ Range(Among(s.writes, S)) = Range(s.writes) \cap S
        /\ (Ordered(s.writes) => Ordered(Among(s.writes, S)))
    BY <1>1, AmongWrites
  <2> QED BY <2>1, <2>2, <2>3
<1>3. n \in Nat /\ DOMAIN w = 1 .. n
  <2> HIDE DEF w
  <2> QED BY <1>2
<1>4. \A i \in 1 .. n : w[i].tx \in TxIds
  <2> HIDE DEF w, n
  <2>1. \A i \in 1 .. n : w[i] \in Writes
    BY <1>2, <1>3
  <2> QED BY <2>1 DEF Writes
<1>5. PICK after : Advances(s, k, after)
  BY ViewSteps
<1>6. after[0] = x /\ after[n] = View(s, k) /\ \A i \in 1 .. n : after[i] = ApplyToSpendable(after[i - 1], w[i].tx)
  BY <1>5 DEF Advances
<1> HIDE DEF w, n, D, x
<1> DEFINE T(i) == {w[j].tx : j \in 1 .. i}
           Right(i) == /\ after[i] \in D /\ IsInjective(after[i])
                       /\ Range(after[i]) = (Range(x) \cup ChangesOf(T(i))) \ SpentOf(T(i))
           G == {i \in 0 .. n : Right(i)}
<1>12. 0 \in G
  <2>1. T(0) = {}
    OBVIOUS
  <2>2. ChangesOf({}) = {} /\ SpentOf({}) = {}
    BY DEF ChangesOf, SpentOf
  <2> HIDE DEF T
  <2>3. IsInjective(after[0]) /\ after[0] \in D /\ 0 \in 0 .. n
    BY <1>1, <1>3, <1>6 DEF x
  <2>4. Range(after[0]) = (Range(x) \cup ChangesOf(T(0))) \ SpentOf(T(0))
    BY <1>6, <2>1, <2>2
  <2> QED BY <2>3, <2>4
<1>13. \A i \in 1 .. n : w[i].tx \in TxsOf(s.writes)
  <2> TAKE i \in 1 .. n
  <2>1. PICK j \in DOMAIN s.writes : s.writes[j] = w[i]
    BY <1>2, <1>3 DEF Range
  <2> QED BY <2>1 DEF TxsOf
<1>14. ASSUME NEW i \in 1 .. n, i - 1 \in G PROVE i \in G
  <2> DEFINE t == w[i].tx
             b == after[i - 1]
             C == ChangesOf(T(i - 1))
             S == SpentOf(T(i - 1))
  <2>1. i \in 0 .. n /\ i \in Nat /\ b \in D /\ IsInjective(b) /\ Range(b) = (Range(x) \cup C) \ S
    BY <1>3, <1>14
  <2>2. t \in TxIds /\ t \in Nat /\ t \in TxsOf(s.writes)
    BY <1>4, <1>13, WalletAssumption DEF TxIds
  <2>3. after[i] = ApplyToSpendable(b, t)
    BY <1>6
  <2>4. T(i) = T(i - 1) \cup {t}
    <3>1. \A j \in 1 .. i : j = i \/ j \in 1 .. i - 1
      BY <2>1
    <3>2. i \in 1 .. i /\ \A j \in 1 .. i - 1 : j \in 1 .. i
      BY <2>1
    <3> QED BY <3>1, <3>2
  <2>5. ChangesOf(T(i)) = C \cup Changes(t) /\ SpentOf(T(i)) = S \cup Spent(t)
    <3> HIDE DEF T
    <3> QED BY <2>4 DEF ChangesOf, SpentOf
  <2>6. \A u \in T(i - 1) : u \in TxsOf(s.writes) /\ u \in Nat /\ u < t
    <3> SUFFICES ASSUME NEW j \in 1 .. i - 1 PROVE w[j].tx \in TxsOf(s.writes) /\ w[j].tx \in Nat /\ w[j].tx < t
      OBVIOUS
    <3>1. j \in 1 .. n /\ j < i
      BY <1>3, <2>1
    <3>2. w[j].tx < t
      BY <1>2, <1>3, <3>1 DEF Ordered
    <3> QED BY <1>4, <1>13, <3>1, <3>2, WalletAssumption DEF TxIds
  <2>7. Change(t) \notin S /\ Change(t) \notin Spent(t) /\ Change(t) \notin Range(x)
    <3>1. Change(t).tx = t
      BY <2>2, ChangeType
    <3>2. \A u \in T(i - 1) : Change(t) \notin Spent(u)
      <4> HIDE DEF T
      <4> TAKE u \in T(i - 1)
      <4>1. u \in Nat /\ u < t /\ \A c \in Spent(u) : c.tx < u
        BY <2>6
      <4> QED BY <2>2, <3>1, <4>1
    <3>3. Change(t) \notin Spent(t)
      BY <2>2, <3>1
    <3>4. Change(t) \notin S
      <4> HIDE DEF T
      <4> QED BY <3>2 DEF SpentOf
    <3> QED BY <2>2, <3>3, <3>4 DEF x
  <2>8. Change(t) \notin C
    <3> HIDE DEF T
    <3> SUFFICES ASSUME NEW u \in T(i - 1), Change(t) \in Changes(u) PROVE FALSE
      BY DEF ChangesOf
    <3>1. u \in Nat /\ u < t
      BY <2>6
    <3>2. Change(t) = Change(u) /\ Change(t).tx = t /\ Change(u).tx = u
      BY <2>2, <3>1, ChangeType
    <3> QED BY <2>2, <3>1, <3>2
  <2>9. Changes(t) \subseteq {Change(t)}
    BY <2>2, ChangeType
  <2> HIDE DEF T, C, S, b, t
  <2>10. /\ after[i] \in D /\ Range(after[i]) = (Range(b) \ Spent(t)) \cup Changes(t)
         /\ IsInjective(b) /\ Change(t) \notin Range(b) => IsInjective(after[i])
    BY <2>1, <2>2, <2>3, ApplyIs DEF D
  <2>11. Change(t) \notin Range(b)
    BY <2>1, <2>7, <2>8
  <2>12. Range(after[i]) = (Range(x) \cup ChangesOf(T(i))) \ SpentOf(T(i))
    BY <2>1, <2>5, <2>7, <2>9, <2>10
  <2> QED BY <2>1, <2>10, <2>11, <2>12
<1> HIDE DEF G
<1>15. n \in G
  BY <1>3, <1>12, <1>14, Upto
<1>16. T(n) = TxsOf(s.writes)
  <2>1. \A j \in DOMAIN s.writes : \E i \in 1 .. n : w[i] = s.writes[j]
    BY <1>2, <1>3 DEF Range
  <2>2. TxsOf(s.writes) \subseteq T(n)
    BY <2>1 DEF TxsOf
  <2> QED BY <1>13, <2>2
<1>17. Right(n)
  BY <1>15 DEF G
<1> HIDE DEF T
<1> QED BY <1>6, <1>16, <1>17 DEF D, x

-----------------------------------------------------------------------------
(* What the operations on the store leave of it. *)

LEMMA StoreFields ==
  ASSUME NEW s \in Stores
  PROVE  /\ s.writes \in Seq(Writes) /\ s.pending \in Marks /\ s.chain \in Chains
         /\ s.base # NoBase => s.base \in Bases
  BY DEF Stores

LEMMA TxsOfIs ==
  ASSUME NEW ws \in Seq(Writes)
  PROVE  /\ TxsOf(ws) = {w.tx : w \in Range(ws)} /\ TxsOf(ws) \subseteq TxIds
         /\ \A i \in DOMAIN ws : ws[i] \in Writes /\ ws[i].tx \in TxsOf(ws)
<1>1. \A i \in DOMAIN ws : ws[i] \in Writes
  OBVIOUS
<1>2. TxsOf(ws) = {w.tx : w \in Range(ws)}
  BY DEF TxsOf, Range
<1>3. \A i \in DOMAIN ws : ws[i].tx \in TxIds /\ ws[i].tx \in TxsOf(ws)
  BY <1>1 DEF Writes, TxsOf
<1>4. TxsOf(ws) \subseteq TxIds
  BY <1>3 DEF TxsOf
<1> QED BY <1>1, <1>2, <1>3, <1>4

(* Some writes leave. *)
LEMMA DropIs ==
  ASSUME NEW s \in Stores, NEW T
  PROVE  LET d == Drop(s, T)
         IN  /\ d \in Stores /\ d.base = s.base /\ d.chain = s.chain /\ d.pending = s.pending
             /\ Range(d.writes) = {w \in Range(s.writes) : w.tx \notin T}
             /\ TxsOf(d.writes) = TxsOf(s.writes) \ T
             /\ Ordered(s.writes) => Ordered(d.writes)
<1> DEFINE S == {w \in Range(s.writes) : w.tx \notin T}
           r == Among(s.writes, S)
           d == Drop(s, T)
<1>1. s.writes \in Seq(Writes)
  BY StoreFields
<1>2. r \in Seq(Writes) /\ Range(r) = Range(s.writes) \cap S /\ (Ordered(s.writes) => Ordered(r))
  <2> HIDE DEF S
  <2> QED BY <1>1, AmongWrites
<1>3. d = [s EXCEPT !.writes = r]
  BY DEF Drop
<1> HIDE DEF r, d
<1>4. d.writes = r /\ d.base = s.base /\ d.chain = s.chain /\ d.pending = s.pending /\ d \in Stores
  BY <1>2, <1>3 DEF Stores
<1>5. Range(r) = S
  BY <1>2
<1>6. TxsOf(r) = TxsOf(s.writes) \ T
  <2>1. TxsOf(r) = {w.tx : w \in Range(r)}
    BY <1>2, TxsOfIs
  <2>2. TxsOf(s.writes) = {w.tx : w \in Range(s.writes)}
    BY <1>1, TxsOfIs
  <2> QED BY <1>5, <2>1, <2>2
<1> QED BY <1>2, <1>4, <1>5, <1>6 DEF d

(* One more write waits. *)
LEMMA KeepIs ==
  ASSUME NEW s \in Stores, NEW t \in TxIds, NEW k \in Chains
  PROVE  LET d == Keep(s, t, k)
         IN  /\ d \in Stores /\ d.base = s.base /\ d.chain = s.chain /\ d.pending = s.pending
             /\ TxsOf(d.writes) = TxsOf(s.writes) \cup {t}
             /\ Range(d.writes) = Range(s.writes) \cup {[tx |-> t, chain |-> k]}
             /\ Ordered(s.writes) /\ (\A u \in TxsOf(s.writes) : u < t) => Ordered(d.writes)
<1> DEFINE w == [tx |-> t, chain |-> k]
           ws == s.writes
           r == Append(ws, w)
           d == Keep(s, t, k)
<1>1. ws \in Seq(Writes) /\ w \in Writes /\ w.tx = t
  BY StoreFields DEF Writes
<1>2. d = [s EXCEPT !.writes = r]
  BY DEF Keep
<1> HIDE DEF w, ws, d
<1>3. r \in Seq(Writes) /\ Len(r) = Len(ws) + 1 /\ r[Len(ws) + 1] = w
      /\ \A i \in 1 .. Len(ws) : r[i] = ws[i]
  BY <1>1
<1>4. DOMAIN r = 1 .. Len(ws) + 1 /\ DOMAIN ws = 1 .. Len(ws) /\ Len(ws) \in Nat
  BY <1>1, <1>3
<1> HIDE DEF r
<1>5. d.writes = r /\ d.base = s.base /\ d.chain = s.chain /\ d.pending = s.pending /\ d \in Stores
  BY <1>2, <1>3 DEF Stores
<1>6. \A i \in DOMAIN r : i = Len(ws) + 1 \/ (i \in DOMAIN ws /\ i < Len(ws) + 1)
  BY <1>4
<1>7. Range(r) = Range(ws) \cup {w}
  <2>1. \A i \in DOMAIN ws : i \in DOMAIN r /\ r[i] = ws[i]
    BY <1>3, <1>4
  <2>2. Len(ws) + 1 \in DOMAIN r
    BY <1>4
  <2> QED BY <1>3, <1>6, <2>1, <2>2 DEF Range
<1>8. TxsOf(r) = TxsOf(ws) \cup {t}
  <2>1. TxsOf(r) = {v.tx : v \in Range(r)} /\ TxsOf(ws) = {v.tx : v \in Range(ws)}
    BY <1>1, <1>3, TxsOfIs
  <2> QED BY <1>1, <1>7, <2>1
<1>9. ASSUME Ordered(ws), \A u \in TxsOf(ws) : u < t PROVE Ordered(r)
  <2> SUFFICES ASSUME NEW i \in DOMAIN r, NEW k2 \in DOMAIN r, i < k2 PROVE r[i].tx < r[k2].tx
    BY DEF Ordered
  <2>1. i \in DOMAIN ws /\ r[i] = ws[i] /\ ws[i].tx \in TxsOf(ws)
    BY <1>3, <1>4 DEF TxsOf
  <2>2. CASE k2 \in DOMAIN ws
    BY <1>3, <1>4, <1>9, <2>1, <2>2 DEF Ordered
  <2>3. CASE k2 = Len(ws) + 1
    BY <1>1, <1>3, <1>9, <2>1, <2>3
  <2> QED BY <1>6, <2>2, <2>3
<1> QED BY <1>5, <1>7, <1>8, <1>9 DEF d, ws, w

(* The base advances by a spend the node took, if it is of its chain. *)
LEMMA AbsorbSentIs ==
  ASSUME NEW s \in Stores, NEW t \in TxIds, NEW k
  PROVE  LET d == AbsorbSent(s, t, k)
         IN  /\ d \in Stores /\ d.writes = s.writes /\ d.chain = s.chain /\ d.pending = s.pending
             /\ IF ReadBase(s, k) = NoBase THEN d = s
                ELSE /\ s.base \in Bases /\ d.base.chain = s.base.chain
                     /\ d.base.spendable = ApplyToSpendable(s.base.spendable, t)
<1> DEFINE d == AbsorbSent(s, t, k)
<1>1. CASE ReadBase(s, k) = NoBase
  BY <1>1 DEF AbsorbSent
<1>2. CASE ReadBase(s, k) # NoBase
  <2>1. s.base \in Bases
    BY <1>2, StoreFields DEF ReadBase
  <2> DEFINE x == ApplyToSpendable(s.base.spendable, t)
  <2>2. x \in Seq(Boxes)
    <3>1. s.base.spendable \in Seq(Boxes)
      BY <2>1 DEF Bases
    <3> QED BY <3>1, ApplyIs
  <2>3. d = [s EXCEPT !.base.spendable = x]
    BY <1>2 DEF AbsorbSent
  <2> HIDE DEF x, d
  <2>4. d = [s EXCEPT !.base = [s.base EXCEPT !.spendable = x]]
    BY <2>3
  <2> DEFINE b == [s.base EXCEPT !.spendable = x]
  <2>5. b \in Bases /\ b.chain = s.base.chain /\ b.spendable = x
    BY <2>1, <2>2 DEF Bases
  <2> HIDE DEF b
  <2>6. d \in Stores /\ d.writes = s.writes /\ d.chain = s.chain /\ d.pending = s.pending /\ d.base = b
    BY <2>4, <2>5 DEF Stores, b
  <2> QED BY <1>2, <2>1, <2>5, <2>6 DEF x, d
<1> QED BY <1>1, <1>2

(* A ledger written to storage touches nothing else. *)
LEMMA PersistedIs ==
  ASSUME NEW s \in Stores, NEW p, NEW e \in Marks
  PROVE  LET d == Persisted(s, p, e)
         IN  d \in Stores /\ d.base = s.base /\ d.writes = s.writes /\ d.chain = s.chain
<1> DEFINE d == [s EXCEPT !.pending = e]
<1>1. d \in Stores /\ d.base = s.base /\ d.writes = s.writes /\ d.chain = s.chain
  BY DEF Stores
<1> HIDE DEF d
<1>2. Persisted(s, p, e) = s \/ Persisted(s, p, e) = d
  BY DEF Persisted, d
<1> QED BY <1>1, <1>2

(* The pending entries stay entries. *)
LEMMA MarksKept ==
  ASSUME NEW e \in Marks
  PROVE  /\ \A T : Released(e, T) \in Marks
         /\ \A s, b : OrphansReleased(s, e, b) \in Marks
         /\ \A T : [t \in TxIds |-> IF t \in T THEN "none" ELSE e[t]] \in Marks
         /\ \A t \in TxIds, m \in {"none", "waiting", "sent"} : [e EXCEPT ![t] = m] \in Marks
<1>1. \A T : Released(e, T) \in Marks
  BY DEF Released, Marks
<1>2. \A s, b : OrphansReleased(s, e, b) \in Marks
  BY <1>1 DEF OrphansReleased
<1>3. \A T : [t \in TxIds |-> IF t \in T THEN "none" ELSE e[t]] \in Marks
  BY DEF Marks
<1>4. \A t \in TxIds, m \in {"none", "waiting", "sent"} : [e EXCEPT ![t] = m] \in Marks
  BY DEF Marks
<1> QED BY <1>1, <1>2, <1>3, <1>4

(* What the node offers is boxes, of the chain's start or of transactions taken. *)
LEMMA NodeViewIs ==
  ASSUME node \in NodeStates
  PROVE  /\ NodeView \subseteq Boxes /\ IsFiniteSet(NodeView)
         /\ \A b \in NodeView : b.tx = 0 \/ b.tx \in Taken
         /\ Taken \subseteq TxIds
<1>0. Taken \subseteq TxIds /\ node.chain \in Nat
  BY WalletAssumption DEF Taken, NodeStates, Chains
<1> DEFINE k == node.chain
           f == [n \in 1 .. Coins |-> [tx |-> 0, chain |-> k, n |-> n]]
           g == [t \in Taken |-> Change(t)]
           A == {f[n] : n \in 1 .. Coins}
           B == {g[t] : t \in Taken}
<1>1. \A t \in Taken : t \in Nat /\ Change(t) \in Boxes /\ Change(t).tx = t /\ Changes(t) \subseteq {Change(t)}
  <2> TAKE t \in Taken
  <2>1. t \in Nat
    BY <1>0, WalletAssumption DEF TxIds
  <2> QED BY <2>1, ChangeType
<1>2. Genesis(k) = A /\ A \subseteq Boxes /\ \A b \in A : b.tx = 0
  BY <1>0, WalletAssumption DEF Genesis, Boxes
<1>3. IsFiniteSet(A)
  <2>1. IsFiniteSet(1 .. Coins)
    BY WalletAssumption, FS_Interval
  <2>2. \A x, y \in 1 .. Coins : f[x] = f[y] => x = y
    OBVIOUS
  <2> HIDE DEF f
  <2> QED BY <2>1, <2>2, ImageCardinality
<1>4. IsFiniteSet(B)
  <2>1. IsFiniteSet(TxIds)
    BY WalletAssumption, FS_Interval DEF TxIds
  <2>2. IsFiniteSet(Taken)
    BY <1>0, <2>1, FS_Subset
  <2>3. \A x, y \in Taken : g[x] = g[y] => x = y
    BY <1>1
  <2> HIDE DEF g
  <2> QED BY <2>2, <2>3, ImageCardinality
<1>5. UNION {Changes(t) : t \in Taken} \subseteq B
  BY <1>1
<1>6. B \subseteq Boxes /\ \A b \in B : b.tx \in Taken
  BY <1>1
<1> HIDE DEF A, B
<1>7. IsFiniteSet(A \cup B)
  BY <1>3, <1>4, FS_Union
<1>8. NodeView \subseteq A \cup B
  BY <1>2, <1>5 DEF NodeView
<1>9. IsFiniteSet(NodeView)
  BY <1>7, <1>8, FS_Subset
<1> QED BY <1>0, <1>2, <1>6, <1>8, <1>9

(* An answer's boxes replace the base. *)
LEMMA RecordBaseIs ==
  ASSUME NEW s \in Stores, NEW k \in Chains, node \in NodeStates
  PROVE  LET d == RecordBase(s, k)
         IN  /\ d \in Stores /\ d.writes = s.writes /\ d.chain = s.chain
             /\ d.base \in Bases /\ d.base.chain = k /\ d.base.spendable = SetToSeq(NodeView)
<1> DEFINE x == SetToSeq(NodeView)
           b == [chain |-> k, spendable |-> x]
           d == RecordBase(s, k)
<1>1. x \in Seq(Boxes)
  BY NodeViewIs, SetToSeqIs
<1> HIDE DEF x
<1>2. b \in Bases /\ b.chain = k /\ b.spendable = x
  BY <1>1 DEF Bases
<1>3. d = [s EXCEPT !.base = b]
  BY DEF RecordBase, x
<1> HIDE DEF b, d
<1>4. d \in Stores /\ d.writes = s.writes /\ d.chain = s.chain /\ d.base = b
  BY <1>2, <1>3 DEF Stores
<1> QED BY <1>2, <1>4 DEF x, d

-----------------------------------------------------------------------------
(* The pass's way to its next send. *)

(* It stops at the first write that does not end; those before it have. *)
LEMMA NextSentIs ==
  ASSUME NEW j, j.todo \in Seq(Writes)
  PROVE  LET n == NextSent(j)
         IN  /\ n \in 1 .. Len(j.todo) + 1
             /\ n <= Len(j.todo) => ~EndsUnsent(j, n)
             /\ \A i \in 1 .. n - 1 : i \in DOMAIN j.todo /\ EndsUnsent(j, i)
<1> DEFINE goes == {i \in DOMAIN j.todo : ~EndsUnsent(j, i)}
           T == goes \cup {Len(j.todo) + 1}
           l == Len(j.todo)
<1>1. DOMAIN j.todo = 1 .. l /\ l \in Nat
  OBVIOUS
<1>2. goes \subseteq 1 .. l
  BY <1>1
<1>3. \A i \in 1 .. l : i \notin goes => EndsUnsent(j, i)
  BY <1>1
<1>4. \A i \in goes : ~EndsUnsent(j, i)
  OBVIOUS
<1>5. NextSent(j) = Min(T)
  BY DEF NextSent
<1> DEFINE n == Min(T)
<1>12. T = goes \cup {l + 1}
  OBVIOUS
<1> HIDE DEF goes, l, T
<1>6. T \subseteq Nat /\ T # {}
  <2>1. l + 1 \in Nat /\ 1 .. l \subseteq Nat
    BY <1>1
  <2> QED BY <1>2, <1>12, <2>1
<1>7. n \in T /\ \A y \in T : n <= y
  BY <1>6, MinOf
<1> HIDE DEF n
<1>8. n \in 1 .. l + 1
  <2>1. CASE n = l + 1
    BY <1>1, <2>1
  <2>2. CASE n \in goes
    <3>1. n \in 1 .. l
      BY <1>2, <2>2
    <3> QED BY <1>1, <3>1
  <2> QED BY <1>7, <1>12, <2>1, <2>2
<1>9. n <= l => ~EndsUnsent(j, n)
  <2>1. n <= l => n # l + 1
    BY <1>1, <1>8
  <2> QED BY <1>4, <1>7, <1>12, <2>1
<1>10. \A i \in 1 .. n - 1 : i \in 1 .. l /\ i \notin goes
  BY <1>1, <1>7, <1>8, <1>12
<1>11. \A i \in 1 .. n - 1 : i \in DOMAIN j.todo /\ EndsUnsent(j, i)
  BY <1>1, <1>3, <1>10
<1> QED BY <1>5, <1>8, <1>9, <1>11 DEF n, l, T

\* What is left of the pass's writes.
Rest(j) == SubSeq(j.todo, NextSent(j), Len(j.todo))

(* What is left is what has not ended, in its order. *)
LEMMA RestIs ==
  ASSUME NEW j, j.todo \in Seq(Writes), Ordered(j.todo)
  PROVE  LET r == Rest(j)
         IN  /\ r \in Seq(Writes) /\ Ordered(r)
             /\ Range(r) = {w \in Range(j.todo) : w.tx \notin EndedOf(j)}
             /\ EndedOf(j) \subseteq TxsOf(j.todo)
             /\ r # <<>> => NextSent(j) \in DOMAIN j.todo /\ r[1] = j.todo[NextSent(j)]
             /\ EndedOf(j) = {j.todo[h].tx : h \in 1 .. NextSent(j) - 1}
<1> DEFINE s == j.todo
           n == NextSent(j)
           l == Len(s)
           r == SubSeq(s, n, l)
           E == EndedOf(j)
<1>1. s \in Seq(Writes) /\ l \in Nat /\ DOMAIN s = 1 .. l /\ Ordered(s)
  OBVIOUS
<1>2. n \in 1 .. l + 1
  BY NextSentIs
<1>3. E = {s[i].tx : i \in 1 .. n - 1} /\ Rest(j) = r
  BY DEF EndedOf, Rest
<1> HIDE DEF s, n, E
<1>4. r \in Seq(Writes) /\ Len(r) = l - n + 1 /\ \A i \in 1 .. l - n + 1 : r[i] = s[n + i - 1]
  BY <1>1, <1>2
<1> HIDE DEF r, l
<1>5. DOMAIN r = 1 .. l - n + 1
  BY <1>4
<1>6. \A i \in DOMAIN r : n + i - 1 \in DOMAIN s /\ r[i] = s[n + i - 1] /\ n + i - 1 >= n
  BY <1>1, <1>2, <1>4, <1>5
<1>7. \A i \in DOMAIN s : i >= n => i - n + 1 \in DOMAIN r /\ r[i - n + 1] = s[i]
  <2> TAKE i \in DOMAIN s
  <2> HAVE i >= n
  <2>1. i - n + 1 \in 1 .. l - n + 1 /\ n + (i - n + 1) - 1 = i
    BY <1>1, <1>2
  <2> QED BY <1>4, <1>5, <2>1
<1>8. \A i \in DOMAIN s : s[i] \in Writes /\ s[i].tx \in Nat
  <2>1. \A i \in DOMAIN s : s[i] \in Writes
    BY <1>1
  <2> QED BY <2>1, WalletAssumption DEF Writes, TxIds
<1>9. Ordered(r)
  <2> SUFFICES ASSUME NEW a \in DOMAIN r, NEW b \in DOMAIN r, a < b PROVE r[a].tx < r[b].tx
    BY DEF Ordered
  <2>1. n + a - 1 < n + b - 1
    BY <1>2, <1>5
  <2> QED BY <1>1, <1>6, <2>1 DEF Ordered
<1>10. \A i \in 1 .. n - 1 : i \in DOMAIN s /\ i < n
  BY <1>1, <1>2
<1>11. \A i \in DOMAIN s : s[i].tx \in E <=> i < n
  <2> TAKE i \in DOMAIN s
  <2>1. ASSUME i < n PROVE s[i].tx \in E
    <3>1. i \in 1 .. n - 1
      BY <1>1, <1>2, <2>1
    <3> QED BY <1>3, <3>1
  <2>2. ASSUME s[i].tx \in E, ~(i < n) PROVE FALSE
    <3>1. PICK h \in 1 .. n - 1 : s[h].tx = s[i].tx
      BY <1>3, <2>2
    <3>2. h \in DOMAIN s /\ h < i
      BY <1>1, <1>2, <1>10, <2>2
    <3>3. s[h].tx < s[i].tx
      BY <1>1, <3>2 DEF Ordered
    <3> QED BY <1>8, <3>1, <3>3
  <2> QED BY <2>1, <2>2
<1>12. Range(r) = {w \in Range(s) : w.tx \notin E}
  <2>1. ASSUME NEW i \in DOMAIN r PROVE r[i] \in Range(s) /\ r[i].tx \notin E
    <3>1. ~(n + i - 1 < n)
      BY <1>2, <1>5
    <3> QED BY <1>6, <1>11, <3>1 DEF Range
  <2>2. ASSUME NEW i \in DOMAIN s, s[i].tx \notin E PROVE s[i] \in Range(r)
    <3>1. i >= n
      BY <1>1, <1>2, <1>11, <2>2
    <3> QED BY <1>7, <3>1 DEF Range
  <2> QED BY <2>1, <2>2 DEF Range
<1>13. E \subseteq TxsOf(s)
  BY <1>3, <1>10 DEF TxsOf
<1>14. ASSUME r # <<>> PROVE n \in DOMAIN s /\ r[1] = s[n]
  <2>1. l - n + 1 >= 1
    <3>1. Len(r) # 0
      BY <1>4, <1>14
    <3> QED BY <1>1, <1>2, <1>4, <3>1
  <2>2. 1 \in 1 .. l - n + 1 /\ n \in 1 .. l
    BY <1>1, <1>2, <2>1
  <2> QED BY <1>1, <1>2, <1>4, <2>2
<1> QED BY <1>3, <1>4, <1>9, <1>12, <1>13, <1>14 DEF s, n, E

(* The next write the pass sends spends nothing stranded so far. *)
LEMMA NextClear ==
  ASSUME NEW j, j.todo \in Seq(Writes), Ordered(j.todo), Rest(j) # <<>>
  PROVE  /\ Rest(j)[1].chain = j.chain
         /\ Spent(Rest(j)[1].tx) \cap (j.stranded \cup ChangesOf(EndedOf(j))) = {}
<1> DEFINE n == NextSent(j)
           w == Rest(j)[1]
<1>1. n \in DOMAIN j.todo /\ w = j.todo[n] /\ EndedOf(j) = {j.todo[h].tx : h \in 1 .. n - 1}
  BY RestIs
<1>2. n <= Len(j.todo)
  BY <1>1
<1>3. ~EndsUnsent(j, n)
  BY <1>2, NextSentIs
<1>4. w.chain = j.chain
      /\ Spent(w.tx) \cap (j.stranded \cup UNION {Changes(j.todo[h].tx) : h \in 1 .. n - 1}) = {}
  BY <1>1, <1>3 DEF EndsUnsent
<1> HIDE DEF n, w
<1>5. ChangesOf(EndedOf(j)) = UNION {Changes(j.todo[h].tx) : h \in 1 .. n - 1}
  BY <1>1 DEF ChangesOf
<1> QED BY <1>4, <1>5 DEF w

-----------------------------------------------------------------------------
(* One page moves: it holds the lock, and the others have no job. *)

Turned(p, j) ==
  /\ page' \in [Pages -> PageStates] /\ page'[p].job = j
  /\ Named(page'[p]) \subseteq Named(page[p]) \cup {NoChain}
  /\ lock' \in Pages \cup {NoPage} /\ (j # NoJob => lock' = p /\ page'[p].open)
  /\ \A q \in Pages \ {p} : page'[q] = page[q] /\ page[q].job = NoJob

\* A page with another job, and with other entries, and with a pass in flight or not.
Job(p, j) == [page EXCEPT ![p].job = j]
JobEntries(p, j, e) == [page EXCEPT ![p].job = j, ![p].entries = e]
JobEntriesPass(p, j, e, b) ==
  [page EXCEPT ![p].job = j, ![p].entries = e, ![p].inFlight = b, ![p].passChain = NoChain]

\* The pages with j the job of p, its tip and the others as they were.
HasJob(g, p, j) ==
  /\ g \in [Pages -> PageStates] /\ g[p].job = j
  /\ Named(g[p]) \subseteq Named(page[p]) \cup {NoChain} /\ g[p].open = page[p].open
  /\ \A q \in Pages \ {p} : g[q] = page[q]

LEMMA PageOne ==
  ASSUME page \in [Pages -> PageStates], NEW p \in Pages, NEW j \in Jobs \cup {NoJob}
  PROVE  HasJob(Job(p, j), p, j)
<1> DEFINE r == [page[p] EXCEPT !.job = j]
<1>1. r \in PageStates /\ r.job = j /\ Named(r) = Named(page[p]) /\ r.open = page[p].open
  BY DEF PageStates, Named
<1> HIDE DEF r
<1>2. Job(p, j) = [page EXCEPT ![p] = r]
  BY DEF r, Job
<1> QED BY <1>1, <1>2 DEF HasJob

LEMMA PageTwo ==
  ASSUME page \in [Pages -> PageStates], NEW p \in Pages, NEW j \in Jobs \cup {NoJob}, NEW e \in Marks
  PROVE  HasJob(JobEntries(p, j, e), p, j)
<1> DEFINE r == [page[p] EXCEPT !.job = j, !.entries = e]
<1>1. r \in PageStates /\ r.job = j /\ Named(r) = Named(page[p]) /\ r.open = page[p].open
  BY DEF PageStates, Named
<1>2. JobEntries(p, j, e) = [page EXCEPT ![p] = r]
  BY DEF JobEntries
<1> HIDE DEF r
<1> QED BY <1>1, <1>2 DEF HasJob

LEMMA PageThree ==
  ASSUME page \in [Pages -> PageStates], NEW p \in Pages, NEW j \in Jobs \cup {NoJob}, NEW e \in Marks,
         NEW b \in BOOLEAN
  PROVE  HasJob(JobEntriesPass(p, j, e, b), p, j)
<1> DEFINE r == [page[p] EXCEPT !.job = j, !.entries = e, !.inFlight = b, !.passChain = NoChain]
<1>1. r \in PageStates /\ r.job = j /\ Named(r) \subseteq Named(page[p]) \cup {NoChain} /\ r.open = page[p].open
  BY DEF PageStates, Named
<1>2. JobEntriesPass(p, j, e, b) = [page EXCEPT ![p] = r]
  BY DEF JobEntriesPass
<1> HIDE DEF r
<1> QED BY <1>1, <1>2 DEF HasJob

(* Nobody has a job but the page that holds the lock. *)
LEMMA OthersIdle ==
  ASSUME Placed, NEW p \in Pages, Working(p) \/ lock = NoPage \/ lock = p
  PROVE  \A q \in Pages \ {p} : page[q].job = NoJob
<1>1. \A q \in Pages : page[q].job # NoJob => lock = q
  BY DEF Placed, JobPlaced
<1> QED BY <1>1, WalletAssumption DEF Working

\* What the job of the only page at work is to the others.
JobTx(j) == IF j # NoJob /\ j.kind # "flush" THEN {j.tx} ELSE {}
JobUnheard(j) == IF j # NoJob /\ j.pc = "taken" THEN {Sends(j)} ELSE {}
JobStranded(j) == IF j # NoJob THEN j.stranded ELSE {}

LEMMA SetsBefore ==
  ASSUME NEW p \in Pages, \A q \in Pages \ {p} : page[q].job = NoJob
  PROVE  /\ Flown = JobTx(page[p].job) /\ Unheard = JobUnheard(page[p].job)
         /\ Stranded = JobStranded(page[p].job)
<1>1. \A q \in Pages : Working(q) => q = p
  BY DEF Working
<1>2. Flown = JobTx(page[p].job)
  BY <1>1 DEF Flown, JobTx, Working
<1>3. Unheard = JobUnheard(page[p].job)
  BY <1>1 DEF Unheard, JobUnheard, Working
<1>4. Stranded = JobStranded(page[p].job)
  BY <1>1 DEF Stranded, JobStranded, Working
<1> QED BY <1>2, <1>3, <1>4

LEMMA SetsAfter ==
  ASSUME NEW p \in Pages, NEW j, Turned(p, j)
  PROVE  /\ Flown' = JobTx(j) /\ Unheard' = JobUnheard(j) /\ Stranded' = JobStranded(j)
         /\ \A q \in Pages : Working(q)' => q = p /\ page'[q].job = j
<1>1. \A q \in Pages : Working(q)' => q = p
  BY DEF Working, Turned
<1>2. page'[p].job = j
  BY DEF Turned
<1>3. Flown' = JobTx(j)
  BY <1>1, <1>2 DEF Flown, JobTx, Working
<1>4. Unheard' = JobUnheard(j)
  BY <1>1, <1>2 DEF Unheard, JobUnheard, Working
<1>5. Stranded' = JobStranded(j)
  BY <1>1, <1>2 DEF Stranded, JobStranded, Working
<1> QED BY <1>1, <1>2, <1>3, <1>4, <1>5

(* A turn keeps everybody placed when it places the page. *)
LEMMA TurnPlaced ==
  ASSUME NEW p \in Pages, NEW j, Turned(p, j), Ordered(store.writes)',
         (Waiting \cup Taken \cup ended \subseteq 1 .. Len(txs))', JobPlaced(p)'
  PROVE  Placed'
<1>1. \A q \in Pages \ {p} : page'[q].job = NoJob
  BY DEF Turned
<1>2. \A q \in Pages : JobPlaced(q)'
  BY <1>1 DEF JobPlaced
<1> QED BY <1>2 DEF Placed

(* A flow ends: its job goes and the lock with it. *)
LEMMA FinishTurns ==
  ASSUME Typed, Placed, NEW p \in Pages, Working(p), NEW s \in Stores, NEW e \in Marks, Finish(p, s, e)
  PROVE  /\ Turned(p, NoJob) /\ JobPlaced(p)'
         /\ store' \in Stores /\ store'.base = s.base /\ store'.writes = s.writes /\ store'.chain = s.chain
<1> DEFINE g == JobEntries(p, NoJob, e)
<1>1. page' = g /\ store' = Persisted(s, p, e) /\ lock' = NoPage
  BY DEF Finish, JobEntries
<1>2. page \in [Pages -> PageStates]
  BY DEF Typed
<1>3. HasJob(g, p, NoJob)
  <2>1. NoJob \in Jobs \cup {NoJob}
    OBVIOUS
  <2> QED BY <1>2, <2>1, PageTwo
<1> HIDE DEF g
<1>4. Turned(p, NoJob)
  BY <1>1, <1>3, OthersIdle DEF Turned, HasJob
<1>5. JobPlaced(p)'
  BY <1>1, <1>3 DEF JobPlaced, HasJob
<1> QED BY <1>1, <1>4, <1>5, PersistedIs

\* The job of a pass at its next send.
NextJob(j) ==
  [j EXCEPT !.pc = "send", !.todo = Rest(j), !.stranded = @ \cup ChangesOf(EndedOf(j))]

LEMMA NextJobIs ==
  ASSUME NEW j \in Jobs, Ordered(j.todo)
  PROVE  LET n == NextJob(j)
         IN  /\ n \in Jobs /\ n.kind = j.kind /\ n.pc = "send" /\ n.tx = j.tx /\ n.chain = j.chain
             /\ n.todo = Rest(j) /\ n.stranded = j.stranded \cup ChangesOf(EndedOf(j))
<1> DEFINE n == NextJob(j)
           r == Rest(j)
           c == ChangesOf(EndedOf(j))
<1>1. j.todo \in Seq(Writes) /\ j.stranded \subseteq Boxes
  BY DEF Jobs
<1>2. r \in Seq(Writes) /\ EndedOf(j) \subseteq TxsOf(j.todo)
  BY <1>1, RestIs
<1>3. c \subseteq Boxes
  <2>1. \A t \in EndedOf(j) : t \in Nat
    BY <1>1, <1>2, TxsOfIs, WalletAssumption DEF TxIds
  <2>2. \A t \in EndedOf(j) : Changes(t) \subseteq Boxes
    BY <2>1, ChangeType
  <2> QED BY <2>2 DEF ChangesOf
<1>4. n = [j EXCEPT !.pc = "send", !.todo = r, !.stranded = j.stranded \cup c]
  BY DEF NextJob, Jobs
<1> DEFINE x == j.stranded \cup c
<1>5. x \subseteq Boxes
  BY <1>1, <1>3
<1> HIDE DEF x, r, c, n
<1>6. n = [j EXCEPT !.pc = "send", !.todo = r, !.stranded = x]
  BY <1>4 DEF x
<1>7. n \in Jobs /\ n.kind = j.kind /\ n.pc = "send" /\ n.tx = j.tx /\ n.chain = j.chain
      /\ n.todo = r /\ n.stranded = x
  BY <1>2, <1>5, <1>6 DEF Jobs
<1> QED BY <1>7 DEF n, r, c, x

(* A pass goes on, or it is over. *)
LEMMA GoOnTurns ==
  ASSUME Typed, Placed, NEW p \in Pages, Working(p) \/ lock = NoPage, page[p].open,
         NEW s \in Stores, NEW e \in Marks, NEW j \in Jobs, NEW T, GoOn(p, s, e, j, T),
         j.kind = "flush", Ordered(s.writes), Ordered(j.todo),
         j.todo = <<>> \/ Range(j.todo) = Range(s.writes)
  PROVE  /\ store' \in Stores /\ store'.base = s.base /\ store'.chain = s.chain
         /\ Ordered(store'.writes) /\ TxsOf(store'.writes) = TxsOf(s.writes) \ EndedOf(j)
         /\ Range(store'.writes) = {w \in Range(s.writes) : w.tx \notin EndedOf(j)}
         /\ EndedOf(j) \subseteq TxsOf(j.todo) /\ EndedOf(j) \subseteq TxsOf(s.writes)
         /\ ended' = ended \cup T \cup EndedOf(j)
         /\ Rest(j) = <<>> => Turned(p, NoJob)
         /\ Rest(j) # <<>> => Turned(p, NextJob(j))
         /\ JobPlaced(p)'
<1> DEFINE gone == EndedOf(j)
           kept == Drop(s, gone)
           shown == [t \in TxIds |-> IF t \in gone THEN "none" ELSE e[t]]
           rest == Rest(j)
           left == IF rest = <<>> THEN OrphansReleased(kept, shown, page[p].tip) ELSE shown
           n == NextJob(j)
           job == IF rest = <<>> THEN NoJob ELSE n
           b == rest # <<>>
           g == JobEntriesPass(p, job, left, b)
<1>1. /\ page' = [page EXCEPT ![p].job = IF rest = <<>> THEN NoJob ELSE n,
                              ![p].entries = left, ![p].inFlight = ~(rest = <<>>),
                              ![p].passChain = NoChain]
      /\ store' = Persisted(kept, p, left)
      /\ lock' = IF rest = <<>> THEN NoPage ELSE p
      /\ ended' = ended \cup T \cup gone
  BY DEF GoOn, Rest, NextJob, ChangesOf
<1>2. j.todo \in Seq(Writes) /\ page \in [Pages -> PageStates]
  BY DEF Jobs, Typed
<1>3. n \in Jobs /\ n.kind = "flush" /\ n.pc = "send" /\ n.todo = rest
  BY NextJobIs
<1>4. shown \in Marks
  BY MarksKept
<1>5. left \in Marks
  <2> HIDE DEF shown
  <2> QED BY <1>4, MarksKept
<1>6. /\ kept \in Stores /\ kept.base = s.base /\ kept.chain = s.chain
      /\ Range(kept.writes) = {w \in Range(s.writes) : w.tx \notin gone}
      /\ TxsOf(kept.writes) = TxsOf(s.writes) \ gone
      /\ Ordered(kept.writes)
  BY DropIs
<1>7. rest \in Seq(Writes) /\ Ordered(rest) /\ gone \subseteq TxsOf(j.todo)
      /\ Range(rest) = {w \in Range(j.todo) : w.tx \notin gone}
  BY <1>2, RestIs
<1> HIDE DEF gone, kept, shown, rest, left, n
<1>8. job \in Jobs \cup {NoJob} /\ b \in BOOLEAN
  BY <1>3
<1>9. page' = g
  BY <1>1 DEF JobEntriesPass
<1> HIDE DEF job, b
<1>10. HasJob(g, p, job)
  BY <1>2, <1>5, <1>8, PageThree
<1> HIDE DEF g
<1>11. \A q \in Pages \ {p} : page[q].job = NoJob
  BY OthersIdle
<1>12. Turned(p, job)
  BY <1>1, <1>9, <1>10, <1>11 DEF Turned, job, HasJob
<1>13. /\ store' \in Stores /\ store'.base = s.base /\ store'.chain = s.chain
       /\ store'.writes = kept.writes
  BY <1>1, <1>5, <1>6, PersistedIs
<1>14. gone \subseteq TxsOf(s.writes)
  <2>1. CASE j.todo = <<>>
    BY <1>7, <2>1 DEF TxsOf
  <2>2. CASE Range(j.todo) = Range(s.writes)
    <3>1. TxsOf(j.todo) = {w.tx : w \in Range(j.todo)}
      BY <1>2, TxsOfIs
    <3>2. TxsOf(s.writes) = {w.tx : w \in Range(s.writes)}
      BY StoreFields, TxsOfIs
    <3> QED BY <1>7, <2>2, <3>1, <3>2
  <2> QED BY <2>1, <2>2
<1>15. JobPlaced(p)'
  <2>1. CASE rest = <<>>
    BY <1>9, <1>10, <2>1 DEF JobPlaced, job, HasJob
  <2>2. CASE rest # <<>>
    <3>1. page'[p].job = n /\ lock' = p /\ page'[p].open
      BY <1>1, <1>9, <1>10, <2>2 DEF job, HasJob
    <3>2. j.todo # <<>>
      <4>1. SUFFICES ASSUME j.todo = <<>> PROVE FALSE
        OBVIOUS
      <4>2. Range(rest) = {}
        BY <1>7, <4>1 DEF Range
      <4> QED BY <1>7, <2>2, <4>2 DEF Range
    <3>3. Range(rest) = Range(store'.writes)
      BY <1>6, <1>7, <1>13, <3>2
    <3>4. PassPlaced(page[p].job)'
      BY <1>3, <1>7, <2>2, <3>1, <3>3 DEF PassPlaced
    <3> QED BY <1>3, <3>1, <3>4 DEF JobPlaced
  <2> QED BY <2>1, <2>2
<1>16. ended' = ended \cup T \cup gone
  BY <1>1
<1>17. rest = <<>> => Turned(p, NoJob)
  BY <1>12 DEF job
<1>18. rest # <<>> => Turned(p, n)
  BY <1>12 DEF job
<1> QED BY <1>6, <1>7, <1>13, <1>14, <1>15, <1>16, <1>17, <1>18 DEF gone, rest, n

-----------------------------------------------------------------------------
(* Calm over a turn that neither builds a transaction nor reaches the node. *)

LEMMA SameNode ==
  ASSUME txs' = txs, node' = node
  PROVE  (\A t : Spent(t)' = Spent(t)) /\ Taken' = Taken /\ NodeView' = NodeView
<1>1. \A t : Spent(t)' = Spent(t)
  BY DEF Spent
<1>2. Taken' = Taken
  BY DEF Taken
<1>3. NodeView' = NodeView
  BY <1>1, <1>2 DEF NodeView
<1> QED BY <1>1, <1>2, <1>3

(* What was alive and still is keeps its boxes to itself and to be had. *)
LEMMA AliveKept ==
  ASSUME Numbered, Disjoint, Fresh, Available, txs' = txs, node' = node,
         (Waiting \cup Flown)' \subseteq Waiting \cup Flown,
         (Waiting \cup Flown)' # {} =>
           \A u \in Waiting : u \notin Waiting' => Changes(u) \subseteq NodeView \cup Stranded',
         \A t \in (Waiting \cup Flown)' : t \notin Taken => Spent(t) \cap Stranded \subseteq Stranded'
  PROVE  (Numbered /\ Disjoint /\ Fresh /\ Available)'
<1>1. (\A t : Spent(t)' = Spent(t)) /\ Taken' = Taken /\ NodeView' = NodeView
  BY SameNode
<1>2. Numbered'
  BY <1>1 DEF Numbered
<1>3. Disjoint'
  BY <1>1 DEF Disjoint, Live
<1>4. Fresh'
  BY <1>1 DEF Fresh
<1>5. Available'
  <2> SUFFICES ASSUME NEW t \in (Waiting \cup Flown)', t \notin Taken, NEW b \in Spent(t)
               PROVE  b \in NodeView \cup ChangesOf(Waiting)' \cup Stranded'
    BY <1>1 DEF Available
  <2>1. b \in NodeView \cup ChangesOf(Waiting) \cup Stranded
    BY DEF Available
  <2>2. CASE b \in Stranded
    BY <2>2
  <2>3. CASE b \in ChangesOf(Waiting)
    <3>1. PICK u \in Waiting : b \in Changes(u)
      BY <2>3 DEF ChangesOf
    <3>2. CASE u \in Waiting'
      BY <3>1, <3>2 DEF ChangesOf
    <3>3. CASE u \notin Waiting'
      BY <3>1, <3>3
    <3> QED BY <3>2, <3>3
  <2> QED BY <2>1, <2>2, <2>3
<1> QED BY <1>2, <1>3, <1>4, <1>5

(* The base is sound while nothing of it changes. *)
LEMMA BaseKept ==
  ASSUME BaseSound, txs' = txs, node' = node, store'.base = store.base, Unheard' = Unheard
  PROVE  BaseSound'
<1>1. (\A t : Spent(t)' = Spent(t)) /\ NodeView' = NodeView
  BY SameNode
<1>2. ChangesOf(Unheard)' = ChangesOf(Unheard)
  BY DEF ChangesOf
<1>3. UNION {Spent(t) : t \in Unheard}' = UNION {Spent(t) : t \in Unheard}
  BY <1>1
<1> QED BY <1>1, <1>2, <1>3 DEF BaseSound

(* The base advanced by the one whose answer came is the node's view. *)
LEMMA BaseCaughtUp ==
  ASSUME BaseSound, Typed, OneChain, txs' = txs, node' = node, NEW t \in TxIds, Unheard = {t}, Unheard' = {},
         store'.base = AbsorbSent(store, t, 1).base
  PROVE  BaseSound' /\ (store'.base # NoBase => store'.base.chain = 1)
<1>1. (\A u : Spent(u)' = Spent(u)) /\ NodeView' = NodeView
  BY SameNode
<1>2. store \in Stores
  BY DEF Typed
<1>3. CASE store.base = NoBase
  <2>1. ReadBase(store, 1) = NoBase
    BY <1>3 DEF ReadBase
  <2>2. AbsorbSent(store, t, 1) = store
    BY <1>2, <2>1, AbsorbSentIs
  <2> QED BY <1>3, <2>2 DEF BaseSound
<1>4. CASE store.base # NoBase
  <2> DEFINE x == store.base.spendable
             y == store'.base.spendable
  <2>1. store.base.chain = 1 /\ ReadBase(store, 1) # NoBase
    BY <1>4 DEF OneChain, ReadBase
  <2>2. store.base \in Bases /\ store'.base.chain = 1 /\ y = ApplyToSpendable(x, t)
    BY <1>2, <2>1, AbsorbSentIs
  <2>3. x \in Seq(Boxes)
    BY <2>2 DEF Bases
  <2>4. /\ IsInjective(x) /\ Change(t) \notin Range(x)
        /\ NodeView = (Range(x) \ Spent(t)) \cup Changes(t)
    BY <1>4 DEF BaseSound, ChangesOf
  <2> HIDE DEF x, y
  <2>5. IsInjective(y) /\ Range(y) = NodeView
    BY <2>2, <2>3, <2>4, ApplyIs
  <2>6. UNION {Spent(u) : u \in Unheard}' = {} /\ ChangesOf(Unheard)' = {}
    BY DEF ChangesOf
  <2>7. BaseSound'
    BY <1>1, <2>5, <2>6 DEF BaseSound, y
  <2> QED BY <2>2, <2>7
<1> QED BY <1>3, <1>4

LEMMA OneChainKept ==
  ASSUME OneChain, NEW p \in Pages, NEW j, Turned(p, j), node'.chain = node.chain,
         store' \in Stores, store'.chain = store.chain,
         store'.base # NoBase => store'.base.chain = 1,
         \A w \in Range(store'.writes) : w.chain = 1,
         j # NoJob /\ j.kind = "flush" => j.chain = 1
  PROVE  OneChain'
<1>1. \A i \in DOMAIN store'.writes : store'.writes[i].chain = 1
  BY DEF Range
<1>2. \A q \in Pages : Named(page'[q]) \subseteq {1, NoChain}
  BY DEF OneChain, Turned
<1>3. \A q \in Pages : Working(q)' => page'[q].job = j
  BY SetsAfter
<1>4. \A q \in Pages : Working(q)' /\ page'[q].job.kind = "flush" => page'[q].job.chain = 1
  BY <1>3 DEF Working
<1> QED BY <1>1, <1>2, <1>4 DEF OneChain

(* Calm is kept by a turn that loses no stranded box, drops no write whose
   change is wanted, ends nothing alive and leaves the job in order. *)
LEMMA CalmTurn ==
  ASSUME Placed, Calm, NEW p \in Pages, NEW j, Turned(p, j), txs' = txs, node' = node,
         store' \in Stores, store'.chain = store.chain,
         \A w \in Range(store'.writes) : w.chain = 1,
         j # NoJob /\ j.kind = "flush" => j.chain = 1,
         Waiting' \cup JobTx(j) \subseteq Waiting \cup JobTx(page[p].job),
         Waiting' \cup JobTx(j) # {} =>
           \A u \in Waiting : u \notin Waiting' => Changes(u) \subseteq NodeView \cup JobStranded(j),
         \A t \in Waiting' \cup JobTx(j) : t \notin Taken =>
           Spent(t) \cap JobStranded(page[p].job) \subseteq JobStranded(j),
         (Waiting' \cup JobTx(j)) \cap Taken \subseteq JobUnheard(j), JobUnheard(j) \subseteq Taken,
         ended' \cap (Waiting' \cup Taken \cup JobTx(j)) = {},
         BaseSound' /\ (store'.base # NoBase => store'.base.chain = 1),
         j # NoJob => Orderly(j)'
  PROVE  Calm'
<1>1. Flown' = JobTx(j) /\ Unheard' = JobUnheard(j) /\ Stranded' = JobStranded(j)
      /\ \A q \in Pages : Working(q)' => page'[q].job = j
  BY SetsAfter
<1>2. Flown = JobTx(page[p].job) /\ Stranded = JobStranded(page[p].job)
  BY SetsBefore DEF Turned
<1>3. OneChain'
  BY OneChainKept DEF Calm
<1>4. (Numbered /\ Disjoint /\ Fresh /\ Available)'
  BY <1>1, <1>2, AliveKept DEF Calm
<1>5. Taken' = Taken
  BY SameNode
<1>6. Apart'
  BY <1>1, <1>5 DEF Apart, Live
<1>7. \A q \in Pages : Working(q)' => Orderly(page[q].job)'
  <2> TAKE q \in Pages
  <2> HAVE Working(q)'
  <2>1. page'[q].job = j
    BY <1>1
  <2>2. j # NoJob
    BY <2>1 DEF Working
  <2> QED BY <2>1, <2>2 DEF Orderly
<1> QED BY <1>3, <1>4, <1>6, <1>7 DEF Calm

(* Nothing of it all changes: a page reads, a block comes. *)
LEMMA CalmStill ==
  ASSUME Calm, txs' = txs, Taken' = Taken, node'.chain = node.chain,
         store'.chain = store.chain, store'.base = store.base, store'.writes = store.writes,
         ended' = ended,
         \A q \in Pages : page'[q].job = page[q].job /\ Named(page'[q]) \subseteq Named(page[q]) \cup {1, NoChain}
  PROVE  Calm'
<1>1. \A t : Spent(t)' = Spent(t)
  BY DEF Spent
<1>2. NodeView' = NodeView
  BY <1>1 DEF NodeView
<1>3. Flown' = Flown /\ Unheard' = Unheard /\ Stranded' = Stranded /\ Waiting' = Waiting
  BY DEF Flown, Unheard, Stranded, Waiting, Working
<1>4. OneChain'
  BY DEF Calm, OneChain, Working
<1>5. Numbered' /\ Disjoint' /\ Fresh' /\ Available' /\ Apart'
  BY <1>1, <1>2, <1>3 DEF Calm, Numbered, Disjoint, Fresh, Available, Apart, Live
<1>6. BaseSound'
  <2>1. UNION {Spent(t) : t \in Unheard}' = UNION {Spent(t) : t \in Unheard}
    BY <1>1, <1>3
  <2> QED BY <1>2, <1>3, <2>1 DEF Calm, BaseSound, ChangesOf
<1>7. \A q \in Pages : Working(q)' => Orderly(page[q].job)'
  BY <1>1, <1>3 DEF Calm, Working, Orderly
<1> QED BY <1>4, <1>5, <1>6, <1>7 DEF Calm

-----------------------------------------------------------------------------
(* The steps that move no job. *)

LEMMA StillKeeps ==
  ASSUME IInv, Typed', txs' = txs, Taken' = Taken, node'.chain = node.chain, lock' = lock,
         ended' = ended, clean' = clean, store'.base = store.base, store'.writes = store.writes,
         \A q \in Pages : page'[q].job = page[q].job /\ (page[q].open => page'[q].open),
         Calm => store'.chain = store.chain
                 /\ \A q \in Pages : Named(page'[q]) \subseteq Named(page[q]) \cup {1, NoChain}
  PROVE  IInv'
<1>1. Waiting' = Waiting
  BY DEF Waiting
<1>2. \A q \in Pages : JobPlaced(q)'
  BY <1>1 DEF IInv, Placed, JobPlaced, PassPlaced, FlowPlaced
<1>3. Placed'
  BY <1>1, <1>2 DEF IInv, Placed
<1>4. clean' => Calm'
  BY CalmStill DEF IInv
<1> QED BY <1>3, <1>4 DEF IInv

(* One page's own fields. *)
LEMMA PageFields ==
  ASSUME page \in [Pages -> PageStates], NEW p \in Pages, NEW r \in PageStates,
         page' = [page EXCEPT ![p] = r], r.job = page[p].job /\ r.open = page[p].open
  PROVE  /\ page' \in [Pages -> PageStates]
         /\ \A q \in Pages : page'[q].job = page[q].job /\ (page[q].open => page'[q].open)
         /\ page'[p] = r /\ \A q \in Pages \ {p} : page'[q] = page[q]
  OBVIOUS

LEMMA TriggeredIs ==
  ASSUME NEW r \in PageStates
  PROVE  Triggered(r) \in PageStates /\ Triggered(r).job = r.job /\ Triggered(r).open = r.open /\ Named(Triggered(r)) = Named(r)
         /\ Triggered(r).entries = r.entries
<1> DEFINE b == r.inFlight \/ (r.tipChain # NoChain /\ store.writes # <<>>)
<1>1. b \in BOOLEAN
  BY DEF PageStates
<1>2. Triggered(r) = [r EXCEPT !.inFlight = b]
  BY DEF Triggered
<1> HIDE DEF b
<1> QED BY <1>1, <1>2 DEF PageStates, Named

LEMMA CornerTickKeeps ==
  ASSUME IInv, NEW p \in Pages, CornerTick(p)
  PROVE  IInv'
<1> DEFINE e == OrphansReleased(store, page[p].entries, TRUE)
           r == [Triggered(page[p]) EXCEPT !.tip = TRUE, !.entries = e]
<1>1. Typed /\ page \in [Pages -> PageStates] /\ page[p] \in PageStates /\ store \in Stores
  BY DEF IInv, Typed
<1>2. e \in Marks
  <2>1. page[p].entries \in Marks
    BY <1>1 DEF PageStates
  <2> QED BY <2>1, MarksKept
<1>3. page' = [page EXCEPT ![p] = r] /\ store' = Persisted(store, p, e)
      /\ UNCHANGED <<lock, node, txs, ended, clean, used>>
  BY <1>1 DEF CornerTick
<1> HIDE DEF e
<1>4. r \in PageStates /\ r.job = page[p].job /\ r.open = page[p].open /\ Named(r) = Named(page[p])
  <2> DEFINE t == Triggered(page[p])
  <2>1. t \in PageStates /\ t.job = page[p].job /\ t.open = page[p].open /\ Named(t) = Named(page[p])
    BY <1>1, TriggeredIs
  <2> HIDE DEF t
  <2>2. [t EXCEPT !.tip = TRUE, !.entries = e] \in PageStates
        /\ [t EXCEPT !.tip = TRUE, !.entries = e].job = t.job
        /\ [t EXCEPT !.tip = TRUE, !.entries = e].open = t.open
        /\ Named([t EXCEPT !.tip = TRUE, !.entries = e]) = Named(t)
    BY <1>2, <2>1 DEF PageStates, Named
  <2> QED BY <2>1, <2>2 DEF t
<1> HIDE DEF r
<1>5. /\ page' \in [Pages -> PageStates] /\ \A q \in Pages : page'[q].job = page[q].job /\ (page[q].open => page'[q].open)
      /\ page'[p] = r /\ \A q \in Pages \ {p} : page'[q] = page[q]
  BY <1>1, <1>3, <1>4, PageFields
<1>6. store' \in Stores /\ store'.base = store.base /\ store'.writes = store.writes
      /\ store'.chain = store.chain
  BY <1>1, <1>2, <1>3, PersistedIs
<1>7. Typed'
  BY <1>1, <1>3, <1>5, <1>6 DEF Typed
<1>8. \A q \in Pages : Named(page'[q]) \subseteq Named(page[q]) \cup {1, NoChain}
  BY <1>4, <1>5
<1>9. Taken' = Taken
  BY <1>3 DEF Taken
<1> QED BY <1>3, <1>5, <1>6, <1>7, <1>8, <1>9, StillKeeps

LEMMA LoadFeedKeeps ==
  ASSUME IInv, NEW p \in Pages, LoadFeed(p)
  PROVE  IInv'
<1> DEFINE r == Triggered(page[p])
<1>1. Typed /\ page \in [Pages -> PageStates] /\ page[p] \in PageStates
  BY DEF IInv, Typed
<1>2. page' = [page EXCEPT ![p] = r] /\ UNCHANGED <<store, lock, node, txs, ended, clean, used>>
  BY <1>1 DEF LoadFeed
<1>3. r \in PageStates /\ r.job = page[p].job /\ r.open = page[p].open /\ Named(r) = Named(page[p])
  BY <1>1, TriggeredIs
<1> HIDE DEF r
<1>4. /\ page' \in [Pages -> PageStates] /\ \A q \in Pages : page'[q].job = page[q].job /\ (page[q].open => page'[q].open)
      /\ page'[p] = r /\ \A q \in Pages \ {p} : page'[q] = page[q]
  BY <1>1, <1>2, <1>3, PageFields
<1>5. Typed'
  BY <1>1, <1>2, <1>4 DEF Typed
<1>6. \A q \in Pages : Named(page'[q]) \subseteq Named(page[q]) \cup {1, NoChain}
  BY <1>3, <1>4
<1>7. Taken' = Taken
  BY <1>2 DEF Taken
<1> QED BY <1>2, <1>4, <1>5, <1>6, <1>7, StillKeeps

LEMMA VerifiedTipKeeps ==
  ASSUME IInv, NEW p \in Pages, VerifiedTip(p)
  PROVE  IInv'
<1>1. Typed /\ page \in [Pages -> PageStates] /\ page[p] \in PageStates /\ store \in Stores
      /\ node.chain \in Chains /\ used \in Nat
  BY DEF IInv, Typed, NodeStates
<1>2. PICK k \in {node.chain, NoChain} :
        LET named == [page[p] EXCEPT !.tipChain = k]
        IN  /\ used' = used + (IF k = NoChain THEN 1 ELSE 0)
            /\ page' = [page EXCEPT ![p] = IF k = NoChain THEN named ELSE Triggered(named)]
            /\ store' = IF k = NoChain THEN store ELSE [store EXCEPT !.chain = k]
            /\ UNCHANGED <<lock, node, txs, ended, clean>>
  BY DEF VerifiedTip
<1> DEFINE named == [page[p] EXCEPT !.tipChain = k]
           r == IF k = NoChain THEN named ELSE Triggered(named)
<1>3. named \in PageStates /\ named.job = page[p].job /\ named.open = page[p].open /\ Named(named) \subseteq Named(page[p]) \cup {k}
  BY <1>1 DEF PageStates, Named
<1>4. page' = [page EXCEPT ![p] = r] /\ UNCHANGED <<lock, node, txs, ended, clean>>
      /\ used' \in Nat
  BY <1>1, <1>2
<1> HIDE DEF named
<1>5. r \in PageStates /\ r.job = page[p].job /\ r.open = page[p].open /\ Named(r) \subseteq Named(page[p]) \cup {k}
  BY <1>3, TriggeredIs
<1> HIDE DEF r
<1>6. /\ page' \in [Pages -> PageStates] /\ \A q \in Pages : page'[q].job = page[q].job /\ (page[q].open => page'[q].open)
      /\ page'[p] = r /\ \A q \in Pages \ {p} : page'[q] = page[q]
  BY <1>1, <1>4, <1>5, PageFields
<1>7. store' \in Stores /\ store'.base = store.base /\ store'.writes = store.writes
      /\ (k = NoChain => store'.chain = store.chain) /\ (k # NoChain => store'.chain = k)
  <2>1. CASE k = NoChain
    BY <1>1, <1>2, <2>1
  <2>2. CASE k # NoChain
    <3>1. store' = [store EXCEPT !.chain = k] /\ k \in Chains
      BY <1>1, <1>2, <2>2
    <3> QED BY <1>1, <2>2, <3>1 DEF Stores
  <2> QED BY <2>1, <2>2
<1>8. Typed'
  BY <1>1, <1>4, <1>6, <1>7 DEF Typed
<1>9. ASSUME Calm
      PROVE  store'.chain = store.chain
             /\ \A q \in Pages : Named(page'[q]) \subseteq Named(page[q]) \cup {1, NoChain}
  <2>1. k \in {1, NoChain} /\ store.chain = 1
    BY <1>9 DEF Calm, OneChain
  <2> QED BY <1>5, <1>6, <1>7, <2>1
<1>10. Taken' = Taken
  BY <1>4 DEF Taken
<1> QED BY <1>4, <1>6, <1>7, <1>8, <1>9, <1>10, StillKeeps

LEMMA ReconcileKeeps ==
  ASSUME IInv, NEW p \in Pages, Reconcile(p)
  PROVE  IInv'
<1>1. Typed /\ page \in [Pages -> PageStates] /\ page[p] \in PageStates /\ store \in Stores
  BY DEF IInv, Typed
<1>2. PICK t \in TxIds :
        /\ page' = [page EXCEPT ![p].entries = [page[p].entries EXCEPT ![t] = "none"]]
        /\ store' = Persisted(store, p, [page[p].entries EXCEPT ![t] = "none"])
        /\ UNCHANGED <<lock, node, txs, ended, clean, used>>
  BY DEF Reconcile
<1> DEFINE e == [page[p].entries EXCEPT ![t] = "none"]
           r == [page[p] EXCEPT !.entries = e]
<1>3. e \in Marks
  <2>1. page[p].entries \in Marks
    BY <1>1 DEF PageStates
  <2> QED BY <2>1, MarksKept
<1>4. page' = [page EXCEPT ![p] = r] /\ store' = Persisted(store, p, e)
      /\ UNCHANGED <<lock, node, txs, ended, clean, used>>
  BY <1>2
<1> HIDE DEF e
<1>5. r \in PageStates /\ r.job = page[p].job /\ r.open = page[p].open /\ Named(r) = Named(page[p])
  BY <1>1, <1>3 DEF PageStates, Named
<1> HIDE DEF r
<1>6. /\ page' \in [Pages -> PageStates] /\ \A q \in Pages : page'[q].job = page[q].job /\ (page[q].open => page'[q].open)
      /\ page'[p] = r /\ \A q \in Pages \ {p} : page'[q] = page[q]
  BY <1>1, <1>4, <1>5, PageFields
<1>7. store' \in Stores /\ store'.base = store.base /\ store'.writes = store.writes
      /\ store'.chain = store.chain
  BY <1>1, <1>3, <1>4, PersistedIs
<1>8. Typed'
  BY <1>1, <1>4, <1>6, <1>7 DEF Typed
<1>9. \A q \in Pages : Named(page'[q]) \subseteq Named(page[q]) \cup {1, NoChain}
  BY <1>5, <1>6
<1>10. Taken' = Taken
  BY <1>4 DEF Taken
<1> QED BY <1>4, <1>6, <1>7, <1>8, <1>9, <1>10, StillKeeps

LEMMA ClosedIs ==
  Closed \in PageStates /\ Closed.job = NoJob /\ Named(Closed) = {NoChain}
  BY DEF Closed, PageStates, Named, Marks

LEMMA BlockTakesKeeps ==
  ASSUME IInv, NEW t \in DOMAIN txs, BlockTakes(t)
  PROVE  IInv'
<1> DEFINE n == [node EXCEPT !.pool = node.pool \ {t}, !.confirmed = node.confirmed \cup {t}]
<1>1. Typed /\ node \in NodeStates /\ t \in node.pool
  BY DEF IInv, Typed, BlockTakes
<1>2. node' = n /\ UNCHANGED <<store, page, lock, txs, ended, clean, used>>
  BY <1>1 DEF BlockTakes, NodeStates
<1>3. n \in NodeStates /\ n.chain = node.chain /\ n.pool = node.pool \ {t}
      /\ n.confirmed = node.confirmed \cup {t}
  BY <1>1 DEF NodeStates
<1> HIDE DEF n
<1>4. Typed'
  BY <1>1, <1>2, <1>3 DEF Typed
<1>5. Taken' = Taken
  BY <1>1, <1>2, <1>3 DEF Taken
<1> QED BY <1>2, <1>3, <1>4, <1>5, StillKeeps

LEMMA StutterKeeps ==
  ASSUME IInv, UNCHANGED vars
  PROVE  IInv'
<1>1. UNCHANGED <<store, page, lock, node, txs, ended, clean, used>>
  BY DEF vars
<1>2. Typed' /\ Taken' = Taken
  BY <1>1 DEF IInv, Typed, Taken
<1> QED BY <1>1, <1>2, StillKeeps

-----------------------------------------------------------------------------
(* A press. *)

LEMMA NobodyAtWork ==
  ASSUME Placed, lock = NoPage
  PROVE  (\A q \in Pages : page[q].job = NoJob) /\ Flown = {} /\ Unheard = {} /\ Stranded = {}
<1>1. \A q \in Pages : page[q].job = NoJob
  BY WalletAssumption DEF Placed, JobPlaced
<1> QED BY <1>1 DEF Flown, Unheard, Stranded, Working

\* The last transaction is n, its inputs among the boxes; the others are as before.
LastBuilt(n, boxes) ==
  /\ n = Len(txs) + 1 /\ n \in TxIds
  /\ txs' \in Seq(Seq(Boxes)) /\ Len(txs') = n /\ \A u \in 1 .. Len(txs) : txs'[u] = txs[u]
  /\ Range(txs'[n]) \subseteq Range(boxes)
  /\ IsInjective(boxes) => IsInjective(txs'[n])

LEMMA BuildsIs ==
  ASSUME Typed, Placed, NEW p \in Pages, Free(p), NEW kind \in {"press", "burn"}, NEW waiting \in BOOLEAN,
         NEW boxes \in Seq(Boxes), Builds(p, kind, boxes, waiting)
  PROVE  LET n == Len(txs) + 1
             j == Press(kind, n, waiting)
         IN  LastBuilt(n, boxes) /\ j \in Jobs /\ Turned(p, j) /\ page' \in [Pages -> PageStates]
<1> DEFINE n == Len(txs) + 1
           j == Press(kind, n, waiting)
<1>1. txs \in Seq(Seq(Boxes)) /\ Len(txs) \in Nat /\ Len(txs) < MaxTxs /\ page \in [Pages -> PageStates]
  BY DEF Typed, Builds
<1>2. n \in TxIds
  BY <1>1, WalletAssumption DEF TxIds
<1>15. PICK m \in 1 .. MaxInputs : \E at \in [1 .. m -> DOMAIN boxes] :
        /\ \A i, k \in 1 .. m : i < k => at[i] < at[k]
        /\ txs' = Append(txs, [i \in 1 .. m |-> boxes[at[i]]])
  BY DEF Builds
<1>3. PICK at \in [1 .. m -> DOMAIN boxes] :
        /\ \A i, k \in 1 .. m : i < k => at[i] < at[k]
        /\ txs' = Append(txs, [i \in 1 .. m |-> boxes[at[i]]])
  BY <1>15
<1> DEFINE x == [i \in 1 .. m |-> boxes[at[i]]]
<1>4. x \in Seq(Boxes) /\ DOMAIN x = 1 .. m /\ \A i \in 1 .. m : at[i] \in DOMAIN boxes /\ x[i] = boxes[at[i]]
  <2>1. m \in Nat
    BY WalletAssumption
  <2>2. \A i \in 1 .. m : at[i] \in DOMAIN boxes /\ boxes[at[i]] \in Boxes
    OBVIOUS
  <2> QED BY <2>1, <2>2
<1>5. txs' = Append(txs, x)
  BY <1>3
<1> HIDE DEF x
<1>6. txs' \in Seq(Seq(Boxes)) /\ Len(txs') = n /\ (\A u \in 1 .. Len(txs) : txs'[u] = txs[u]) /\ txs'[n] = x
  BY <1>1, <1>4, <1>5
<1>7. Range(x) \subseteq Range(boxes)
  BY <1>4 DEF Range
<1>8. ASSUME IsInjective(boxes) PROVE IsInjective(x)
  <2> SUFFICES ASSUME NEW i \in 1 .. m, NEW k \in 1 .. m, x[i] = x[k] PROVE i = k
    BY <1>4 DEF IsInjective
  <2>1. at[i] = at[k]
    BY <1>4, <1>8 DEF IsInjective
  <2>2. at[i] \in Nat /\ at[k] \in Nat /\ m \in Nat
    BY <1>4, WalletAssumption
  <2>3. ~(at[i] < at[k]) /\ ~(at[k] < at[i])
    BY <2>1, <2>2
  <2>4. ~(i < k) /\ ~(k < i)
    BY <1>3, <2>3
  <2> QED BY <2>2, <2>4
<1>9. LastBuilt(n, boxes)
  BY <1>2, <1>6, <1>7, <1>8 DEF LastBuilt
<1>10. j \in Jobs
  BY <1>2 DEF Press, Jobs, TxIds
<1>11. HasJob(Job(p, j), p, j)
  <2> HIDE DEF j
  <2> QED BY <1>1, <1>10, PageOne
<1>12. page' = Job(p, j) /\ lock' = p
  BY DEF Builds, Job
<1>13. page[p].open /\ \A q \in Pages \ {p} : page[q].job = NoJob
  BY NobodyAtWork DEF Free, Idle
<1> HIDE DEF j
<1>14. Turned(p, j)
  BY <1>11, <1>12, <1>13 DEF Turned, HasJob
<1> QED BY <1>9, <1>10, <1>14 DEF j, n, Turned

LEMMA PressTypes ==
  ASSUME Typed, Placed, NEW p \in Pages, NEW boxes, LastBuilt(Len(txs) + 1, boxes),
         NEW j \in Jobs, j.kind # "flush", j.pc = "sign", j.tx = Len(txs) + 1, j.stranded = {},
         Turned(p, j), page[p].open,
         store' \in Stores, store'.writes = store.writes, node' = node, ended' = ended,
         clean' \in BOOLEAN, used' \in Nat
  PROVE  Typed' /\ Placed'
<1> DEFINE n == Len(txs) + 1
<1>1. n \in TxIds /\ txs' \in Seq(Seq(Boxes)) /\ Len(txs') = n /\ n <= MaxTxs /\ Len(txs) \in Nat
  BY WalletAssumption DEF LastBuilt, TxIds, Typed
<1>2. Typed'
  BY <1>1 DEF Typed, Turned
<1>3. Waiting' = Waiting /\ Taken' = Taken
  BY DEF Waiting, Taken
<1>4. Waiting \cup Taken \cup ended \subseteq 1 .. Len(txs)
  BY DEF Placed
<1> HIDE DEF n
<1>5. (Waiting \cup Taken \cup ended \subseteq 1 .. Len(txs))'
  <2>1. 1 .. Len(txs) \subseteq 1 .. n
    BY <1>1 DEF n
  <2> QED BY <1>1, <1>3, <1>4, <2>1
<1>6. n \notin Waiting /\ n \notin Taken /\ n \notin ended
  BY <1>1, <1>4 DEF n
<1>7. JobPlaced(p)'
  BY <1>1, <1>3, <1>6 DEF JobPlaced, FlowPlaced, Turned, n
<1>8. Ordered(store.writes)'
  BY DEF Placed
<1> QED BY <1>2, <1>5, <1>7, <1>8, TurnPlaced

(* In a calm wallet nobody uses, the view is what the node has and what waits
   makes, less what is spent. *)
LEMMA ViewCalm ==
  ASSUME Typed, Placed, Calm, lock = NoPage, NEW s \in Stores, s.writes = store.writes,
         s.base # NoBase, s.base.chain = 1, IsInjective(s.base.spendable), Range(s.base.spendable) = NodeView
  PROVE  /\ View(s, 1) \in Seq(Boxes) /\ IsInjective(View(s, 1))
         /\ Range(View(s, 1)) = (NodeView \cup ChangesOf(Waiting)) \ SpentOf(Waiting)
<1>1. ReadBase(s, 1) # NoBase
  BY DEF ReadBase
<1>2. \A i \in DOMAIN s.writes : s.writes[i].chain = 1
  BY DEF Calm, OneChain
<1>3. Ordered(s.writes) /\ TxsOf(s.writes) = Waiting
  BY DEF Placed, Waiting
<1>4. ASSUME NEW t \in Waiting
      PROVE  Change(t) \notin NodeView /\ \A b \in Spent(t) : b.tx < t
  <2>1. t \in DOMAIN txs /\ t \in Nat /\ t # 0
    <3>1. t \in 1 .. Len(txs) /\ DOMAIN txs = 1 .. Len(txs) /\ Len(txs) \in Nat
      BY DEF Placed, Typed
    <3> QED BY <3>1
  <2>2. \A b \in Spent(t) : b.tx < t
    BY <2>1 DEF Calm, Numbered
  <2>3. t \notin Taken
    BY NobodyAtWork DEF Calm, Apart
  <2>4. Change(t).tx = t
    BY <2>1, ChangeType
  <2>5. \A b \in NodeView : b.tx = 0 \/ b.tx \in Taken
    BY NodeViewIs DEF Typed
  <2> QED BY <2>1, <2>2, <2>3, <2>4, <2>5
<1>5. \A t \in TxsOf(s.writes) : /\ Change(t) \notin Range(s.base.spendable)
                                 /\ \A b \in Spent(t) : b.tx < t
  BY <1>3, <1>4
<1>6. /\ View(s, 1) \in Seq(Boxes) /\ IsInjective(View(s, 1))
      /\ Range(View(s, 1)) =
           (Range(s.base.spendable) \cup ChangesOf(TxsOf(s.writes))) \ SpentOf(TxsOf(s.writes))
  BY <1>1, <1>2, <1>3, <1>5, ViewIs
<1> QED BY <1>3, <1>6

(* A press of unspent boxes leaves the wallet calm. *)
LEMMA PressCalm ==
  ASSUME Typed, Placed, Calm, lock = NoPage, NEW p \in Pages, NEW boxes,
         LastBuilt(Len(txs) + 1, boxes), IsInjective(boxes),
         Range(boxes) \subseteq (NodeView \cup ChangesOf(Waiting)) \ SpentOf(Waiting),
         NEW j \in Jobs, j.kind \in {"press", "burn"}, j.pc = "sign", j.tx = Len(txs) + 1, j.stranded = {},
         j.kind = "burn" => store.writes = <<>>, Turned(p, j),
         store' \in Stores, store'.writes = store.writes, store'.chain = store.chain,
         store'.base = store.base \/ (/\ store'.base.chain = 1 /\ IsInjective(store'.base.spendable)
                                      /\ Range(store'.base.spendable) = NodeView),
         node' = node, ended' = ended
  PROVE  Calm'
<1>0. Len(txs) \in Nat /\ j # NoJob
  BY WalletAssumption DEF Typed
<1> PICK n \in Nat : n = Len(txs) + 1
  BY <1>0
<1>1. /\ Len(txs) \in Nat /\ DOMAIN txs = 1 .. Len(txs) /\ DOMAIN txs' = 1 .. n
      /\ \A u \in 1 .. Len(txs) : u \in Nat /\ u < n /\ Spent(u)' = Spent(u)
      /\ \A u \in 1 .. n : u = n \/ u \in 1 .. Len(txs)
      /\ n \in 1 .. n
  BY <1>0 DEF LastBuilt, Spent
<1>2. Waiting \cup Taken \cup ended \subseteq 1 .. Len(txs)
  BY DEF Placed
<1>3. Flown = {} /\ Unheard = {} /\ Stranded = {}
  BY NobodyAtWork
<1>4. Flown' = {n} /\ Unheard' = {} /\ Stranded' = {} /\ \A q \in Pages : Working(q)' => page'[q].job = j
  BY <1>0, SetsAfter DEF JobTx, JobUnheard, JobStranded
<1>5. Waiting' = Waiting /\ Taken' = Taken
  BY DEF Waiting, Taken
<1>6. Range(txs'[n]) \subseteq Range(boxes) /\ IsInjective(txs'[n]) /\ Spent(n)' = Range(txs'[n])
  BY DEF LastBuilt, Spent
<1>7. NodeView' = NodeView
  BY <1>1, <1>2, <1>5 DEF NodeView
<1>8. \A b \in Spent(n)' : /\ b \in NodeView \cup ChangesOf(Waiting)
                           /\ \A t \in Waiting : b \notin Spent(t)
  BY <1>6 DEF SpentOf
<1>9. \A u \in 1 .. Len(txs) : Changes(u) \subseteq {Change(u)} /\ Change(u).tx = u
  BY <1>1, ChangeType
<1>10. \A b \in Spent(n)' : b.tx < n
  <2> TAKE b \in Spent(n)'
  <2>1. CASE b \in NodeView
    <3>1. b.tx = 0 \/ b.tx \in 1 .. Len(txs)
      BY <1>2, <2>1, NodeViewIs DEF Typed
    <3>2. 0 < n
      BY <1>1
    <3> QED BY <1>1, <3>1, <3>2
  <2>2. CASE b \in ChangesOf(Waiting)
    <3>1. PICK u \in Waiting : b \in Changes(u)
      BY <2>2 DEF ChangesOf
    <3> QED BY <1>1, <1>2, <1>9, <3>1
  <2> QED BY <1>8, <2>1, <2>2
<1>11. \A b \in Spent(n)' : \A t \in Waiting \cup Taken : b \notin Spent(t)
  <2> TAKE b \in Spent(n)'
  <2>1. ASSUME NEW t \in Taken PROVE b \notin Spent(t)
    <3>1. CASE b \in NodeView
      BY <2>1, <3>1 DEF NodeView
    <3>2. CASE b \in ChangesOf(Waiting)
      <4>1. PICK u \in Waiting : b \in Changes(u)
        BY <3>2 DEF ChangesOf
      <4>2. b = Change(u)
        BY <1>2, <1>9, <4>1
      <4> QED BY <2>1, <4>1, <4>2 DEF Calm, Fresh
    <3> QED BY <1>8, <3>1, <3>2
  <2> QED BY <1>8, <2>1
<1>12. OneChain'
  BY OneChainKept DEF Calm, OneChain, Range
<1>13. Numbered'
  <2> SUFFICES ASSUME NEW t \in 1 .. n PROVE IsInjective(txs'[t]) /\ \A b \in Spent(t)' : b.tx < t
    BY <1>1 DEF Numbered
  <2>1. CASE t = n
    BY <1>6, <1>10, <2>1
  <2>2. CASE t \in 1 .. Len(txs)
    <3>1. IsInjective(txs[t]) /\ \A b \in Spent(t) : b.tx < t
      BY <1>1, <2>2 DEF Calm, Numbered
    <3> QED BY <1>1, <2>2, <3>1 DEF LastBuilt
  <2> QED BY <1>1, <2>1, <2>2
<1>14. Disjoint'
  <2>1. Live' = Waiting \cup Taken \cup {n} /\ Live = Waiting \cup Taken
    BY <1>3, <1>4, <1>5 DEF Live
  <2>2. \A t \in Waiting \cup Taken : Spent(t)' = Spent(t) /\ Spent(t)' \cap Spent(n)' = {}
    BY <1>1, <1>2, <1>11
  <2>3. \A t, u \in Waiting \cup Taken : t # u => Spent(t)' \cap Spent(u)' = {}
    BY <2>1, <2>2 DEF Calm, Disjoint
  <2>4. \A t, u \in Live' : t # u => Spent(t)' \cap Spent(u)' = {}
    BY <2>1, <2>2, <2>3
  <2> QED BY <2>4 DEF Disjoint
<1>15. Fresh'
  <2>1. \A t \in Waiting, u \in Taken : Change(t) \notin Spent(u)'
    BY <1>1, <1>2 DEF Calm, Fresh
  <2>2. \A u \in Taken : Change(n) \notin Spent(u)'
    <3> TAKE u \in Taken
    <3>1. u \in 1 .. Len(txs) /\ \A b \in Spent(u) : b.tx < u
      BY <1>1, <1>2 DEF Calm, Numbered
    <3>2. Change(n).tx = n /\ u < n /\ u \in Nat
      BY <1>1, <3>1, ChangeType
    <3> QED BY <1>1, <3>1, <3>2
  <2> QED BY <1>4, <1>5, <2>1, <2>2 DEF Fresh
<1>16. Available'
  <2> SUFFICES ASSUME NEW t \in Waiting \cup {n}, t \notin Taken
               PROVE  Spent(t)' \subseteq NodeView \cup ChangesOf(Waiting)
    BY <1>4, <1>5, <1>7 DEF Available, ChangesOf
  <2>1. CASE t = n
    BY <1>8, <2>1
  <2>2. CASE t \in Waiting
    <3>1. Spent(t)' = Spent(t)
      BY <1>1, <1>2, <2>2
    <3> QED BY <1>3, <2>2, <3>1 DEF Calm, Available
  <2> QED BY <2>1, <2>2
<1>17. n \notin Waiting \cup Taken \cup ended
  BY <1>1, <1>2
<1>18. Apart'
  BY <1>3, <1>4, <1>5, <1>17 DEF Calm, Apart, Live
<1>19. BaseSound'
  <2>1. UNION {Spent(t) : t \in Unheard}' = {} /\ ChangesOf(Unheard)' = {}
    BY <1>4 DEF ChangesOf
  <2>2. ASSUME store.base # NoBase
        PROVE  IsInjective(store.base.spendable) /\ Range(store.base.spendable) = NodeView
    <3>1. UNION {Spent(t) : t \in Unheard} = {} /\ ChangesOf(Unheard) = {}
      BY <1>3 DEF ChangesOf
    <3> QED BY <2>2, <3>1 DEF Calm, BaseSound
  <2> QED BY <1>4, <1>7, <2>1, <2>2 DEF BaseSound
<1>20. Orderly(j)'
  <2>1. Sends(j) = n
    BY DEF Sends
  <2> QED BY <1>5, <1>17, <2>1 DEF Orderly
<1>21. \A q \in Pages : Working(q)' => Orderly(page[q].job)'
  <2> TAKE q \in Pages
  <2> HAVE Working(q)'
  <2>1. page'[q].job = j
    BY <1>4
  <2> QED BY <1>20, <2>1 DEF Orderly
<1> QED BY <1>12, <1>13, <1>14, <1>15, <1>16, <1>18, <1>19, <1>21 DEF Calm

(* A page that calls the chain its own calls it the only one while calm. *)
LEMMA ChainOfIs ==
  ASSUME Typed, NEW p \in Pages
  PROVE  ChainOf(p) \in Chains /\ (Calm => ChainOf(p) = 1)
<1>1. page[p] \in PageStates /\ store \in Stores
  BY DEF Typed
<1>2. ChainOf(p) \in Chains
  BY <1>1 DEF ChainOf, PageStates, Stores
<1>3. Calm => ChainOf(p) = 1
  BY DEF ChainOf, Calm, OneChain, Named
<1> QED BY <1>2, <1>3

LEMMA PressAnsweredKeeps ==
  ASSUME IInv, NEW p \in Pages, PressAnswered(p)
  PROVE  IInv'
<1> DEFINE s == RecordBase(store, ChainOf(p))
           boxes == View(s, ChainOf(p))
           j == Press("press", Len(txs) + 1, FALSE)
<1>1. /\ Typed /\ Placed /\ Free(p) /\ store \in Stores /\ node \in NodeStates /\ clean \in BOOLEAN
      /\ used \in Nat /\ lock = NoPage /\ page[p].open
  BY DEF IInv, Typed, PressAnswered, Free, Idle
<1>2. store' = s /\ Builds(p, "press", boxes, FALSE) /\ UNCHANGED <<node, ended, clean, used>>
  BY DEF PressAnswered
<1>3. ChainOf(p) \in Chains /\ (Calm => ChainOf(p) = 1)
  BY <1>1, ChainOfIs
<1>4. /\ s \in Stores /\ s.writes = store.writes /\ s.chain = store.chain
      /\ s.base \in Bases /\ s.base.chain = ChainOf(p) /\ s.base.spendable = SetToSeq(NodeView)
  BY <1>1, <1>3, RecordBaseIs
<1>5. IsInjective(s.base.spendable) /\ Range(s.base.spendable) = NodeView
  BY <1>1, <1>4, NodeViewIs, SetToSeqIs
<1> HIDE DEF s
<1>6. s.base # NoBase /\ ReadBase(s, ChainOf(p)) # NoBase
  BY <1>4, WalletAssumption DEF ReadBase
<1>7. boxes \in Seq(Boxes)
  BY <1>4, <1>6, ViewSteps
<1> HIDE DEF boxes
<1>8. LastBuilt(Len(txs) + 1, boxes) /\ j \in Jobs /\ Turned(p, j)
  BY <1>1, <1>2, <1>7, BuildsIs
<1>9. j.kind = "press" /\ j.pc = "sign" /\ j.tx = Len(txs) + 1 /\ j.stranded = {}
  BY DEF Press
<1> HIDE DEF j
<1>10. Typed' /\ Placed'
  BY <1>1, <1>2, <1>4, <1>8, <1>9, PressTypes
<1>11. ASSUME clean' PROVE Calm'
  <2>1. Calm /\ ChainOf(p) = 1
    BY <1>2, <1>3, <1>11 DEF IInv
  <2>2. IsInjective(boxes) /\ Range(boxes) = (NodeView \cup ChangesOf(Waiting)) \ SpentOf(Waiting)
    BY <1>1, <1>4, <1>5, <1>6, <2>1, ViewCalm DEF boxes
  <2> QED BY <1>1, <1>2, <1>4, <1>5, <1>8, <1>9, <2>1, <2>2, PressCalm
<1> QED BY <1>10, <1>11 DEF IInv


(* While nobody is at work, the base is the node's view. *)
LEMMA BaseAtRest ==
  ASSUME Placed, Calm, lock = NoPage, store.base # NoBase
  PROVE  store.base.chain = 1 /\ IsInjective(store.base.spendable) /\ Range(store.base.spendable) = NodeView
<1>1. Unheard = {}
  BY NobodyAtWork
<1>2. UNION {Spent(t) : t \in Unheard} = {} /\ ChangesOf(Unheard) = {}
  BY <1>1 DEF ChangesOf
<1> QED BY <1>2 DEF Calm, BaseSound, OneChain

LEMMA PressUnansweredKeeps ==
  ASSUME IInv, NEW p \in Pages, PressUnanswered(p)
  PROVE  IInv'
<1> DEFINE boxes == View(store, ChainOf(p))
           j == Press("press", Len(txs) + 1, TRUE)
<1>1. /\ Typed /\ Placed /\ Free(p) /\ store \in Stores /\ clean \in BOOLEAN
      /\ used \in Nat /\ lock = NoPage /\ page[p].open
  BY DEF IInv, Typed, PressUnanswered, Free, Idle
<1>2. /\ ReadBase(store, ChainOf(p)) # NoBase /\ store.base # NoBase
      /\ Builds(p, "press", boxes, TRUE) /\ UNCHANGED <<store, node, ended, clean, used>>
  BY DEF PressUnanswered, ReadBase
<1>3. ChainOf(p) \in Chains /\ (Calm => ChainOf(p) = 1)
  BY <1>1, ChainOfIs
<1>7. boxes \in Seq(Boxes)
  BY <1>1, <1>2, ViewSteps
<1> HIDE DEF boxes
<1>8. LastBuilt(Len(txs) + 1, boxes) /\ j \in Jobs /\ Turned(p, j)
  BY <1>1, <1>2, <1>7, BuildsIs
<1>9. j.kind = "press" /\ j.pc = "sign" /\ j.tx = Len(txs) + 1 /\ j.stranded = {}
  BY DEF Press
<1> HIDE DEF j
<1>10. Typed' /\ Placed'
  BY <1>1, <1>2, <1>8, <1>9, PressTypes
<1>11. ASSUME clean' PROVE Calm'
  <2>1. Calm /\ ChainOf(p) = 1
    BY <1>2, <1>3, <1>11 DEF IInv
  <2>2. IsInjective(boxes) /\ Range(boxes) = (NodeView \cup ChangesOf(Waiting)) \ SpentOf(Waiting)
    BY <1>1, <1>2, <2>1, BaseAtRest, ViewCalm DEF boxes
  <2> QED BY <1>1, <1>2, <1>8, <1>9, <2>1, <2>2, PressCalm
<1> QED BY <1>10, <1>11 DEF IInv

LEMMA PressBurnKeeps ==
  ASSUME IInv, NEW p \in Pages, PressBurn(p)
  PROVE  IInv'
<1> DEFINE boxes == SetToSeq(NodeView)
           j == Press("burn", Len(txs) + 1, FALSE)
<1>1. /\ Typed /\ Placed /\ Free(p) /\ store \in Stores /\ node \in NodeStates /\ clean \in BOOLEAN
      /\ used \in Nat /\ lock = NoPage /\ page[p].open
  BY DEF IInv, Typed, PressBurn, Free, Idle
<1>2. /\ Builds(p, "burn", boxes, FALSE) /\ UNCHANGED <<store, node, ended>>
      /\ used' = used + 1 /\ clean' = (clean /\ store.writes = <<>>)
  BY DEF PressBurn
<1>3. boxes \in Seq(Boxes) /\ IsInjective(boxes) /\ Range(boxes) = NodeView
  BY <1>1, NodeViewIs, SetToSeqIs
<1> HIDE DEF boxes
<1>8. LastBuilt(Len(txs) + 1, boxes) /\ j \in Jobs /\ Turned(p, j)
  BY <1>1, <1>2, <1>3, BuildsIs
<1>9. j.kind = "burn" /\ j.pc = "sign" /\ j.tx = Len(txs) + 1 /\ j.stranded = {}
  BY DEF Press
<1> HIDE DEF j
<1>4. clean' \in BOOLEAN /\ used' \in Nat
  BY <1>1, <1>2
<1>10. Typed' /\ Placed'
  BY <1>1, <1>2, <1>4, <1>8, <1>9, PressTypes
<1>11. ASSUME clean' PROVE Calm'
  <2>1. Calm /\ store.writes = <<>>
    BY <1>2, <1>11 DEF IInv
  <2>2. Waiting = {}
    BY <2>1 DEF Waiting, TxsOf
  <2>3. SpentOf(Waiting) = {}
    BY <2>2 DEF SpentOf
  <2> QED BY <1>1, <1>2, <1>3, <1>8, <1>9, <2>1, <2>3, PressCalm
<1> QED BY <1>10, <1>11 DEF IInv

-----------------------------------------------------------------------------
(* The prompt's answer. *)

(* A job at its prompt is a flow's, whose transaction nobody else knows. *)
LEMMA AtPrompt ==
  ASSUME Typed, Placed, NEW p \in Pages, Working(p), page[p].job.pc = "sign"
  PROVE  /\ page[p].job \in Jobs /\ page[p].job.kind # "flush" /\ FlowPlaced(page[p].job)
         /\ page[p].job.tx \notin Waiting \cup Taken \cup ended
<1>1. page[p] \in PageStates
  BY DEF Typed
<1>2. page[p].job \in Jobs /\ page[p].job # NoJob
  BY <1>1 DEF PageStates, Working
<1>3. JobPlaced(p)
  BY DEF Placed
<1>4. page[p].job.kind # "flush" /\ FlowPlaced(page[p].job)
  BY <1>2, <1>3 DEF JobPlaced, PassPlaced
<1> QED BY <1>2, <1>4 DEF FlowPlaced

LEMMA DeclinesKeeps ==
  ASSUME IInv, NEW p \in Pages, Declines(p)
  PROVE  IInv'
<1>1. /\ Typed /\ Placed /\ Working(p) /\ page[p].job.pc = "sign" /\ store \in Stores
      /\ page[p] \in PageStates
  BY DEF IInv, Typed, Declines, Working
<1>2. Finish(p, store, page[p].entries) /\ txs' = Front(txs) /\ UNCHANGED <<node, ended, clean, used>>
  BY DEF Declines
<1> PICK j : j = page[p].job
  OBVIOUS
<1> PICK n : n = j.tx
  OBVIOUS
<1>3. /\ j \in Jobs /\ j # NoJob /\ j.kind # "flush" /\ j.stranded = {} /\ n = Len(txs) /\ n \in TxIds
      /\ n \notin Waiting \cup Taken \cup ended
  BY <1>1, AtPrompt DEF FlowPlaced, Working
<1>4. page[p].entries \in Marks
  BY <1>1 DEF PageStates
<1>5. /\ Turned(p, NoJob) /\ JobPlaced(p)' /\ store' \in Stores
      /\ store'.base = store.base /\ store'.writes = store.writes /\ store'.chain = store.chain
  BY <1>1, <1>2, <1>4, FinishTurns
<1>6. n \in Nat /\ n >= 1 /\ txs \in Seq(Seq(Boxes)) /\ n <= MaxTxs /\ MaxTxs \in Nat
  BY <1>1, <1>3, WalletAssumption DEF Typed, TxIds
<1>7. txs' \in Seq(Seq(Boxes)) /\ Len(txs') = n - 1 /\ \A u \in 1 .. n - 1 : txs'[u] = txs[u]
  <2>1. Front(txs) = SubSeq(txs, 1, n - 1)
    BY <1>3 DEF Front
  <2> QED BY <1>2, <1>3, <1>6, <2>1
<1>8. Waiting' = Waiting /\ Taken' = Taken
  BY <1>2, <1>5 DEF Waiting, Taken
<1>9. Waiting \cup Taken \cup ended \subseteq 1 .. n - 1
  <2>1. Waiting \cup Taken \cup ended \subseteq 1 .. n
    BY <1>1, <1>3 DEF Placed
  <2> QED BY <1>3, <1>6, <2>1
<1>10. Placed'
  BY <1>1, <1>2, <1>5, <1>7, <1>8, <1>9, TurnPlaced DEF Placed
<1>11. Typed'
  BY <1>1, <1>2, <1>5, <1>6, <1>7 DEF Typed, Turned
<1>12. ASSUME clean' PROVE Calm'
  <2>1. Calm
    BY <1>2, <1>12 DEF IInv
  <2>2. Flown = {n} /\ Unheard = {} /\ Stranded = {}
    <3>1. Flown = JobTx(j) /\ Unheard = JobUnheard(j) /\ Stranded = JobStranded(j)
      BY <1>5, SetsBefore DEF Turned
    <3>2. j.pc = "sign"
      BY <1>1
    <3> QED BY <1>3, <3>1, <3>2 DEF JobTx, JobUnheard, JobStranded
  <2>3. Flown' = {} /\ Unheard' = {} /\ Stranded' = {} /\ \A q \in Pages : ~Working(q)'
    <3>1. Flown' = JobTx(NoJob) /\ Unheard' = JobUnheard(NoJob) /\ Stranded' = JobStranded(NoJob)
          /\ \A q \in Pages : Working(q)' => page'[q].job = NoJob
      BY <1>5, SetsAfter
    <3> QED BY <3>1 DEF JobTx, JobUnheard, JobStranded, Working
  <2>4. \A u \in 1 .. n - 1 : Spent(u)' = Spent(u)
    BY <1>7 DEF Spent
  <2>5. NodeView' = NodeView
    BY <1>2, <1>8, <1>9, <2>4 DEF NodeView
  <2>6. OneChain'
    <3>1. /\ OneChain /\ node'.chain = node.chain /\ store'.base = store.base
          /\ store'.writes = store.writes /\ store'.chain = store.chain
      BY <1>2, <1>5, <2>1 DEF Calm
    <3>2. \A w \in Range(store'.writes) : w.chain = 1
      BY <3>1 DEF OneChain, Range
    <3>3. store'.base # NoBase => store'.base.chain = 1
      BY <3>1 DEF OneChain
    <3> QED BY <1>2, <1>5, <2>1, <3>1, <3>2, <3>3, OneChainKept
  <2>7. Numbered'
    <3>1. DOMAIN txs' = 1 .. n - 1 /\ \A t \in 1 .. n - 1 : t \in DOMAIN txs
      BY <1>3, <1>6, <1>7
    <3> QED BY <1>7, <2>1, <2>4, <3>1 DEF Calm, Numbered
  <2>8. Disjoint'
    BY <1>8, <1>9, <2>1, <2>2, <2>3, <2>4 DEF Calm, Disjoint, Live
  <2>9. Fresh'
    BY <1>8, <1>9, <2>1, <2>3, <2>4 DEF Calm, Fresh
  <2>10. Available'
    BY <1>8, <1>9, <2>1, <2>2, <2>3, <2>4, <2>5 DEF Calm, Available, ChangesOf
  <2>11. Apart'
    BY <1>2, <1>8, <2>1, <2>2, <2>3 DEF Calm, Apart, Live
  <2>12. BaseSound'
    BY <1>5, <2>1, <2>2, <2>3, <2>5 DEF Calm, BaseSound, ChangesOf
  <2> QED BY <2>3, <2>6, <2>7, <2>8, <2>9, <2>10, <2>11, <2>12 DEF Calm
<1> QED BY <1>10, <1>11, <1>12 DEF IInv

(* A flow's write waits from now on. *)
LEMMA KeepWaitingKeeps ==
  ASSUME Typed, Placed, NEW p \in Pages, Working(p), FlowPlaced(page[p].job), page[p].job.kind # "flush",
         KeepWaiting(p), UNCHANGED <<node, txs, ended>>, clean' \in BOOLEAN, used' \in Nat,
         clean' => Calm /\ page[p].job.pc # "taken"
  PROVE  IInv'
<1> PICK j : j = page[p].job
  OBVIOUS
<1> PICK t : t = j.tx
  OBVIOUS
<1>1. j # NoJob /\ t = Len(txs) /\ t \in TxIds /\ t \in Nat /\ t \notin Waiting \cup ended
      /\ (j.pc # "taken" => t \notin Taken) /\ j.stranded = {}
  BY WalletAssumption DEF FlowPlaced, Working, TxIds
<1>2. store \in Stores /\ page[p].entries \in Marks
  BY DEF Typed, PageStates
<1>3. ChainOf(p) \in Chains /\ (Calm => ChainOf(p) = 1)
  BY ChainOfIs
<1> PICK k \in Chains : k = ChainOf(p)
  BY <1>3
<1> DEFINE s == Keep(store, t, k)
           e == [page[p].entries EXCEPT ![t] = "waiting"]
<1>4. Finish(p, s, e)
  BY DEF KeepWaiting
<1>5. e \in Marks
  BY <1>1, <1>2, MarksKept
<1>6. \A u \in Waiting : u \in 1 .. t /\ u < t
  BY <1>1 DEF Placed
<1>7. /\ s \in Stores /\ s.base = store.base /\ s.chain = store.chain
      /\ TxsOf(s.writes) = Waiting \cup {t}
      /\ Range(s.writes) = Range(store.writes) \cup {[tx |-> t, chain |-> k]}
      /\ Ordered(s.writes)
  <2>1. Ordered(store.writes) /\ Waiting = TxsOf(store.writes)
    BY DEF Placed, Waiting
  <2>2. \A u \in TxsOf(store.writes) : u < t
    BY <1>6, <2>1
  <2> QED BY <1>1, <1>2, <2>1, <2>2, KeepIs
<1> HIDE DEF s, e
<1>8. /\ Turned(p, NoJob) /\ JobPlaced(p)' /\ store' \in Stores
      /\ store'.base = s.base /\ store'.writes = s.writes /\ store'.chain = s.chain
  BY <1>4, <1>5, <1>7, FinishTurns
<1>9. Waiting' = Waiting \cup {t} /\ Taken' = Taken
  BY <1>7, <1>8 DEF Waiting, Taken
<1>10. Placed'
  <2>1. t \in 1 .. Len(txs)
    BY <1>1 DEF TxIds
  <2> QED BY <1>7, <1>8, <1>9, <2>1, TurnPlaced DEF Placed
<1>11. Typed'
  BY <1>8 DEF Typed, Turned
<1>12. ASSUME clean' PROVE Calm'
  <2>1. Calm /\ k = 1 /\ t \notin Taken /\ j.pc # "taken"
    BY <1>1, <1>3, <1>12
  <2>2. JobTx(NoJob) = {} /\ JobUnheard(NoJob) = {} /\ JobStranded(NoJob) = {}
    BY DEF JobTx, JobUnheard, JobStranded
  <2>3. JobTx(j) = {t} /\ JobUnheard(j) = {} /\ JobStranded(j) = {}
    BY <1>1, <2>1 DEF JobTx, JobUnheard, JobStranded
  <2>4. \A w \in Range(store'.writes) : w.chain = 1
    BY <1>7, <1>8, <2>1 DEF Calm, OneChain, Range
  <2>5. Unheard = {} /\ Flown = {t} /\ Unheard' = {}
    BY <1>8, <2>2, <2>3, SetsBefore, SetsAfter DEF Turned
  <2>6. BaseSound' /\ (store'.base # NoBase => store'.base.chain = 1)
    BY <1>7, <1>8, <2>1, <2>5, BaseKept DEF Calm, OneChain
  <2>7. Waiting \cap Taken = {} /\ ended \cap Live = {}
    BY <2>1, <2>5 DEF Calm, Apart
  <2>8. ended' \cap (Waiting' \cup Taken \cup {}) = {}
    BY <1>1, <1>9, <2>7 DEF Live
  <2> QED BY <1>7, <1>8, <1>9, <2>1, <2>2, <2>3, <2>4, <2>6, <2>7, <2>8, CalmTurn
<1> QED BY <1>10, <1>11, <1>12 DEF IInv

LEMMA SignsKeeps ==
  ASSUME IInv, NEW p \in Pages, Signs(p)
  PROVE  IInv'
<1>1. /\ Typed /\ Placed /\ Working(p) /\ page[p].job.pc = "sign" /\ page[p].job # NoJob
      /\ page \in [Pages -> PageStates] /\ store \in Stores /\ UNCHANGED <<node, txs, ended, clean, used>>
      /\ clean \in BOOLEAN /\ used \in Nat
  BY DEF IInv, Typed, Signs, Working
<1>2. /\ page[p].job \in Jobs /\ page[p].job.kind # "flush" /\ FlowPlaced(page[p].job)
      /\ page[p].job.tx \notin Waiting \cup Taken \cup ended
  BY <1>1, AtPrompt
<1>3. CASE page[p].job.waiting
  <2>1. KeepWaiting(p)
    BY <1>3 DEF Signs
  <2> QED BY <1>1, <1>2, <2>1, KeepWaitingKeeps DEF IInv
<1>4. CASE ~page[p].job.waiting
  <2>1. page' = [page EXCEPT ![p].job.pc = "send"] /\ store' = store /\ lock' = lock
    BY <1>4 DEF Signs
  <2> PICK i : i = page[p].job
    OBVIOUS
  <2> PICK j : j = [i EXCEPT !.pc = "send"]
    OBVIOUS
  <2>2. /\ i \in Jobs /\ j \in Jobs /\ j.kind = i.kind /\ j.pc = "send" /\ j.tx = i.tx /\ j.stranded = i.stranded
        /\ i # NoJob /\ i.pc = "sign" /\ i.kind # "flush" /\ j # NoJob
    BY <1>1, <1>2, WalletAssumption DEF Jobs
  <2>3. page' = Job(p, j)
    BY <1>1, <2>1 DEF Job, PageStates
  <2>4. HasJob(Job(p, j), p, j)
    BY <1>1, <2>2, PageOne
  <2>5. lock = p /\ page[p].open
    BY <1>1 DEF Placed, JobPlaced
  <2>6. Turned(p, j)
    BY <1>1, <2>1, <2>3, <2>4, <2>5, OthersIdle DEF Turned, HasJob
  <2>7. Waiting' = Waiting /\ Taken' = Taken
    BY <1>1, <2>1 DEF Waiting, Taken
  <2>8. JobPlaced(p)'
    BY <1>1, <1>2, <2>1, <2>2, <2>3, <2>4, <2>5, <2>7 DEF JobPlaced, HasJob, FlowPlaced
  <2>9. Placed'
    BY <1>1, <2>1, <2>6, <2>7, <2>8, TurnPlaced DEF Placed
  <2>10. Typed'
    BY <1>1, <2>1, <2>6 DEF Typed, Turned
  <2>11. ASSUME clean' PROVE Calm'
    <3>1. Calm
      BY <1>1, <2>11 DEF IInv
    <3>2. JobTx(j) = JobTx(i) /\ JobUnheard(j) = {} /\ JobUnheard(i) = {} /\ JobStranded(j) = JobStranded(i)
      BY <2>2 DEF JobTx, JobUnheard, JobStranded
    <3>3. /\ Flown = JobTx(i) /\ Unheard = {} /\ Unheard' = {}
      BY <1>1, <2>6, <3>2, SetsBefore, SetsAfter DEF Turned
    <3>4. BaseSound' /\ (store'.base # NoBase => store'.base.chain = 1)
      BY <1>1, <2>1, <3>1, <3>3, BaseKept DEF Calm, OneChain
    <3>5. Orderly(j)'
      <4>1. Orderly(i)
        BY <1>1, <3>1 DEF Calm
      <4>2. Sends(j) = Sends(i) /\ Sends(j) = j.tx
        BY <2>2 DEF Sends
      <4> QED BY <2>1, <2>2, <2>7, <4>1, <4>2 DEF Orderly
    <3>6. (Waiting \cup JobTx(i)) \cap Taken = {} /\ ended \cap (Waiting \cup Taken \cup JobTx(i)) = {}
      BY <3>1, <3>3 DEF Calm, Apart, Live
    <3>7. \A w \in Range(store'.writes) : w.chain = 1
      BY <2>1, <3>1 DEF Calm, OneChain, Range
    <3> QED BY <1>1, <2>1, <2>2, <2>6, <2>7, <3>1, <3>2, <3>4, <3>5, <3>6, <3>7, CalmTurn
  <2> QED BY <2>9, <2>10, <2>11 DEF IInv
<1> QED BY <1>3, <1>4

-----------------------------------------------------------------------------
(* A flow's answer. *)

(* A flow ends with its transaction reported: it is not with the node. *)
LEMMA FlowEnds ==
  ASSUME Typed, Placed, NEW p \in Pages, Working(p), FlowPlaced(page[p].job), page[p].job.kind # "flush",
         Finish(p, store, page[p].entries), ended' = ended \cup {page[p].job.tx},
         UNCHANGED <<node, txs>>, clean' \in BOOLEAN, used' \in Nat,
         clean' => Calm /\ page[p].job.pc # "taken"
  PROVE  IInv'
<1> PICK j : j = page[p].job
  OBVIOUS
<1> PICK t : t = j.tx
  OBVIOUS
<1>1. /\ j # NoJob /\ t = Len(txs) /\ t \in TxIds /\ t \in 1 .. Len(txs) /\ t \notin Waiting
      /\ (j.pc # "taken" => t \notin Taken) /\ j.stranded = {}
  BY WalletAssumption DEF FlowPlaced, Working, TxIds
<1>2. store \in Stores /\ page[p].entries \in Marks
  BY DEF Typed, PageStates
<1>3. /\ Turned(p, NoJob) /\ JobPlaced(p)' /\ store' \in Stores
      /\ store'.base = store.base /\ store'.writes = store.writes /\ store'.chain = store.chain
  BY <1>2, FinishTurns
<1>4. Waiting' = Waiting /\ Taken' = Taken
  BY <1>3 DEF Waiting, Taken
<1>5. Placed'
  BY <1>1, <1>3, <1>4, TurnPlaced DEF Placed
<1>6. Typed'
  BY <1>1, <1>3 DEF Typed, Turned
<1>7. ASSUME clean' PROVE Calm'
  <2>1. Calm /\ t \notin Taken /\ j.pc # "taken"
    BY <1>1, <1>7
  <2>2. JobTx(NoJob) = {} /\ JobUnheard(NoJob) = {} /\ JobStranded(NoJob) = {}
    BY DEF JobTx, JobUnheard, JobStranded
  <2>3. JobTx(j) = {t} /\ JobUnheard(j) = {} /\ JobStranded(j) = {}
    BY <1>1, <2>1 DEF JobTx, JobUnheard, JobStranded
  <2>4. \A w \in Range(store'.writes) : w.chain = 1
    BY <1>3, <2>1 DEF Calm, OneChain, Range
  <2>5. Unheard = {} /\ Flown = {t} /\ Unheard' = {}
    BY <1>3, <2>2, <2>3, SetsBefore, SetsAfter DEF Turned
  <2>6. BaseSound' /\ (store'.base # NoBase => store'.base.chain = 1)
    BY <1>3, <2>1, <2>5, BaseKept DEF Calm, OneChain
  <2>7. Waiting \cap Taken = {} /\ ended \cap Live = {}
    BY <2>1, <2>5 DEF Calm, Apart
  <2>8. ended' \cap (Waiting' \cup Taken \cup {}) = {}
    BY <1>1, <1>4, <2>1, <2>7 DEF Live
  <2> QED BY <1>3, <1>4, <2>1, <2>2, <2>3, <2>4, <2>6, <2>7, <2>8, CalmTurn
<1> QED BY <1>5, <1>6, <1>7 DEF IInv

LEMMA AnsweredFlowKeeps ==
  ASSUME IInv, NEW p \in Pages, AnsweredFlow(p)
  PROVE  IInv'
<1>1. /\ Typed /\ Placed /\ Working(p) /\ page[p].job # NoJob /\ page[p].job.kind # "flush"
      /\ store \in Stores /\ page[p].entries \in Marks /\ UNCHANGED <<node, txs, clean, used>>
      /\ clean \in BOOLEAN /\ used \in Nat
  BY DEF IInv, Typed, AnsweredFlow, Working, PageStates
<1>2. FlowPlaced(page[p].job)
  BY <1>1 DEF Placed, JobPlaced
<1>3. CASE /\ page[p].job.pc \in {"refused", "clash"} /\ Finish(p, store, page[p].entries)
           /\ ended' = ended \cup {page[p].job.tx}
  <2>1. page[p].job.pc # "taken"
    BY <1>3
  <2> QED BY <1>1, <1>2, <1>3, <2>1, FlowEnds DEF IInv
<1>4. CASE page[p].job.pc = "taken" /\ FlowTaken(p) /\ UNCHANGED ended
  <2> PICK j : j = page[p].job
    OBVIOUS
  <2> PICK t : t = j.tx
    OBVIOUS
  <2> PICK k : k = ChainOf(p)
    OBVIOUS
  <2> DEFINE s == AbsorbSent(store, t, k)
             e == [page[p].entries EXCEPT ![t] = "sent"]
  <2>1. j # NoJob /\ j.pc = "taken" /\ j.kind # "flush" /\ t \in TxIds /\ t \notin Waiting \cup ended /\ j.stranded = {}
    BY <1>1, <1>2, <1>4 DEF FlowPlaced
  <2>2. Finish(p, s, e)
    BY <1>4 DEF FlowTaken
  <2>3. e \in Marks
    BY <1>1, <2>1, MarksKept
  <2>4. s \in Stores /\ s.writes = store.writes /\ s.chain = store.chain
    BY <1>1, <2>1, AbsorbSentIs
  <2>12. s.base = AbsorbSent(store, t, k).base
    OBVIOUS
  <2> HIDE DEF s, e
  <2>5. /\ Turned(p, NoJob) /\ JobPlaced(p)' /\ store' \in Stores
        /\ store'.base = s.base /\ store'.writes = store.writes /\ store'.chain = store.chain
    BY <1>1, <2>2, <2>3, <2>4, FinishTurns
  <2>6. Waiting' = Waiting /\ Taken' = Taken
    BY <1>1, <2>5 DEF Waiting, Taken
  <2>7. Placed'
    BY <1>1, <1>4, <2>5, <2>6, TurnPlaced DEF Placed
  <2>8. Typed'
    BY <1>1, <1>4, <2>5 DEF Typed, Turned
  <2>9. ASSUME clean' PROVE Calm'
    <3>1. Calm /\ k = 1
      BY <1>1, <2>9, ChainOfIs DEF IInv
    <3>2. JobTx(NoJob) = {} /\ JobUnheard(NoJob) = {} /\ JobStranded(NoJob) = {}
      BY DEF JobTx, JobUnheard, JobStranded
    <3>3. JobTx(j) = {t} /\ JobUnheard(j) = {t} /\ JobStranded(j) = {}
      BY <2>1 DEF JobTx, JobUnheard, JobStranded, Sends
    <3>4. \A w \in Range(store'.writes) : w.chain = 1
      BY <2>5, <3>1 DEF Calm, OneChain, Range
    <3>5. Unheard = {t} /\ Flown = {t} /\ Unheard' = {}
      BY <2>5, <3>2, <3>3, SetsBefore, SetsAfter DEF Turned
    <3>6. BaseSound' /\ (store'.base # NoBase => store'.base.chain = 1)
      BY <1>1, <2>1, <2>5, <2>12, <3>1, <3>5, BaseCaughtUp DEF Calm
    <3>7. Waiting \cap Taken = {} /\ ended \cap Live = {}
      BY <2>1, <3>1, <3>5 DEF Calm, Apart
    <3>8. ended' \cap (Waiting' \cup Taken \cup {}) = {}
      BY <1>4, <2>6, <3>7 DEF Live
    <3> QED BY <1>1, <2>5, <2>6, <3>1, <3>2, <3>3, <3>4, <3>6, <3>7, <3>8, CalmTurn
  <2> QED BY <2>7, <2>8, <2>9 DEF IInv
<1> QED BY <1>3, <1>4 DEF AnsweredFlow

-----------------------------------------------------------------------------
(* The send pass. *)

\* What a pass goes on from: its writes, those stored, its job before.
GoesOn(p, s, e, j, T) ==
  /\ Working(p) \/ lock = NoPage
  /\ GoOn(p, s, e, j, T) /\ page[p].open /\ j.kind = "flush"
  /\ Ordered(s.writes) /\ Ordered(j.todo)
  /\ j.todo = <<>> \/ Range(j.todo) = Range(s.writes)

(* The rest of some writes after their first. *)
LEMMA TailIs ==
  ASSUME NEW ws \in Seq(Writes), Ordered(ws), ws # <<>>
  PROVE  /\ Tail(ws) \in Seq(Writes) /\ Ordered(Tail(ws))
         /\ Head(ws) \in Range(ws) /\ Head(ws) \in Writes
         /\ Range(Tail(ws)) = {w \in Range(ws) : w.tx # Head(ws).tx}
<1>1. Len(ws) \in Nat /\ Len(ws) >= 1 /\ DOMAIN ws = 1 .. Len(ws) /\ Head(ws) = ws[1]
  OBVIOUS
<1> PICK r : r = Tail(ws)
  OBVIOUS
<1>2. r \in Seq(Writes) /\ DOMAIN r = 1 .. Len(ws) - 1 /\ \A i \in 1 .. Len(ws) - 1 : r[i] = ws[i + 1]
  BY <1>1
<1>3. \A i \in DOMAIN r : i + 1 \in DOMAIN ws /\ r[i] = ws[i + 1] /\ 1 < i + 1
  BY <1>1, <1>2
<1>4. \A i \in DOMAIN ws : i = 1 \/ (i - 1 \in DOMAIN r /\ r[i - 1] = ws[i])
  BY <1>1, <1>2
<1>5. Ordered(r)
  <2> SUFFICES ASSUME NEW a \in DOMAIN r, NEW b \in DOMAIN r, a < b PROVE r[a].tx < r[b].tx
    BY DEF Ordered
  <2>1. a + 1 < b + 1
    BY <1>2
  <2> QED BY <1>3, <2>1 DEF Ordered
<1>6. 1 \in DOMAIN ws /\ \A i \in DOMAIN ws : ws[i] \in Writes /\ ws[i].tx \in Nat
  <2>1. \A i \in DOMAIN ws : ws[i] \in Writes
    OBVIOUS
  <2> QED BY <1>1, <2>1, WalletAssumption DEF Writes, TxIds
<1>7. Range(r) = {w \in Range(ws) : w.tx # ws[1].tx}
  <2>1. ASSUME NEW i \in DOMAIN r PROVE r[i] \in Range(ws) /\ r[i].tx # ws[1].tx
    <3>1. ws[1].tx < ws[i + 1].tx
      BY <1>3, <1>6, <2>1 DEF Ordered
    <3> QED BY <1>3, <1>6, <2>1, <3>1 DEF Range
  <2>2. ASSUME NEW i \in DOMAIN ws, ws[i].tx # ws[1].tx PROVE ws[i] \in Range(r)
    BY <1>4, <2>2 DEF Range
  <2> QED BY <2>1, <2>2 DEF Range
<1> QED BY <1>1, <1>2, <1>5, <1>6, <1>7 DEF Range

(* A pass that goes on leaves everybody placed. *)
LEMMA PassTypes ==
  ASSUME Typed, Placed, NEW p \in Pages, NEW s \in Stores, NEW e \in Marks, NEW j \in Jobs, NEW T,
         GoesOn(p, s, e, j, T), TxsOf(s.writes) \subseteq Waiting, T \subseteq Waiting,
         UNCHANGED <<node, txs>>, clean' \in BOOLEAN, used' \in Nat
  PROVE  Typed' /\ Placed'
<1>1. /\ store' \in Stores /\ Ordered(store'.writes)
      /\ TxsOf(store'.writes) = TxsOf(s.writes) \ EndedOf(j)
      /\ EndedOf(j) \subseteq TxsOf(s.writes) /\ ended' = ended \cup T \cup EndedOf(j)
      /\ Rest(j) = <<>> => Turned(p, NoJob)
      /\ Rest(j) # <<>> => Turned(p, NextJob(j))
      /\ JobPlaced(p)'
  BY GoOnTurns DEF GoesOn
<1>2. PICK i : Turned(p, i)
  BY <1>1
<1>3. Waiting' = TxsOf(s.writes) \ EndedOf(j) /\ Taken' = Taken
  BY <1>1 DEF Waiting, Taken
<1>4. Waiting \subseteq TxIds
  BY StoreFields, TxsOfIs DEF Typed, Waiting
<1>5. Typed'
  BY <1>1, <1>2, <1>4 DEF Typed, Turned
<1>6. (Waiting \cup Taken \cup ended \subseteq 1 .. Len(txs))'
  BY <1>1, <1>3 DEF Placed
<1>7. Ordered(store.writes)'
  BY <1>1
<1> QED BY <1>1, <1>2, <1>5, <1>6, <1>7, TurnPlaced

(* A pass whose send is answered waits for no answer, the base as it was left. *)
LEMMA PassUnheard ==
  ASSUME Typed, Placed, NEW p \in Pages, NEW s \in Stores, NEW e \in Marks, NEW j \in Jobs, NEW T,
         GoesOn(p, s, e, j, T)
  PROVE  Unheard' = {} /\ store'.base = s.base
<1>1. /\ store'.base = s.base
      /\ Rest(j) = <<>> => Turned(p, NoJob)
      /\ Rest(j) # <<>> => Turned(p, NextJob(j))
  BY GoOnTurns DEF GoesOn
<1>2. JobUnheard(NoJob) = {} /\ JobUnheard(NextJob(j)) = {}
  BY NextJobIs DEF JobUnheard, GoesOn
<1> QED BY <1>1, <1>2, SetsAfter

(* A pass that goes on leaves the wallet calm, unless cut short it forgets
   what it has stranded. *)
LEMMA PassCalm ==
  ASSUME Typed, Placed, Calm, NEW p \in Pages, NEW s \in Stores, NEW e \in Marks, NEW j \in Jobs, NEW T,
         GoesOn(p, s, e, j, T), UNCHANGED <<node, txs>>,
         s.chain = store.chain, Range(s.writes) \subseteq Range(store.writes),
         TxsOf(s.writes) \cap Taken = {}, T \cap (TxsOf(s.writes) \cup Taken) = {},
         j.todo # <<>> =>
           /\ j.chain = 1 /\ JobStranded(page[p].job) \subseteq j.stranded
           /\ \A u \in Waiting \ TxsOf(s.writes) : Changes(u) \subseteq NodeView \cup j.stranded,
         j.todo = <<>> =>
           \/ TxsOf(s.writes) = {}
           \/ /\ TxsOf(s.writes) = Waiting
              /\ \A t \in Waiting : Spent(t) \cap JobStranded(page[p].job) = {},
         BaseSound' /\ (store'.base # NoBase => store'.base.chain = 1)
  PROVE  Calm'
<1> DEFINE R == TxsOf(s.writes)
           E == EndedOf(j)
           o == page[p].job
<1>1. /\ store' \in Stores /\ store'.chain = store.chain
      /\ TxsOf(store'.writes) = R \ E
      /\ Range(store'.writes) = {w \in Range(s.writes) : w.tx \notin E}
      /\ E \subseteq TxsOf(j.todo) /\ E \subseteq R /\ ended' = ended \cup T \cup E
      /\ Rest(j) = <<>> => Turned(p, NoJob)
      /\ Rest(j) # <<>> => Turned(p, NextJob(j))
  BY GoOnTurns DEF GoesOn
<1>2. s.writes \in Seq(Writes) /\ store.writes \in Seq(Writes) /\ j.todo \in Seq(Writes)
  BY StoreFields DEF Typed, Jobs
<1>3. R \subseteq Waiting
  <2>1. R = {w.tx : w \in Range(s.writes)}
    BY <1>2, TxsOfIs
  <2>2. Waiting = {w.tx : w \in Range(store.writes)}
    BY <1>2, TxsOfIs DEF Waiting
  <2> QED BY <2>1, <2>2
<1>4. Waiting' = R \ E
  BY <1>1 DEF Waiting
<1>5. \A w \in Range(store'.writes) : w.chain = 1
  <2>1. \A w \in Range(store.writes) : w.chain = 1
    BY DEF Calm, OneChain, Range
  <2> QED BY <1>1, <2>1
<1>6. ended' \cap (Waiting' \cup Taken) = {}
  <2>1. ended \cap (Waiting \cup Taken) = {}
    BY DEF Calm, Apart, Live
  <2> QED BY <1>1, <1>3, <1>4, <2>1
<1>7. JobTx(NoJob) = {} /\ JobUnheard(NoJob) = {} /\ JobStranded(NoJob) = {}
  BY DEF JobTx, JobUnheard, JobStranded
<1>8. CASE Rest(j) = <<>>
  <2>1. Turned(p, NoJob)
    BY <1>1, <1>8
  <2>2. Waiting' = {} \/ (Waiting' = Waiting /\ \A t \in Waiting : Spent(t) \cap JobStranded(o) = {})
    <3>1. CASE j.todo = <<>>
      <4>1. E = {}
        BY <1>1, <3>1 DEF TxsOf
      <4> QED BY <1>4, <3>1, <4>1
    <3>2. CASE j.todo # <<>>
      <4>1. Range(j.todo) = Range(s.writes)
        BY <3>2 DEF GoesOn
      <4>2. Range(Rest(j)) = {w \in Range(j.todo) : w.tx \notin E}
        BY <1>2, RestIs DEF GoesOn
      <4>3. Range(Rest(j)) = {}
        BY <1>8 DEF Range
      <4>4. R = {w.tx : w \in Range(s.writes)}
        BY <1>2, TxsOfIs
      <4> HIDE DEF R, E
      <4>5. R \ E = {}
        BY <4>1, <4>2, <4>3, <4>4
      <4> QED BY <1>4, <4>5
    <3> QED BY <3>1, <3>2
  <2>3. Waiting' \subseteq Waiting /\ Waiting' \cap Taken = {}
    BY <1>3, <1>4
  <2> HIDE DEF R, E
  <2> QED BY <1>1, <1>5, <1>6, <1>7, <2>1, <2>2, <2>3, CalmTurn
<1>9. CASE Rest(j) # <<>>
  <2> PICK n : n = NextJob(j)
    OBVIOUS
  <2>1. Turned(p, n)
    BY <1>1, <1>9
  <2>2. /\ n \in Jobs /\ n.kind = "flush" /\ n.pc = "send" /\ n.chain = j.chain
        /\ n.todo = Rest(j) /\ n.stranded = j.stranded \cup ChangesOf(E)
    BY NextJobIs DEF GoesOn
  <2>3. JobTx(n) = {} /\ JobUnheard(n) = {} /\ JobStranded(n) = n.stranded /\ n # NoJob
    BY <2>2, WalletAssumption DEF JobTx, JobUnheard, JobStranded
  <2>4. j.todo # <<>>
    <3> SUFFICES ASSUME j.todo = <<>> PROVE FALSE
      OBVIOUS
    <3>1. Rest(j) \in Seq(Writes) /\ Range(Rest(j)) = {w \in Range(j.todo) : w.tx \notin E}
      BY <1>2, RestIs DEF GoesOn
    <3>2. Range(j.todo) = {}
      BY DEF Range
    <3>3. Range(Rest(j)) = {}
      BY <3>1, <3>2
    <3>4. 1 \in DOMAIN Rest(j)
      BY <1>9, <3>1
    <3> QED BY <3>3, <3>4 DEF Range
  <2>5. /\ j.chain = 1 /\ JobStranded(o) \subseteq j.stranded
        /\ \A u \in Waiting \ R : Changes(u) \subseteq NodeView \cup j.stranded
    BY <2>4
  <2>6. Waiting' \subseteq Waiting /\ Waiting' \cap Taken = {}
    BY <1>3, <1>4
  <2>7. \A u \in Waiting : u \notin Waiting' => Changes(u) \subseteq NodeView \cup n.stranded
    <3> TAKE u \in Waiting
    <3> HAVE u \notin Waiting'
    <3>1. CASE u \in Waiting \ R
      BY <2>2, <2>5, <3>1
    <3>2. CASE u \in E
      BY <2>2, <3>2 DEF ChangesOf
    <3> QED BY <1>4, <3>1, <3>2
  <2>8. Orderly(n)'
    <3>1. Ordered(j.todo)
      BY DEF GoesOn
    <3>2. Rest(j) \in Seq(Writes) /\ Range(Rest(j)) = {w \in Range(j.todo) : w.tx \notin E}
      BY <1>2, <3>1, RestIs
    <3>3. Spent(Rest(j)[1].tx) \cap n.stranded = {}
      BY <1>2, <1>9, <2>2, <3>1, NextClear
    <3>4. Rest(j)[1] \in Range(Rest(j)) /\ Head(n.todo) = Rest(j)[1]
      BY <1>9, <2>2, <3>2 DEF Range
    <3>5. Head(n.todo).tx \in R
      <4>1. Head(n.todo) \in Range(s.writes)
        BY <2>4, <3>2, <3>4 DEF GoesOn
      <4>2. R = {w.tx : w \in Range(s.writes)}
        BY <1>2, TxsOfIs
      <4> QED BY <4>1, <4>2
    <3>6. Sends(n) = Head(n.todo).tx /\ Taken' = Taken
      BY <2>2, SameNode DEF Sends
    <3>7. \A t : Spent(t)' = Spent(t)
      BY SameNode
    <3> QED BY <2>2, <3>3, <3>4, <3>5, <3>6, <3>7 DEF Orderly
  <2>9. \A t \in Waiting' : Spent(t) \cap JobStranded(o) \subseteq n.stranded
    BY <2>2, <2>5
  <2>10. \A q \in Pages \ {p} : page[q].job = NoJob
    BY <2>1 DEF Turned
  <2> HIDE DEF R, E, o
  <2>11. Waiting' \cup JobTx(n) \subseteq Waiting /\ (Waiting' \cup JobTx(n)) \cap Taken \subseteq JobUnheard(n)
    BY <2>3, <2>6
  <2>12. ended' \cap (Waiting' \cup Taken \cup JobTx(n)) = {} /\ JobUnheard(n) \subseteq Taken
    BY <1>6, <2>3
  <2>13. n.chain = 1
    BY <2>2, <2>5
  <2> QED BY <1>1, <1>5, <2>1, <2>3, <2>7, <2>8, <2>9, <2>11, <2>12, <2>13, CalmTurn DEF o
<1> QED BY <1>8, <1>9

LEMMA TakeTurnKeeps ==
  ASSUME IInv, NEW p \in Pages, TakeTurn(p)
  PROVE  IInv'
<1> DEFINE e == OrphansReleased(store, page[p].entries, page[p].tip)
<1>1. Typed /\ page \in [Pages -> PageStates] /\ page[p] \in PageStates /\ store \in Stores
      /\ UNCHANGED <<lock, node, txs, ended, clean, used>>
  BY DEF IInv, Typed, TakeTurn
<1>2. e \in Marks
  <2>1. page[p].entries \in Marks
    BY <1>1 DEF PageStates
  <2> QED BY <2>1, MarksKept
<1>3. \/ /\ page' = [page EXCEPT ![p].inFlight = FALSE, ![p].entries = e]
         /\ store' = Persisted(store, p, e)
      \/ page' = [page EXCEPT ![p].passChain = page[p].tipChain] /\ store' = store
  BY DEF TakeTurn
<1> HIDE DEF e
<1>4. PICK r \in PageStates :
        page' = [page EXCEPT ![p] = r] /\ r.job = page[p].job /\ r.open = page[p].open
        /\ Named(r) \subseteq Named(page[p])
  <2>1. CASE page' = [page EXCEPT ![p].inFlight = FALSE, ![p].entries = e]
    <3> DEFINE r == [page[p] EXCEPT !.inFlight = FALSE, !.entries = e]
    <3>1. r \in PageStates /\ r.job = page[p].job /\ r.open = page[p].open /\ Named(r) = Named(page[p])
      BY <1>1, <1>2 DEF PageStates, Named
    <3>2. page' = [page EXCEPT ![p] = r]
      BY <1>1, <2>1
    <3> HIDE DEF r
    <3> QED BY <3>1, <3>2
  <2>2. CASE page' = [page EXCEPT ![p].passChain = page[p].tipChain]
    <3> DEFINE r == [page[p] EXCEPT !.passChain = page[p].tipChain]
    <3>1. r \in PageStates /\ r.job = page[p].job /\ r.open = page[p].open
          /\ Named(r) \subseteq Named(page[p])
      BY <1>1 DEF PageStates, Named
    <3>2. page' = [page EXCEPT ![p] = r]
      BY <1>1, <2>2
    <3> HIDE DEF r
    <3> QED BY <3>1, <3>2
  <2> QED BY <1>3, <2>1, <2>2
<1>5. /\ page' \in [Pages -> PageStates] /\ \A q \in Pages : page'[q].job = page[q].job /\ (page[q].open => page'[q].open)
      /\ page'[p] = r /\ \A q \in Pages \ {p} : page'[q] = page[q]
  BY <1>1, <1>4, PageFields
<1>6. store' \in Stores /\ store'.base = store.base /\ store'.writes = store.writes
      /\ store'.chain = store.chain
  BY <1>1, <1>2, <1>3, PersistedIs
<1>7. Typed'
  BY <1>1, <1>5, <1>6 DEF Typed
<1>8. \A q \in Pages : Named(page'[q]) \subseteq Named(page[q]) \cup {1, NoChain}
  BY <1>4, <1>5
<1>9. Taken' = Taken
  BY <1>1 DEF Taken
<1> QED BY <1>1, <1>5, <1>6, <1>7, <1>8, <1>9, StillKeeps

LEMMA BeginFlushKeeps ==
  ASSUME IInv, NEW p \in Pages, BeginFlush(p)
  PROVE  IInv'
<1>1. /\ Typed /\ Placed /\ store \in Stores /\ page[p] \in PageStates /\ clean \in BOOLEAN
      /\ used \in Nat /\ lock = NoPage /\ page[p].open /\ page[p].passChain # NoChain
      /\ UNCHANGED <<node, txs, clean, used>>
  BY DEF IInv, Typed, BeginFlush, HasTurn
<1> DEFINE j == PassOf(p)
<1>2. GoOn(p, store, page[p].entries, j, {})
  BY DEF BeginFlush
<1>3. j \in Jobs
  <2>1. store.writes \in Seq(Writes) /\ page[p].passChain \in Chains \cup {NoChain}
    BY <1>1, StoreFields DEF PageStates
  <2>2. 0 \in 0 .. MaxTxs
    BY WalletAssumption
  <2> QED BY <2>1, <2>2 DEF PassOf, Jobs
<1>4. /\ j.kind = "flush" /\ j.stranded = {} /\ j.chain = page[p].passChain
      /\ j.todo = store.writes /\ j.chain # NoChain
  BY <1>1 DEF PassOf
<1> HIDE DEF j
<1>5. page[p].entries \in Marks
  BY <1>1 DEF PageStates
<1>6. Ordered(store.writes)
  BY <1>1 DEF Placed
<1>7. Ordered(j.todo)
  BY <1>4, <1>6 DEF Ordered
<1>8. GoesOn(p, store, page[p].entries, j, {})
  BY <1>1, <1>2, <1>4, <1>6, <1>7 DEF GoesOn
<1>9. Waiting = TxsOf(store.writes)
  BY DEF Waiting
<1>10. Typed' /\ Placed'
  BY <1>1, <1>3, <1>5, <1>8, <1>9, PassTypes
<1>11. ASSUME clean' PROVE Calm'
  <2>1. Calm
    BY <1>1, <1>11 DEF IInv
  <2>2. Unheard = {} /\ JobStranded(page[p].job) = {}
    BY <1>1, NobodyAtWork DEF JobStranded
  <2>3. TxsOf(store.writes) \cap Taken = {}
    BY <1>9, <2>1, <2>2 DEF Calm, Apart
  <2>4. BaseSound' /\ (store'.base # NoBase => store'.base.chain = 1)
    <3>1. Unheard' = {} /\ store'.base = store.base
      BY <1>1, <1>3, <1>5, <1>8, PassUnheard
    <3> QED BY <1>1, <2>1, <2>2, <3>1, BaseKept DEF Calm, OneChain
  <2>5. j.chain = 1
    BY <1>4, <2>1 DEF Calm, OneChain, Named
  <2> QED BY <1>1, <1>3, <1>4, <1>5, <1>8, <1>9, <2>1, <2>2, <2>3, <2>4, <2>5, PassCalm
<1> QED BY <1>10, <1>11 DEF IInv

(* A pass cut short leaves the rest waiting. *)
LEMMA PassCut ==
  ASSUME Typed, Placed, NEW p \in Pages, Working(p), page[p].job.kind = "flush",
         GoOn(p, store, page[p].entries, [page[p].job EXCEPT !.todo = <<>>], {}),
         UNCHANGED <<node, txs>>, clean' \in BOOLEAN, used' \in Nat,
         clean' => Calm /\ page[p].job.pc # "taken" /\ ~ForgetsStranded(p)
  PROVE  IInv'
<1> PICK o : o = page[p].job
  OBVIOUS
<1> PICK j : j = [o EXCEPT !.todo = <<>>]
  OBVIOUS
<1>1. store \in Stores /\ page[p].entries \in Marks /\ o \in Jobs /\ page[p].open /\ o # NoJob
  BY DEF Typed, PageStates, Working, Placed, JobPlaced
<1>2. /\ j \in Jobs /\ j.kind = "flush" /\ j.todo = <<>>
  <2>1. <<>> \in Seq(Writes)
    OBVIOUS
  <2> QED BY <1>1, <2>1 DEF Jobs
<1>3. GoesOn(p, store, page[p].entries, j, {})
  BY <1>1, <1>2 DEF GoesOn, Placed, Ordered
<1>4. Waiting = TxsOf(store.writes)
  BY DEF Waiting
<1>5. Typed' /\ Placed'
  BY <1>1, <1>2, <1>3, <1>4, PassTypes
<1>6. ASSUME clean' PROVE Calm'
  <2>1. Calm /\ o.pc # "taken" /\ ~ForgetsStranded(p)
    BY <1>6
  <2>2. Unheard = {}
    <3>1. Unheard = JobUnheard(o)
      BY OthersIdle, SetsBefore
    <3> QED BY <2>1, <3>1 DEF JobUnheard
  <2>3. TxsOf(store.writes) \cap Taken = {}
    BY <1>4, <2>1, <2>2 DEF Calm, Apart
  <2>4. BaseSound' /\ (store'.base # NoBase => store'.base.chain = 1)
    <3>1. Unheard' = {} /\ store'.base = store.base
      BY <1>1, <1>2, <1>3, PassUnheard
    <3> QED BY <2>1, <2>2, <3>1, BaseKept DEF Calm, OneChain
  <2>5. \A t \in Waiting : Spent(t) \cap JobStranded(page[p].job) = {}
    <3>1. Waiting = {w.tx : w \in Range(store.writes)}
      BY <1>1, <1>4, StoreFields, TxsOfIs
    <3>2. \A w \in Range(store.writes) : Spent(w.tx) \cap page[p].job.stranded = {}
      BY <1>1, <2>1 DEF ForgetsStranded
    <3>3. JobStranded(page[p].job) = page[p].job.stranded
      BY <1>1 DEF JobStranded
    <3> QED BY <3>1, <3>2, <3>3
  <2> QED BY <1>1, <1>2, <1>3, <1>4, <2>1, <2>3, <2>4, <2>5, PassCalm
<1> QED BY <1>5, <1>6 DEF IInv

(* What no answer means for each job. *)
LEMMA UnansweredKeeps ==
  ASSUME IInv, NEW p \in Pages, Working(p), EndedUnanswered(p),
         UNCHANGED <<node, txs>>, clean' \in BOOLEAN, used' \in Nat,
         clean' => clean /\ page[p].job.pc # "taken" /\ ~ForgetsStranded(p)
  PROVE  IInv'
<1>1. Typed /\ Placed /\ (clean' => Calm)
  BY DEF IInv
<1>2. page[p].job.kind # "flush" => FlowPlaced(page[p].job)
  BY <1>1 DEF Placed, JobPlaced, Working
<1>3. CASE page[p].job.kind = "press" /\ KeepWaiting(p) /\ UNCHANGED ended
  <2>1. page[p].job.kind # "flush"
    BY <1>3
  <2> QED BY <1>1, <1>2, <1>3, <2>1, KeepWaitingKeeps
<1>4. CASE /\ page[p].job.kind = "burn" /\ Finish(p, store, page[p].entries)
           /\ ended' = ended \cup {page[p].job.tx}
  <2>1. page[p].job.kind # "flush"
    BY <1>4
  <2> QED BY <1>1, <1>2, <1>4, <2>1, FlowEnds
<1>5. CASE /\ page[p].job.kind = "flush"
           /\ GoOn(p, store, page[p].entries, [page[p].job EXCEPT !.todo = <<>>], {})
  BY <1>1, <1>5, PassCut
<1> QED BY <1>3, <1>4, <1>5 DEF EndedUnanswered

LEMMA NotReachedKeeps ==
  ASSUME IInv, NEW p \in Pages, NotReached(p)
  PROVE  IInv'
<1>1. /\ Working(p) /\ EndedUnanswered(p) /\ UNCHANGED <<node, txs, used>> /\ page[p].job.pc = "send"
      /\ clean' = (clean /\ ~ForgetsStranded(p))
  BY DEF NotReached, Working
<1>2. used \in Nat /\ clean' \in BOOLEAN
  BY <1>1 DEF IInv, Typed
<1>3. page[p].job.pc # "taken"
  BY <1>1
<1>4. clean' => clean /\ ~ForgetsStranded(p)
  BY <1>1
<1> QED BY <1>1, <1>2, <1>3, <1>4, UnansweredKeeps

LEMMA AnswerLostKeeps ==
  ASSUME IInv, NEW p \in Pages, AnswerLost(p)
  PROVE  IInv'
<1>1. /\ Working(p) /\ EndedUnanswered(p) /\ UNCHANGED <<node, txs>> /\ used' = used + 1
      /\ clean' = (clean /\ page[p].job.pc # "taken" /\ ~ForgetsStranded(p))
  BY DEF AnswerLost, Working
<1>2. used' \in Nat /\ clean' \in BOOLEAN
  BY <1>1 DEF IInv, Typed
<1>4. clean' => clean /\ page[p].job.pc # "taken" /\ ~ForgetsStranded(p)
  BY <1>1
<1> QED BY <1>1, <1>2, <1>4, UnansweredKeeps

LEMMA AnsweredFlushKeeps ==
  ASSUME IInv, NEW p \in Pages, AnsweredFlush(p)
  PROVE  IInv'
<1> PICK o : o = page[p].job
  OBVIOUS
<1> PICK w : w = Head(o.todo)
  OBVIOUS
<1>1. /\ Typed /\ Placed /\ Working(p) /\ o # NoJob /\ o.kind = "flush" /\ o \in Jobs
      /\ store \in Stores /\ page[p].entries \in Marks /\ UNCHANGED <<node, txs, clean, used>>
      /\ clean \in BOOLEAN /\ used \in Nat
  BY DEF IInv, Typed, AnsweredFlush, Working, PageStates
<1>2. PassPlaced(o) /\ page[p].open
  BY <1>1 DEF Placed, JobPlaced
<1>3. o.todo \in Seq(Writes) /\ store.writes \in Seq(Writes) /\ Ordered(o.todo) /\ o.todo # <<>>
      /\ Range(o.todo) = Range(store.writes) /\ Ordered(store.writes)
  BY <1>1, <1>2, StoreFields DEF Jobs, PassPlaced, Placed
<1> PICK r : r = Tail(o.todo)
  OBVIOUS
<1>4. /\ r \in Seq(Writes) /\ Ordered(r) /\ w \in Range(store.writes) /\ w \in Writes
      /\ Range(r) = {v \in Range(store.writes) : v.tx # w.tx}
  BY <1>3, TailIs
<1> PICK t : t = w.tx
  OBVIOUS
<1>5. t \in TxIds /\ Waiting = {v.tx : v \in Range(store.writes)} /\ Waiting = TxsOf(store.writes) /\ t \in Waiting
  <2>1. Waiting = {v.tx : v \in Range(store.writes)} /\ Waiting = TxsOf(store.writes)
    BY <1>3, TxsOfIs DEF Waiting
  <2> QED BY <1>4, <2>1 DEF Writes
<1>6. ASSUME Calm
      PROVE  /\ w.chain = 1 /\ o.chain = 1 /\ Flown = {} /\ Unheard = JobUnheard(o) /\ Orderly(o)
             /\ Sends(o) = t
  <2>1. Flown = JobTx(o) /\ Unheard = JobUnheard(o)
    BY <1>1, OthersIdle, SetsBefore
  <2> QED BY <1>1, <1>4, <1>6, <2>1 DEF Calm, OneChain, Range, JobTx, Sends
<1>7. CASE o.pc = "taken"
  <2> DEFINE a == AbsorbSent(store, t, w.chain)
             s == Drop(a, {t})
             e == Released(page[p].entries, {t})
  <2> PICK j : j = [o EXCEPT !.todo = r]
    OBVIOUS
  <2>1. GoOn(p, s, e, j, {})
    <3>1. j = [o EXCEPT !.todo = Tail(@)]
      BY <1>1 DEF Jobs
    <3> QED BY <1>7, <3>1 DEF AnsweredFlush, Absorb
  <2>2. e \in Marks
    BY <1>1, MarksKept
  <2>3. /\ j \in Jobs /\ j.kind = "flush" /\ j.todo = r /\ j.stranded = o.stranded /\ j.chain = o.chain
    BY <1>1, <1>4 DEF Jobs
  <2>4. a \in Stores /\ a.writes = store.writes /\ a.chain = store.chain
    BY <1>1, <1>5, AbsorbSentIs
  <2>5. a.base = AbsorbSent(store, t, w.chain).base
    OBVIOUS
  <2> HIDE DEF a, e
  <2>6. /\ s \in Stores /\ s.base = a.base /\ s.chain = store.chain
        /\ Range(s.writes) = {v \in Range(store.writes) : v.tx # t}
        /\ TxsOf(s.writes) = Waiting \ {t} /\ Ordered(s.writes)
    <3>1. /\ s \in Stores /\ s.base = a.base /\ s.chain = a.chain
          /\ Range(s.writes) = {v \in Range(a.writes) : v.tx \notin {t}}
          /\ TxsOf(s.writes) = TxsOf(a.writes) \ {t} /\ (Ordered(a.writes) => Ordered(s.writes))
      BY <2>4, DropIs
    <3> HIDE DEF s
    <3> QED BY <1>3, <1>5, <2>4, <3>1
  <2> HIDE DEF s
  <2>7. GoesOn(p, s, e, j, {})
    BY <1>1, <1>2, <1>4, <2>1, <2>3, <2>6 DEF GoesOn
  <2>8. Typed' /\ Placed'
    BY <1>1, <2>2, <2>3, <2>6, <2>7, PassTypes
  <2>9. ASSUME clean' PROVE Calm'
    <3>1. Calm
      BY <1>1, <2>9 DEF IInv
    <3>2. Unheard = {t} /\ w.chain = 1 /\ o.chain = 1 /\ Flown = {}
      BY <1>1, <1>6, <1>7, <3>1 DEF JobUnheard
    <3>3. TxsOf(s.writes) \cap Taken = {} /\ t \in Taken
      BY <1>5, <2>6, <3>1, <3>2 DEF Calm, Apart
    <3>4. Unheard' = {} /\ store'.base = AbsorbSent(store, t, 1).base
      BY <1>1, <2>2, <2>3, <2>5, <2>6, <2>7, <3>2, PassUnheard
    <3>5. BaseSound' /\ (store'.base # NoBase => store'.base.chain = 1)
      BY <1>1, <1>5, <3>1, <3>2, <3>4, BaseCaughtUp DEF Calm
    <3>6. Changes(t) \subseteq NodeView
      <4>1. Changes(t) \subseteq {Change(t)}
        BY <1>5, ChangeType, WalletAssumption DEF TxIds
      <4>2. \A u \in Taken : Change(t) \notin Spent(u)
        BY <1>5, <3>1 DEF Calm, Fresh
      <4> QED BY <3>3, <4>1, <4>2 DEF NodeView
    <3>7. JobStranded(o) = o.stranded
      BY <1>1 DEF JobStranded
    <3>8. \A u \in Waiting \ TxsOf(s.writes) : u = t
      BY <2>6
    <3>9. j.todo = <<>> => TxsOf(s.writes) = {}
      <4> SUFFICES ASSUME r = <<>> PROVE TxsOf(s.writes) = {}
        BY <2>3
      <4>3. Range(r) = {}
        BY DEF Range
      <4>1. Range(s.writes) = {}
        BY <1>4, <2>6, <4>3
      <4>2. s.writes \in Seq(Writes)
        BY <2>6, StoreFields
      <4> QED BY <4>1, <4>2, TxsOfIs
    <3>10. Range(s.writes) \subseteq Range(store.writes)
      BY <2>6
    <3> QED BY <1>1, <2>2, <2>3, <2>6, <2>7, <3>1, <3>2, <3>3, <3>5, <3>6, <3>7, <3>8, <3>9, <3>10, PassCalm
  <2> QED BY <2>8, <2>9 DEF IInv
<1>8. CASE o.pc \in {"refused", "clash"}
  <2> DEFINE s == Drop(store, {t})
             e == [page[p].entries EXCEPT ![t] = "none"]
  <2> PICK j : j = [o EXCEPT !.todo = r, !.stranded = o.stranded \cup Changes(t)]
    OBVIOUS
  <2>1. GoOn(p, s, e, j, {t})
    <3>1. j = [[o EXCEPT !.todo = Tail(@)] EXCEPT !.stranded = @ \cup Changes(t)]
      BY <1>1 DEF Jobs
    <3>2. o.pc # "taken"
      BY <1>8
    <3> QED BY <1>8, <3>1, <3>2 DEF AnsweredFlush
  <2>2. e \in Marks
    BY <1>1, <1>5, MarksKept
  <2>3. /\ j \in Jobs /\ j.kind = "flush" /\ j.todo = r /\ j.stranded = o.stranded \cup Changes(t)
        /\ j.chain = o.chain
    <3>1. Changes(t) \subseteq Boxes
      BY <1>5, ChangeType, WalletAssumption DEF TxIds
    <3> DEFINE x == o.stranded \cup Changes(t)
    <3>2. x \subseteq Boxes
      BY <1>1, <3>1 DEF Jobs
    <3> HIDE DEF x
    <3>3. j = [o EXCEPT !.todo = r, !.stranded = x]
      BY DEF x
    <3>4. j \in Jobs /\ j.kind = "flush" /\ j.todo = r /\ j.stranded = x /\ j.chain = o.chain
      BY <1>1, <1>4, <3>2, <3>3 DEF Jobs
    <3> QED BY <3>4 DEF x
  <2> HIDE DEF e
  <2>6. /\ s \in Stores /\ s.base = store.base /\ s.chain = store.chain
        /\ Range(s.writes) = {v \in Range(store.writes) : v.tx # t}
        /\ TxsOf(s.writes) = Waiting \ {t} /\ Ordered(s.writes)
    <3>1. /\ s \in Stores /\ s.base = store.base /\ s.chain = store.chain
          /\ Range(s.writes) = {v \in Range(store.writes) : v.tx \notin {t}}
          /\ TxsOf(s.writes) = TxsOf(store.writes) \ {t} /\ (Ordered(store.writes) => Ordered(s.writes))
      BY <1>1, DropIs
    <3> HIDE DEF s
    <3> QED BY <1>3, <1>5, <3>1
  <2> HIDE DEF s
  <2>7. GoesOn(p, s, e, j, {t})
    BY <1>1, <1>2, <1>4, <2>1, <2>3, <2>6 DEF GoesOn
  <2>8. Typed' /\ Placed'
    BY <1>1, <1>5, <2>2, <2>3, <2>6, <2>7, PassTypes
  <2>9. ASSUME clean' PROVE Calm'
    <3>1. Calm
      BY <1>1, <2>9 DEF IInv
    <3>2. Unheard = {} /\ w.chain = 1 /\ o.chain = 1 /\ t \notin Taken
      <4>1. o.pc # "taken"
        BY <1>8
      <4> QED BY <1>6, <3>1, <4>1 DEF JobUnheard, Orderly
    <3>3. TxsOf(s.writes) \cap Taken = {}
      BY <1>5, <2>6, <3>1, <3>2 DEF Calm, Apart
    <3>4. Unheard' = {} /\ store'.base = store.base
      BY <1>1, <2>2, <2>3, <2>6, <2>7, PassUnheard
    <3>5. BaseSound' /\ (store'.base # NoBase => store'.base.chain = 1)
      BY <1>1, <3>1, <3>2, <3>4, BaseKept DEF Calm, OneChain
    <3>7. JobStranded(o) = o.stranded
      BY <1>1 DEF JobStranded
    <3>8. \A u \in Waiting \ TxsOf(s.writes) : Changes(u) \subseteq NodeView \cup j.stranded
      <4>1. \A u \in Waiting \ TxsOf(s.writes) : u = t
        BY <2>6
      <4> QED BY <2>3, <4>1
    <3>11. JobStranded(page[p].job) \subseteq j.stranded /\ j.chain = 1
      BY <2>3, <3>2, <3>7
    <3>12. j.todo # <<>> =>
             /\ j.chain = 1 /\ JobStranded(page[p].job) \subseteq j.stranded
             /\ \A u \in Waiting \ TxsOf(s.writes) : Changes(u) \subseteq NodeView \cup j.stranded
      BY <3>8, <3>11
    <3>9. j.todo = <<>> => TxsOf(s.writes) = {}
      <4> SUFFICES ASSUME r = <<>> PROVE TxsOf(s.writes) = {}
        BY <2>3
      <4>3. Range(r) = {}
        BY DEF Range
      <4>1. Range(s.writes) = {}
        BY <1>4, <2>6, <4>3
      <4>2. s.writes \in Seq(Writes)
        BY <2>6, StoreFields
      <4> QED BY <4>1, <4>2, TxsOfIs
    <3>10. Range(s.writes) \subseteq Range(store.writes) /\ {t} \cap (TxsOf(s.writes) \cup Taken) = {}
      BY <2>6, <3>2
    <3> QED BY <1>1, <2>2, <2>3, <2>6, <2>7, <3>1, <3>3, <3>5, <3>9, <3>10, <3>12, PassCalm
  <2> QED BY <2>8, <2>9 DEF IInv
<1>9. o.pc = "taken" \/ o.pc \in {"refused", "clash"}
  BY DEF AnsweredFlush
<1> QED BY <1>7, <1>8, <1>9

-----------------------------------------------------------------------------
(* A send reaches the node. *)

(* What a send sends is alive; a pass sends the oldest of what waits. *)
LEMMA SendsIs ==
  ASSUME Typed, Placed, NEW p \in Pages, Working(p), page[p].job.pc = "send"
  PROVE  LET j == page[p].job
         IN  /\ j \in Jobs /\ j # NoJob /\ lock = p /\ page[p].open
             /\ Sends(j) \in TxIds /\ Sends(j) \in 1 .. Len(txs)
             /\ Sends(j) \in Waiting \cup JobTx(j)
             /\ j.kind # "flush" => FlowPlaced(j) /\ Sends(j) = j.tx
             /\ j.kind = "flush" => /\ PassPlaced(j) /\ Sends(j) = Head(j.todo).tx
                                    /\ \A u \in Waiting : Sends(j) <= u
<1> PICK j : j = page[p].job
  OBVIOUS
<1>1. /\ j \in Jobs /\ j # NoJob /\ lock = p /\ page[p].open
      /\ IF j.kind = "flush" THEN PassPlaced(j) ELSE FlowPlaced(j)
  BY DEF Typed, PageStates, Working, Placed, JobPlaced
<1>2. CASE j.kind # "flush"
  <2>1. FlowPlaced(j) /\ Sends(j) = j.tx /\ JobTx(j) = {j.tx}
    BY <1>1, <1>2 DEF Sends, JobTx
  <2>2. j.tx \in TxIds /\ j.tx \in 1 .. Len(txs)
    BY <2>1 DEF FlowPlaced, TxIds
  <2> QED BY <1>1, <1>2, <2>1, <2>2
<1>3. CASE j.kind = "flush"
  <2>1. PassPlaced(j) /\ Sends(j) = Head(j.todo).tx
    BY <1>1, <1>3 DEF Sends
  <2>2. j.todo \in Seq(Writes) /\ store.writes \in Seq(Writes) /\ Ordered(j.todo) /\ j.todo # <<>>
        /\ Range(j.todo) = Range(store.writes)
    BY <1>1, <2>1, StoreFields DEF Jobs, Typed, PassPlaced
  <2>3. Waiting = {w.tx : w \in Range(j.todo)} /\ Waiting \subseteq TxIds
    BY <2>2, TxsOfIs DEF Waiting
  <2>4. Head(j.todo) \in Range(j.todo)
    BY <2>2, TailIs
  <2>5. Sends(j) \in Waiting
    BY <2>1, <2>3, <2>4
  <2>6. Sends(j) \in TxIds /\ Sends(j) \in 1 .. Len(txs)
    BY <2>3, <2>5 DEF Placed
  <2>7. ASSUME NEW u \in Waiting PROVE Sends(j) <= u
    <3>1. PICK i \in DOMAIN j.todo : u = j.todo[i].tx
      BY <2>3 DEF Range
    <3>2. 1 \in DOMAIN j.todo /\ i \in Nat /\ i >= 1 /\ Head(j.todo) = j.todo[1]
      BY <2>2
    <3>3. i = 1 \/ 1 < i
      BY <3>2
    <3>4. Sends(j) \in Nat /\ u \in Nat
      <4>1. TxIds \subseteq Nat
        BY WalletAssumption DEF TxIds
      <4> QED BY <2>3, <2>6, <4>1
    <3> QED BY <2>1, <2>2, <3>1, <3>2, <3>3, <3>4 DEF Ordered
  <2> QED BY <1>1, <1>3, <2>1, <2>5, <2>6, <2>7
<1> QED BY <1>2, <1>3

(* The node takes one: its view loses what it spends and gains its change. *)
LEMMA ViewTakes ==
  ASSUME node \in NodeStates, Numbered, Fresh, NEW t \in Waiting \cup Flown, t \in DOMAIN txs, t \in TxIds,
         node' = [node EXCEPT !.pool = @ \cup {t}], txs' = txs
  PROVE  /\ node' \in NodeStates /\ node'.chain = node.chain /\ Taken' = Taken \cup {t}
         /\ NodeView' = (NodeView \ Spent(t)) \cup Changes(t)
         /\ \A u : Spent(u)' = Spent(u)
<1>1. \A u : Spent(u)' = Spent(u)
  BY DEF Spent
<1>2. node' \in NodeStates /\ node'.chain = node.chain /\ Taken' = Taken \cup {t}
  BY DEF NodeStates, Taken
<1>3. Changes(t) \subseteq {Change(t)} /\ Change(t).tx = t /\ t \in Nat
  BY ChangeType, WalletAssumption DEF TxIds
<1>4. Change(t) \notin Spent(t)
  BY <1>3 DEF Numbered
<1>5. \A u \in Taken : Change(t) \notin Spent(u)
  BY DEF Fresh
<1> PICK G : G = Genesis(node.chain)
  OBVIOUS
<1> PICK T : T = Taken
  OBVIOUS
<1> DEFINE C == ChangesOf(T)
           S == SpentOf(T)
<1>6. NodeView = (G \cup C) \ S
  BY DEF NodeView, ChangesOf, SpentOf
<1>7. NodeView' = (G \cup C \cup Changes(t)) \ (S \cup Spent(t))
  <2> PICK U : U = T \cup {t}
    OBVIOUS
  <2>1. ChangesOf(U) = C \cup Changes(t) /\ SpentOf(U) = S \cup Spent(t)
    BY DEF ChangesOf, SpentOf
  <2>2. Taken' = U /\ SpentOf(U)' = SpentOf(U)
    BY <1>1, <1>2 DEF SpentOf
  <2>3. NodeView' = (G \cup ChangesOf(U)) \ SpentOf(U)
    BY <1>2, <2>2 DEF NodeView, ChangesOf, SpentOf, Genesis
  <2> HIDE DEF C, S
  <2> QED BY <2>1, <2>3
<1>8. Changes(t) \cap (S \cup Spent(t)) = {}
  BY <1>3, <1>4, <1>5 DEF SpentOf
<1> HIDE DEF C, S
<1>9. NodeView' = (NodeView \ Spent(t)) \cup Changes(t)
  BY <1>6, <1>7, <1>8
<1> QED BY <1>1, <1>2, <1>9

(* A box of a waiting write or of none yet taken is not with the node. *)
LEMMA NotOffered ==
  ASSUME Typed, NEW t \in TxIds, t \notin Taken
  PROVE  Change(t) \notin NodeView
<1>1. Change(t).tx = t /\ t # 0
  BY ChangeType, WalletAssumption DEF TxIds
<1> QED BY <1>1, NodeViewIs DEF Typed

(* The node takes what a send sends. *)
LEMMA TakenCalm ==
  ASSUME Typed, Placed, Calm, NEW p \in Pages, NEW j \in Jobs, NEW i \in Jobs, NEW t,
         i = page[p].job, Working(p), i.pc = "send", t = Sends(i),
         j = [i EXCEPT !.pc = "taken"], Turned(p, j), Spent(t) \subseteq NodeView,
         node' = [node EXCEPT !.pool = @ \cup {t}], UNCHANGED <<store, txs, ended>>
  PROVE  Calm'
<1>1. /\ i # NoJob /\ t \in TxIds /\ t \in 1 .. Len(txs) /\ t \in Waiting \cup JobTx(i)
  BY SendsIs
<1>2. j # NoJob /\ j.pc = "taken" /\ j.kind = i.kind /\ j.todo = i.todo /\ j.tx = i.tx
      /\ j.stranded = i.stranded /\ j.chain = i.chain
  BY WalletAssumption DEF Jobs
<1>3. Flown = JobTx(i) /\ Unheard = {} /\ Stranded = i.stranded
  <2>1. Flown = JobTx(i) /\ Unheard = JobUnheard(i) /\ Stranded = JobStranded(i)
    BY SetsBefore DEF Turned
  <2> QED BY <1>1, <2>1 DEF JobUnheard, JobStranded
<1>4. Flown' = Flown /\ Unheard' = {t} /\ Stranded' = Stranded
      /\ \A q \in Pages : Working(q)' => page'[q].job = j
  <2>1. Flown' = JobTx(j) /\ Unheard' = JobUnheard(j) /\ Stranded' = JobStranded(j)
        /\ \A q \in Pages : Working(q)' => page'[q].job = j
    BY SetsAfter
  <2>2. JobTx(j) = JobTx(i) /\ JobStranded(j) = i.stranded /\ JobUnheard(j) = {t}
    BY <1>1, <1>2 DEF JobTx, JobStranded, JobUnheard, Sends
  <2> QED BY <1>3, <2>1, <2>2
<1>5. t \in DOMAIN txs /\ t \in Waiting \cup Flown
  BY <1>1, <1>3 DEF Typed
<1>6. /\ node' \in NodeStates /\ node'.chain = node.chain /\ Taken' = Taken \cup {t}
      /\ NodeView' = (NodeView \ Spent(t)) \cup Changes(t)
      /\ \A u : Spent(u)' = Spent(u)
  BY <1>1, <1>5, ViewTakes DEF Typed, Calm
<1>7. Waiting' = Waiting
  BY DEF Waiting
<1>8. (Waiting \cup Flown) \cap Taken = {} /\ t \notin Taken
  BY <1>3, <1>5 DEF Calm, Apart
<1>9. Live' = Live /\ t \in Live
  BY <1>4, <1>5, <1>6, <1>7 DEF Live
<1>10. OneChain'
  <2>1. \A w \in Range(store'.writes) : w.chain = 1
    BY DEF Calm, OneChain, Range
  <2>2. j.kind = "flush" => j.chain = 1
    BY <1>1, <1>2 DEF Calm, OneChain, Working
  <2> QED BY <1>6, <2>1, <2>2, OneChainKept DEF Calm, OneChain, Typed
<1>11. Numbered'
  BY <1>6 DEF Calm, Numbered
<1>12. Disjoint'
  BY <1>6, <1>9 DEF Calm, Disjoint
<1>13. Fresh'
  <2>1. ASSUME NEW u \in Waiting \cup Flown PROVE Change(u) \notin Spent(t)
    <3>1. u \in TxIds
      <4>1. Waiting \subseteq TxIds
        BY StoreFields, TxsOfIs DEF Typed, Waiting
      <4>2. \A x \in JobTx(i) : x \in TxIds
        BY SendsIs DEF JobTx
      <4> QED BY <1>3, <4>1, <4>2
    <3>2. Change(u) \notin NodeView
      BY <1>8, <3>1, NotOffered
    <3> QED BY <3>2
  <2> QED BY <1>4, <1>6, <1>7, <2>1 DEF Calm, Fresh
<1>14. Available'
  <2> SUFFICES ASSUME NEW u \in Waiting \cup Flown, u \notin Taken, u # t
               PROVE  Spent(u) \subseteq NodeView' \cup ChangesOf(Waiting) \cup Stranded
    BY <1>4, <1>6, <1>7 DEF Available, ChangesOf
  <2>1. Spent(u) \subseteq NodeView \cup ChangesOf(Waiting) \cup Stranded
    BY DEF Calm, Available
  <2>2. Spent(u) \cap Spent(t) = {}
    BY <1>9 DEF Calm, Disjoint, Live
  <2> QED BY <1>6, <2>1, <2>2
<1>15. Apart'
  BY <1>4, <1>6, <1>7, <1>8, <1>9 DEF Calm, Apart
<1>16. BaseSound'
  <2> SUFFICES ASSUME store.base # NoBase
               PROVE  LET have == Range(store.base.spendable)
                      IN  /\ IsInjective(store.base.spendable)
                          /\ NodeView' = (have \ Spent(t)) \cup Changes(t)
                          /\ Change(t) \notin have
    BY <1>4, <1>6 DEF BaseSound, ChangesOf
  <2>1. IsInjective(store.base.spendable) /\ Range(store.base.spendable) = NodeView
    <3>1. UNION {Spent(u) : u \in Unheard} = {} /\ ChangesOf(Unheard) = {}
      BY <1>3 DEF ChangesOf
    <3> QED BY <3>1 DEF Calm, BaseSound
  <2> QED BY <1>1, <1>6, <1>8, <2>1, NotOffered
<1>17. Orderly(j)'
  <2>1. Orderly(i)
    BY DEF Calm
  <2> QED BY <1>2, <1>6, <2>1 DEF Orderly
<1>18. \A q \in Pages : Working(q)' => Orderly(page[q].job)'
  BY <1>4, <1>17 DEF Orderly
<1> QED BY <1>10, <1>11, <1>12, <1>13, <1>14, <1>15, <1>16, <1>18 DEF Calm

(* What the node refuses for a box spends one a waiting write makes: a press. *)
LEMMA ClashIs ==
  ASSUME Typed, Placed, Calm, NEW p \in Pages, Working(p), page[p].job.pc = "send",
         "clash" \in Verdicts(Sends(page[p].job))
  PROVE  page[p].job.kind = "press" /\ ChangesOf(Waiting) \cap Spent(page[p].job.tx) # {}
<1> PICK j : j = page[p].job
  OBVIOUS
<1> PICK t : t = Sends(j)
  OBVIOUS
<1>1. /\ j \in Jobs /\ j # NoJob /\ t \in TxIds /\ t \in 1 .. Len(txs) /\ t \in Waiting \cup JobTx(j)
      /\ j.kind # "flush" => FlowPlaced(j) /\ t = j.tx
      /\ j.kind = "flush" => t = Head(j.todo).tx /\ \A u \in Waiting : t <= u
  BY SendsIs
<1>2. Flown = JobTx(j) /\ Stranded = j.stranded /\ Unheard = {}
  <2>1. Flown = JobTx(j) /\ Unheard = JobUnheard(j) /\ Stranded = JobStranded(j)
    BY OthersIdle, SetsBefore
  <2>2. j.pc # "taken"
    OBVIOUS
  <2> QED BY <1>1, <2>1, <2>2 DEF JobUnheard, JobStranded
<1>3. t \in DOMAIN txs
  BY <1>1 DEF Typed
<1>4. IsInjective(txs[t]) /\ \A b \in Spent(t) : b.tx < t
  BY <1>3 DEF Calm, Numbered
<1>5. ~(Spent(t) \subseteq NodeView)
  BY <1>4 DEF Verdicts
<1>6. t \notin Taken
  BY <1>1, <1>2 DEF Calm, Apart
<1>7. Orderly(j)
  BY DEF Calm
<1>8. PICK b \in Spent(t) : b \in ChangesOf(Waiting) \cup j.stranded
  BY <1>1, <1>2, <1>5, <1>6 DEF Calm, Available
<1>9. CASE j.kind = "flush"
  <2>1. b \in ChangesOf(Waiting)
    BY <1>1, <1>7, <1>8, <1>9 DEF Orderly
  <2>2. PICK u \in Waiting : b \in Changes(u)
    BY <2>1 DEF ChangesOf
  <2>3. u \in Nat /\ t \in Nat /\ t <= u /\ b.tx < t
    <3>1. Waiting \subseteq TxIds
      BY StoreFields, TxsOfIs DEF Typed, Waiting
    <3> QED BY <1>1, <1>4, <1>9, <3>1, WalletAssumption DEF TxIds
  <2>4. b.tx = u
    BY <2>2, <2>3, ChangeType
  <2> QED BY <2>3, <2>4
<1>10. CASE j.kind # "flush"
  <2>1. t = j.tx /\ b \in ChangesOf(Waiting)
    BY <1>1, <1>8, <1>10 DEF FlowPlaced
  <2>2. j.kind # "burn"
    <3> SUFFICES ASSUME j.kind = "burn" PROVE FALSE
      OBVIOUS
    <3>1. Waiting = {}
      BY <1>7 DEF Orderly, Waiting, TxsOf
    <3> QED BY <2>1, <3>1 DEF ChangesOf
  <2>3. j.kind = "press"
    BY <1>1, <1>10, <2>2 DEF Jobs
  <2> QED BY <1>8, <2>1, <2>3
<1> QED BY <1>9, <1>10

LEMMA ReachesKeeps ==
  ASSUME IInv, NEW p \in Pages, Reaches(p)
  PROVE  IInv'
<1> PICK i : i = page[p].job
  OBVIOUS
<1> PICK t : t = Sends(i)
  OBVIOUS
<1>1. /\ Typed /\ Placed /\ Working(p) /\ i.pc = "send" /\ page \in [Pages -> PageStates]
      /\ UNCHANGED <<store, lock, txs, ended, clean, used>> /\ node \in NodeStates
  BY DEF IInv, Typed, Reaches, Working
<1>2. PICK v \in Verdicts(t) :
        /\ page' = [page EXCEPT ![p].job.pc = v]
        /\ node' = IF v = "taken" THEN [node EXCEPT !.pool = @ \cup {t}] ELSE node
  BY DEF Reaches
<1> PICK j : j = [i EXCEPT !.pc = v]
  OBVIOUS
<1>3. /\ i \in Jobs /\ i # NoJob /\ lock = p /\ page[p].open
      /\ t \in TxIds /\ t \in 1 .. Len(txs) /\ t \in Waiting \cup JobTx(i)
      /\ i.kind # "flush" => FlowPlaced(i) /\ t = i.tx
      /\ i.kind = "flush" => PassPlaced(i)
  BY <1>1, SendsIs
<1>4. v \in {"taken", "refused", "clash"}
  BY DEF Verdicts
<1>5. /\ j \in Jobs /\ j # NoJob /\ j.pc = v /\ j.kind = i.kind /\ j.tx = i.tx /\ j.todo = i.todo
      /\ j.stranded = i.stranded /\ j.chain = i.chain
  BY <1>3, <1>4, WalletAssumption DEF Jobs
<1>6. page' = Job(p, j)
  BY <1>1, <1>2 DEF Job, PageStates
<1>7. HasJob(Job(p, j), p, j)
  BY <1>1, <1>5, PageOne
<1>8. Turned(p, j)
  BY <1>1, <1>3, <1>6, <1>7, OthersIdle DEF Turned, HasJob
<1>9. /\ Taken' = IF v = "taken" THEN Taken \cup {t} ELSE Taken
      /\ node' \in NodeStates /\ Waiting' = Waiting
  BY <1>1, <1>2, <1>3 DEF Taken, NodeStates, Waiting
<1>10. Typed'
  BY <1>1, <1>8, <1>9 DEF Typed, Turned
<1>11. JobPlaced(p)'
  <2>1. CASE i.kind = "flush"
    <3>1. PassPlaced(j)'
      BY <1>1, <1>3, <1>4, <1>5, <2>1 DEF PassPlaced
    <3> QED BY <1>1, <1>3, <1>5, <1>8, <2>1, <3>1 DEF JobPlaced, Turned, PassPlaced
  <2>2. CASE i.kind # "flush"
    <3>1. FlowPlaced(j)'
      BY <1>1, <1>3, <1>5, <1>9, <2>2 DEF FlowPlaced
    <3> QED BY <1>1, <1>3, <1>5, <1>8, <2>2, <3>1 DEF JobPlaced, Turned, FlowPlaced
  <2> QED BY <2>1, <2>2
<1>12. Placed'
  BY <1>1, <1>3, <1>8, <1>9, <1>11, TurnPlaced DEF Placed
<1>13. ASSUME clean' PROVE Calm'
  <2>1. Calm
    BY <1>1, <1>13 DEF IInv
  <2>2. Unheard = {} /\ Flown = JobTx(i) /\ Stranded = JobStranded(i) /\ Orderly(i)
    <3>1. Unheard = JobUnheard(i) /\ Flown = JobTx(i) /\ Stranded = JobStranded(i)
      BY <1>8, SetsBefore DEF Turned
    <3> QED BY <1>1, <2>1, <3>1 DEF JobUnheard, Calm
  <2>3. t \notin Taken
    BY <1>3, <2>1, <2>2 DEF Calm, Apart
  <2>4. CASE v = "taken"
    <3>1. Spent(t) \subseteq NodeView
      <4>1. t \notin node.pool
        BY <2>3 DEF Taken
      <4> QED BY <2>4, <4>1 DEF Verdicts
    <3> QED BY <1>1, <1>2, <1>3, <1>5, <1>8, <2>1, <2>4, <3>1, TakenCalm
  <2>5. CASE v # "taken"
    <3>1. node' = node /\ Taken' = Taken
      BY <1>2, <1>9, <2>5
    <3>2. JobTx(j) = JobTx(i) /\ JobUnheard(j) = {} /\ JobStranded(j) = JobStranded(i)
      BY <1>3, <1>5, <2>5 DEF JobTx, JobUnheard, JobStranded
    <3>3. Unheard' = {}
      BY <1>8, <3>2, SetsAfter
    <3>4. BaseSound' /\ (store'.base # NoBase => store'.base.chain = 1)
      BY <1>1, <2>1, <2>2, <3>1, <3>3, BaseKept DEF Calm, OneChain
    <3>5. v = "clash" => i.kind = "press" /\ ChangesOf(Waiting) \cap Spent(i.tx) # {}
      BY <1>1, <2>1, ClashIs
    <3>6. \A u : Spent(u)' = Spent(u)
      BY <1>1 DEF Spent
    <3>7. Orderly(j)'
      <4>1. Sends(j) = t
        BY <1>5 DEF Sends
      <4>2. ChangesOf(Waiting)' = ChangesOf(Waiting)
        BY <1>9 DEF ChangesOf
      <4> QED BY <1>1, <1>5, <2>2, <2>3, <3>1, <3>5, <3>6, <4>1, <4>2 DEF Orderly
    <3>8. \A w \in Range(store'.writes) : w.chain = 1
      BY <1>1, <2>1 DEF Calm, OneChain, Range
    <3>9. i.kind = "flush" => i.chain = 1
      BY <1>1, <2>1 DEF Calm, OneChain
    <3>10. (Waiting \cup JobTx(i)) \cap Taken = {} /\ ended \cap (Waiting \cup Taken \cup JobTx(i)) = {}
      BY <2>1, <2>2 DEF Calm, Apart, Live
    <3>11. store' \in Stores /\ store'.chain = store.chain
      BY <1>1 DEF Typed
    <3> QED BY <1>1, <1>5, <1>8, <1>9, <2>1, <3>1, <3>2, <3>4, <3>7, <3>8, <3>9, <3>10, <3>11, CalmTurn
  <2> QED BY <2>4, <2>5
<1> QED BY <1>10, <1>12, <1>13 DEF IInv

-----------------------------------------------------------------------------
(* Pages open and close, the network starts over. *)

LEMMA OpenKeeps ==
  ASSUME IInv, NEW p \in Pages, Open(p)
  PROVE  IInv'
<1> DEFINE r == [Closed EXCEPT !.open = TRUE, !.entries = store.pending]
<1>1. Typed /\ Placed /\ page \in [Pages -> PageStates] /\ store \in Stores /\ ~page[p].open
      /\ UNCHANGED <<store, lock, node, txs, ended, clean, used>>
  BY DEF IInv, Typed, Open
<1>2. page' = [page EXCEPT ![p] = r]
  BY DEF Open
<1>3. page[p].job = NoJob
  BY <1>1 DEF Placed, JobPlaced
<1>4. r \in PageStates /\ r.job = NoJob /\ r.open /\ Named(r) = {NoChain}
  <2>1. store.pending \in Marks
    BY <1>1, StoreFields
  <2>2. Closed \in PageStates /\ Closed.job = NoJob /\ Named(Closed) = {NoChain}
    BY ClosedIs
  <2> QED BY <2>1, <2>2 DEF PageStates, Named
<1> HIDE DEF r
<1>5. /\ page' \in [Pages -> PageStates]
      /\ \A q \in Pages : page'[q].job = page[q].job /\ (page[q].open => page'[q].open)
      /\ page'[p] = r /\ \A q \in Pages \ {p} : page'[q] = page[q]
  BY <1>1, <1>2, <1>3, <1>4
<1>6. Typed'
  BY <1>1, <1>5 DEF Typed
<1>7. \A q \in Pages : Named(page'[q]) \subseteq Named(page[q]) \cup {1, NoChain}
  BY <1>4, <1>5
<1>8. Taken' = Taken
  BY <1>1 DEF Taken
<1> QED BY <1>1, <1>5, <1>6, <1>7, <1>8, StillKeeps

LEMMA CloseKeeps ==
  ASSUME IInv, NEW p \in Pages, Close(p)
  PROVE  IInv'
<1> PICK i : i = page[p].job
  OBVIOUS
<1>1. /\ Typed /\ Placed /\ page \in [Pages -> PageStates] /\ store \in Stores
      /\ UNCHANGED <<store, node, txs, ended>> /\ lock \in Pages \cup {NoPage}
      /\ page' = [page EXCEPT ![p] = Closed] /\ lock' = IF lock = p THEN NoPage ELSE lock
      /\ used' \in Nat /\ clean' \in BOOLEAN
      /\ clean' => clean /\ (i = NoJob \/ i.pc # "taken") /\ ~ForgetsStranded(p)
  <2>1. /\ Typed /\ Placed /\ page \in [Pages -> PageStates] /\ store \in Stores
        /\ lock \in Pages \cup {NoPage} /\ used \in Nat
    BY DEF IInv, Typed
  <2>2. /\ UNCHANGED <<store, node, txs, ended>> /\ page' = [page EXCEPT ![p] = Closed]
        /\ lock' = IF lock = p THEN NoPage ELSE lock
        /\ used' = used + 1
        /\ clean' = (clean /\ (page[p].job = NoJob \/ page[p].job.pc # "taken") /\ ~ForgetsStranded(p))
    BY DEF Close
  <2>3. clean' \in BOOLEAN /\ (clean' => clean /\ (i = NoJob \/ i.pc # "taken") /\ ~ForgetsStranded(p))
    BY <2>2
  <2>4. used' \in Nat
    BY <2>1, <2>2
  <2> QED BY <2>1, <2>2, <2>3, <2>4
<1>2. Closed \in PageStates /\ Closed.job = NoJob /\ Named(Closed) = {NoChain}
  BY ClosedIs
<1>3. /\ page' \in [Pages -> PageStates] /\ page'[p] = Closed
      /\ \A q \in Pages \ {p} : page'[q] = page[q]
  BY <1>1, <1>2
<1>4. Typed'
  BY <1>1, <1>3 DEF Typed
<1>5. Waiting' = Waiting /\ Taken' = Taken
  BY <1>1 DEF Waiting, Taken
<1>6. \A q \in Pages : JobPlaced(q)'
  <2>1. JobPlaced(p)'
    BY <1>2, <1>3 DEF JobPlaced
  <2>2. ASSUME NEW q \in Pages \ {p} PROVE JobPlaced(q)'
    <3>1. page'[q] = page[q] /\ (page[q].job # NoJob => lock = q /\ lock' = q)
      BY <1>1, <1>3 DEF Placed, JobPlaced
    <3>2. JobPlaced(q)
      BY <1>1 DEF Placed
    <3> QED BY <1>1, <1>5, <3>1, <3>2 DEF JobPlaced, PassPlaced, FlowPlaced
  <2> QED BY <2>1, <2>2
<1>7. Placed'
  BY <1>1, <1>5, <1>6 DEF Placed
<1>8. ASSUME clean' PROVE Calm'
  <2>1. Calm
    BY <1>1, <1>8 DEF IInv
  <2>2. CASE i = NoJob
    <3>1. \A q \in Pages : page'[q].job = page[q].job /\ Named(page'[q]) \subseteq Named(page[q]) \cup {1, NoChain}
      BY <1>2, <1>3, <2>2
    <3> QED BY <1>1, <1>5, <2>1, <3>1, CalmStill
  <2>3. CASE i # NoJob
    <3>1. lock = p /\ \A q \in Pages \ {p} : page[q].job = NoJob
      <4>1. Working(p)
        BY <2>3 DEF Working
      <4> QED BY <1>1, <4>1, OthersIdle DEF Placed, JobPlaced, Working
    <3>2. Turned(p, NoJob)
      BY <1>1, <1>2, <1>3, <3>1 DEF Turned
    <3>3. JobTx(NoJob) = {} /\ JobUnheard(NoJob) = {} /\ JobStranded(NoJob) = {}
      BY DEF JobTx, JobUnheard, JobStranded
    <3>4. Unheard = {} /\ Unheard' = {}
      <4>1. Unheard = JobUnheard(i) /\ Unheard' = JobUnheard(NoJob)
        BY <3>1, <3>2, SetsBefore, SetsAfter
      <4> QED BY <1>1, <1>8, <2>3, <3>3, <4>1 DEF JobUnheard
    <3>5. BaseSound' /\ (store'.base # NoBase => store'.base.chain = 1)
      BY <1>1, <2>1, <3>4, BaseKept DEF Calm, OneChain
    <3>6. Waiting \cap Taken = {} /\ ended \cap (Waiting \cup Taken) = {}
      BY <2>1, <3>4 DEF Calm, Apart, Live
    <3>7. \A w \in Range(store'.writes) : w.chain = 1
      BY <1>1, <2>1 DEF Calm, OneChain, Range
    <3>8. \A t \in Waiting : Spent(t) \cap JobStranded(page[p].job) = {}
      <4>1. Waiting = {w.tx : w \in Range(store.writes)}
        BY <1>1, StoreFields, TxsOfIs DEF Waiting
      <4>2. \A w \in Range(store.writes) : Spent(w.tx) \cap page[p].job.stranded = {}
        BY <1>1, <1>8, <2>3 DEF ForgetsStranded
      <4>3. JobStranded(page[p].job) = page[p].job.stranded
        BY <2>3 DEF JobStranded
      <4> QED BY <4>1, <4>2, <4>3
    <3> QED BY <1>1, <1>5, <2>1, <3>2, <3>3, <3>5, <3>6, <3>7, <3>8, CalmTurn
  <2> QED BY <2>2, <2>3
<1> QED BY <1>4, <1>7, <1>8 DEF IInv

LEMMA NewChainKeeps ==
  ASSUME IInv, NewChain
  PROVE  IInv'
<1> DEFINE n == [chain |-> node.chain + 1, pool |-> {}, confirmed |-> {}]
<1>1. /\ Typed /\ Placed /\ node.chain \in Chains /\ node.chain < LastChain /\ used' \in Nat
      /\ clean' = FALSE /\ UNCHANGED <<store, page, lock, txs, ended>> /\ node' = n
  BY DEF IInv, Typed, NodeStates, NewChain
<1>2. n \in NodeStates
  BY <1>1, WalletAssumption DEF NodeStates, Chains
<1>3. Typed'
  BY <1>1, <1>2 DEF Typed
<1>4. Waiting' = Waiting /\ Taken' = {}
  BY <1>1 DEF Waiting, Taken
<1>5. \A q \in Pages : JobPlaced(q)'
  BY <1>1, <1>4 DEF Placed, JobPlaced, PassPlaced, FlowPlaced
<1>6. Placed'
  BY <1>1, <1>4, <1>5 DEF Placed
<1> QED BY <1>1, <1>3, <1>6 DEF IInv

-----------------------------------------------------------------------------
(* The invariant. *)

LEMMA InitHolds == Init => IInv
<1> SUFFICES ASSUME Init PROVE IInv
  OBVIOUS
<1>1. /\ store = [base |-> NoBase, writes |-> <<>>, pending |-> [t \in TxIds |-> "none"], chain |-> 1]
      /\ page = [p \in Pages |-> [Closed EXCEPT !.open = TRUE, !.tipChain = 1, !.tip = TRUE]]
      /\ lock = NoPage /\ node = [chain |-> 1, pool |-> {}, confirmed |-> {}]
      /\ txs = <<>> /\ ended = {} /\ clean = TRUE /\ used = 0
  BY DEF Init
<1>2. 1 \in Chains
  BY WalletAssumption DEF Chains
<1>3. store \in Stores /\ store.writes = <<>> /\ store.base = NoBase /\ store.chain = 1
  <2>1. [t \in TxIds |-> "none"] \in Marks
    BY DEF Marks
  <2>2. <<>> \in Seq(Writes)
    OBVIOUS
  <2> QED BY <1>1, <1>2, <2>1, <2>2 DEF Stores
<1>4. page \in [Pages -> PageStates] /\ \A p \in Pages : page[p].job = NoJob /\ Named(page[p]) = {1, NoChain}
  <2>1. Closed \in PageStates /\ Closed.job = NoJob /\ Closed.passChain = NoChain
    BY ClosedIs DEF Closed
  <2> DEFINE r == [Closed EXCEPT !.open = TRUE, !.tipChain = 1, !.tip = TRUE]
  <2>2. r \in PageStates /\ r.job = NoJob /\ Named(r) = {1, NoChain}
    BY <1>2, <2>1 DEF PageStates, Named
  <2>3. page = [p \in Pages |-> r]
    BY <1>1
  <2> HIDE DEF r
  <2> QED BY <2>2, <2>3
<1>5. node \in NodeStates /\ node.chain = 1 /\ Taken = {}
  BY <1>1, <1>2 DEF NodeStates, Taken
<1>6. txs \in Seq(Seq(Boxes)) /\ Len(txs) = 0 /\ DOMAIN txs = {}
  <2>1. <<>> \in Seq(Seq(Boxes)) /\ Len(<<>>) = 0 /\ DOMAIN <<>> = {}
    OBVIOUS
  <2> QED BY <1>1, <2>1
<1>7. Typed
  BY <1>1, <1>3, <1>4, <1>5, <1>6, WalletAssumption DEF Typed
<1>8. Waiting = {}
  BY <1>3 DEF Waiting, TxsOf
<1>9. Placed
  BY <1>1, <1>3, <1>4, <1>5, <1>8 DEF Placed, JobPlaced, Ordered
<1>10. Flown = {} /\ Unheard = {} /\ Stranded = {} /\ \A p \in Pages : ~Working(p)
  BY <1>4 DEF Flown, Unheard, Stranded, Working
<1>11. OneChain
  BY <1>3, <1>4, <1>5, <1>10 DEF OneChain
<1>12. Numbered /\ Disjoint /\ Fresh /\ Available /\ Apart /\ BaseSound
  BY <1>1, <1>3, <1>5, <1>6, <1>8, <1>10 DEF Numbered, Disjoint, Fresh, Available, Apart, BaseSound, Live
<1> QED BY <1>7, <1>9, <1>10, <1>11, <1>12 DEF IInv, Calm

LEMMA StepKeeps ==
  ASSUME IInv, [Next]_vars
  PROVE  IInv'
<1>1. CASE UNCHANGED vars
  BY <1>1, StutterKeeps
<1>2. CASE NewChain
  BY <1>2, NewChainKeeps
<1>3. CASE \E t \in DOMAIN txs : BlockTakes(t)
  BY <1>3, BlockTakesKeeps
<1>4. ASSUME NEW p \in Pages,
             \/ PressAnswered(p) \/ PressUnanswered(p) \/ PressBurn(p)
             \/ Declines(p) \/ Signs(p)
             \/ TakeTurn(p) \/ BeginFlush(p) \/ Reaches(p) \/ NotReached(p) \/ AnswerLost(p)
             \/ AnsweredFlow(p) \/ AnsweredFlush(p)
             \/ CornerTick(p) \/ LoadFeed(p) \/ VerifiedTip(p) \/ Reconcile(p)
             \/ Close(p) \/ Open(p)
      PROVE  IInv'
  <2>1. CASE PressAnswered(p)
    BY <2>1, PressAnsweredKeeps
  <2>2. CASE PressUnanswered(p)
    BY <2>2, PressUnansweredKeeps
  <2>3. CASE PressBurn(p)
    BY <2>3, PressBurnKeeps
  <2>4. CASE Declines(p)
    BY <2>4, DeclinesKeeps
  <2>5. CASE Signs(p)
    BY <2>5, SignsKeeps
  <2>6. CASE BeginFlush(p)
    BY <2>6, BeginFlushKeeps
  <2>7. CASE Reaches(p)
    BY <2>7, ReachesKeeps
  <2>8. CASE NotReached(p)
    BY <2>8, NotReachedKeeps
  <2>9. CASE AnswerLost(p)
    BY <2>9, AnswerLostKeeps
  <2>10. CASE AnsweredFlow(p)
    BY <2>10, AnsweredFlowKeeps
  <2>11. CASE AnsweredFlush(p)
    BY <2>11, AnsweredFlushKeeps
  <2>12. CASE CornerTick(p)
    BY <2>12, CornerTickKeeps
  <2>13. CASE LoadFeed(p)
    BY <2>13, LoadFeedKeeps
  <2>14. CASE VerifiedTip(p)
    BY <2>14, VerifiedTipKeeps
  <2>15. CASE Reconcile(p)
    BY <2>15, ReconcileKeeps
  <2>16. CASE Close(p)
    BY <2>16, CloseKeeps
  <2>17. CASE Open(p)
    BY <2>17, OpenKeeps
  <2>18. CASE TakeTurn(p)
    BY <2>18, TakeTurnKeeps
  <2> QED BY <1>4, <2>1, <2>2, <2>3, <2>4, <2>5, <2>6, <2>7, <2>8, <2>9, <2>10, <2>11, <2>12,
             <2>13, <2>14, <2>15, <2>16, <2>17, <2>18
<1> QED BY <1>1, <1>2, <1>3, <1>4 DEF Next

(* The wallet keeps its types, its jobs keep what they read when they took the
   lock, and while it knows the fate of its sends it is calm. *)
THEOREM WalletInvariant == Spec => []IInv
<1>1. Init => IInv
  BY InitHolds
<1>2. IInv /\ [Next]_vars => IInv'
  BY StepKeeps
<1> QED BY <1>1, <1>2, PTL DEF Spec

(* The view a press with no answer would build from (wallet/waiting.ts,
   readsOrWaitingRep) offers each box once, and never one that a transaction
   the node took, or one that waits, has spent: whatever the pages do, in any
   order, while each send's fate is known. *)
THEOREM ViewSoundAlways == Spec => []ViewSound
<1>1. IInv => ViewSound
  <2> SUFFICES ASSUME IInv PROVE ViewSound
    OBVIOUS
  <2>1. Typed /\ Placed
    BY DEF IInv
  <2>2. TypeOK
    <3>1. \A p \in Pages : page[p].job # NoJob => lock = p
      BY <2>1 DEF Placed, JobPlaced
    <3>2. IsInjective([i \in DOMAIN store.writes |-> store.writes[i].tx])
      <4>1. store.writes \in Seq(Writes)
        BY <2>1, StoreFields DEF Typed
      <4>2. \A i \in DOMAIN store.writes : i \in Nat /\ store.writes[i].tx \in Nat
        <5>1. TxIds \subseteq Nat
          BY WalletAssumption DEF TxIds
        <5>2. \A i \in DOMAIN store.writes : store.writes[i] \in Writes /\ i \in Nat
          BY <4>1
        <5> QED BY <5>1, <5>2 DEF Writes
      <4>3. \A i, k \in DOMAIN store.writes : i = k \/ i < k \/ k < i
        BY <4>2
      <4>4. \A i, k \in DOMAIN store.writes : store.writes[i].tx = store.writes[k].tx => i = k
        BY <2>1, <4>2, <4>3 DEF Placed, Ordered
      <4> QED BY <4>4 DEF IsInjective
    <3>3. Taken \subseteq DOMAIN txs
      BY <2>1 DEF Placed, Typed
    <3> QED BY <2>1, <3>1, <3>2, <3>3 DEF TypeOK, Typed
  <2>3. ViewOffersUnspent
    <3> SUFFICES ASSUME clean, lock = NoPage, ReadBase(store, node.chain) # NoBase
                 PROVE  LET view == View(store, node.chain)
                            live == Taken \cup {t \in TxIds : Waits(store, t)}
                        IN  IsInjective(view) /\ Range(view) \cap UNION {Spent(t) : t \in live} = {}
      BY DEF ViewOffersUnspent
    <3>1. Calm /\ node.chain = 1 /\ store.base # NoBase
      BY DEF IInv, Calm, OneChain, ReadBase
    <3>2. store.base.chain = 1 /\ IsInjective(store.base.spendable) /\ Range(store.base.spendable) = NodeView
      BY <2>1, <3>1, BaseAtRest
    <3>3. /\ IsInjective(View(store, 1))
          /\ Range(View(store, 1)) = (NodeView \cup ChangesOf(Waiting)) \ SpentOf(Waiting)
      BY <2>1, <3>1, <3>2, ViewCalm DEF Typed
    <3>4. {t \in TxIds : Waits(store, t)} = Waiting
      <4>1. Waiting \subseteq TxIds
        BY <2>1, StoreFields, TxsOfIs DEF Typed, Waiting
      <4> QED BY <4>1 DEF Waits, Waiting, TxsOf
    <3>5. \A t \in Taken : Range(View(store, 1)) \cap Spent(t) = {}
      <4> SUFFICES ASSUME NEW t \in Taken, NEW b \in NodeView \cup ChangesOf(Waiting)
                   PROVE  b \notin Spent(t)
        BY <3>3
      <4>1. CASE b \in NodeView
        BY <4>1 DEF NodeView
      <4>2. CASE b \in ChangesOf(Waiting)
        <5>1. PICK u \in Waiting : b \in Changes(u)
          BY <4>2 DEF ChangesOf
        <5>2. u \in Nat
          <6>1. Waiting \subseteq TxIds /\ TxIds \subseteq Nat
            BY <2>1, StoreFields, TxsOfIs, WalletAssumption DEF Typed, Waiting, TxIds
          <6> QED BY <6>1
        <5>3. b = Change(u)
          BY <5>1, <5>2, ChangeType
        <5> QED BY <3>1, <5>3 DEF Calm, Fresh
      <4> QED BY <4>1, <4>2
    <3>6. \A t \in Waiting : Range(View(store, 1)) \cap Spent(t) = {}
      BY <3>3 DEF SpentOf
    <3> QED BY <3>1, <3>3, <3>4, <3>5, <3>6
  <2> QED BY <2>2, <2>3 DEF ViewSound
<1> QED BY <1>1, WalletInvariant, PTL

(* A waiting write is refused for what it asks alone, and what the reader is
   told was refused or not sent is not with the node (wallet/flush.ts): the
   lock, the order of the writes and what a pass strands suffice, while each
   send's fate is known. *)
THEOREM RefusedRightlyAlways == Spec => []RefusedRightly
<1>1. IInv => RefusedRightly
  <2> SUFFICES ASSUME IInv PROVE RefusedRightly
    OBVIOUS
  <2>1. ASSUME NEW p \in Pages, clean, page[p].job # NoJob, page[p].job.pc = "clash"
        PROVE  /\ page[p].job.kind = "press"
               /\ \E w \in Range(store.writes) : Changes(w.tx) \cap Spent(page[p].job.tx) # {}
    <3>1. Orderly(page[p].job)
      BY <2>1 DEF IInv, Calm, Working
    <3>2. page[p].job.kind = "press" /\ ChangesOf(Waiting) \cap Spent(page[p].job.tx) # {}
      BY <2>1, <3>1 DEF Orderly
    <3>3. Waiting = {w.tx : w \in Range(store.writes)}
      BY StoreFields, TxsOfIs DEF IInv, Typed, Waiting
    <3> QED BY <3>2, <3>3 DEF ChangesOf
  <2>2. EndedNotTaken
    BY DEF IInv, Calm, Apart, Live, EndedNotTaken
  <2> QED BY <2>1, <2>2 DEF RefusedRightly, RefusedForItself
<1> QED BY <1>1, WalletInvariant, PTL
=============================================================================
