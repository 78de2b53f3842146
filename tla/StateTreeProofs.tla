-------------------------- MODULE StateTreeProofs --------------------------
(***************************************************************************)
(* The node's tables implement AppliedChain.  Three facts carry the proof: *)
(* writeBlockEffects does to the tables what the block does to the ledger  *)
(* (WriteLedger); revertBlock undoes exactly what it wrote, on any tables  *)
(* with that ledger (UndoExact); and a replay depends on the blocks up to  *)
(* its height only (ReplayPrefix).  With them every database in hand, the  *)
(* current one and the two that a block and a switch save, is the replay   *)
(* of its chain with a journal that undoes it (Sound).  The node rows and  *)
(* versions follow (SInv), then the pool and the bodies (BInv): a post the *)
(* pool drops in a switch is dead on the branch, for what dropped it, a    *)
(* spent input under its transaction or under one that needs it, stays     *)
(* spent there (LeavingDead, DeadStays, DeadNever).                        *)
(***************************************************************************)
EXTENDS StateTree, SumProofs

\* The row mutations a block's effects may list.
RowMutations == ({"put"} \X Records \X Nat) \cup ({"insert", "consume"} \X Boxes \X {0})

\* A posts row, the tables, the ledger a reader sees, a journal's row, and the tables
\* with the journal's rows so far.
Rows == [row : BOOLEAN, body : BOOLEAN, at : Nat, gone : Nat]
Stores ==
  [rec : [Records -> Nat], box : [Boxes -> {"none", "live", "spent"}], post : [Posts -> Rows]]
Ledgers ==
  [rec : [Records -> Nat], box : [Boxes -> {"none", "live", "spent"}],
   at : [Posts -> Nat], gone : [Posts -> Nat]]
Entries == [m : RowMutations, was : Nat]
Written == [store : Stores, muts : Seq(Entries)]

(* What a block of the menu lists. *)
LEMMA MenuTypes ==
  ASSUME NEW e \in Menu
  PROVE  e.posts \subseteq Posts /\ e.gone \subseteq Posts /\ e.muts \in Seq(RowMutations)
BY MenuAssumption DEF RowMutations

-----------------------------------------------------------------------------
(* The recursions of the model have the values their bodies say. *)

(* A mutation leaves a ledger, and its posts as they were. *)
LEMMA MutatedType ==
  ASSUME NEW l \in Ledgers, NEW m \in RowMutations
  PROVE  LET l1 == Abstract!Mutated(l, m)
         IN l1 \in Ledgers /\ l1.at = l.at /\ l1.gone = l.gone
<1>1. CASE m \in {"put"} \X Records \X Nat
  <2>1. m[1] = "put" /\ m[2] \in Records /\ m[3] \in Nat
    BY <1>1
  <2> QED BY <2>1 DEF Abstract!Mutated, Ledgers
<1>2. CASE m \in {"insert", "consume"} \X Boxes \X {0}
  <2>1. m[1] \in {"insert", "consume"} /\ m[2] \in Boxes
    BY <1>2
  <2> QED BY <2>1 DEF Abstract!Mutated, Ledgers
<1> QED BY <1>1, <1>2 DEF RowMutations

\* What a mutation replaces.
Was(store, m) == IF m[1] = "put" THEN store.rec[m[2]] ELSE 0

(* A written mutation leaves tables, adds one journal row and leaves the posts. *)
LEMMA WrittenType ==
  ASSUME NEW w \in Written, NEW m \in RowMutations
  PROVE  LET w1 == WrittenOne(w, m)
         IN /\ w1 \in Written /\ w1.store.post = w.store.post
            /\ w1.muts = Append(w.muts, [m |-> m, was |-> Was(w.store, m)])
<1>0. w.store \in Stores /\ w.muts \in Seq(Entries)
  BY DEF Written
<1>1. CASE m \in {"put"} \X Records \X Nat
  <2>1. m[1] = "put" /\ m[2] \in Records /\ m[3] \in Nat
    BY <1>1
  <2> DEFINE s1 == [w.store EXCEPT !.rec[m[2]] = m[3]]
             row == [m |-> m, was |-> w.store.rec[m[2]]]
  <2>2. s1 \in Stores /\ s1.post = w.store.post
    BY <1>0, <2>1 DEF Stores
  <2>3. w.store.rec[m[2]] \in Nat
    BY <1>0, <2>1 DEF Stores
  <2>4. row \in Entries
    BY <2>3 DEF Entries
  <2>5. WrittenOne(w, m) = [store |-> s1, muts |-> Append(w.muts, row)]
    BY <2>1 DEF WrittenOne
  <2>6. row = [m |-> m, was |-> Was(w.store, m)]
    BY <2>1 DEF Was
  <2> HIDE DEF s1, row
  <2>7. Append(w.muts, row) \in Seq(Entries)
    BY <1>0, <2>4
  <2> QED BY <2>2, <2>5, <2>6, <2>7 DEF Written
<1>2. CASE m \in {"insert", "consume"} \X Boxes \X {0}
  <2>1. m[1] \in {"insert", "consume"} /\ m[2] \in Boxes
    BY <1>2
  <2> DEFINE s1 == [w.store EXCEPT !.box[m[2]] = IF m[1] = "insert" THEN "live" ELSE "spent"]
             row == [m |-> m, was |-> 0]
  <2>2. s1 \in Stores /\ s1.post = w.store.post
    BY <1>0, <2>1 DEF Stores
  <2>4. row \in Entries
    BY DEF Entries
  <2>5. WrittenOne(w, m) = [store |-> s1, muts |-> Append(w.muts, row)]
    BY <2>1 DEF WrittenOne
  <2>6. row = [m |-> m, was |-> Was(w.store, m)]
    BY <2>1 DEF Was
  <2> HIDE DEF s1, row
  <2>7. Append(w.muts, row) \in Seq(Entries)
    BY <1>0, <2>4
  <2> QED BY <2>2, <2>5, <2>6, <2>7 DEF Written
<1> QED BY <1>1, <1>2 DEF RowMutations

(* The ledger after each number of mutations. *)
LEMMA MutationsIs ==
  ASSUME NEW l \in Ledgers, NEW muts \in Seq(RowMutations)
  PROVE  LET g == Abstract!Mutations(l, muts)
         IN /\ g[0] = l
            /\ \A i \in 1 .. Len(muts) : g[i] = Abstract!Mutated(g[i - 1], muts[i])
            /\ \A i \in 0 .. Len(muts) : g[i] \in Ledgers /\ g[i].at = l.at /\ g[i].gone = l.gone
<1> DEFINE n == Len(muts)
           Is(g) == g = [i \in 0 .. n |-> IF i = 0 THEN l ELSE Abstract!Mutated(g[i - 1], muts[i])]
           F == [i \in 1 .. n |-> [s \in Ledgers |-> Abstract!Mutated(s, muts[i])]]
           m == Abstract!Mutations(l, muts)
<1>0. n \in Nat /\ \A i \in 1 .. n : muts[i] \in RowMutations
  OBVIOUS
<1>1. F \in [1 .. n -> [Ledgers -> Ledgers]]
  BY <1>0, MutatedType
<1>2. \A i \in 1 .. n : \A s \in Ledgers : F[i][s] = Abstract!Mutated(s, muts[i])
  OBVIOUS
<1> HIDE DEF F
<1>3. PICK g \in [0 .. n -> Ledgers] : g[0] = l /\ \A i \in 1 .. n : g[i] = F[i][g[i - 1]]
  <2> HIDE DEF n
  <2>1. Defined(n, Ledgers, l, F)
    BY <1>0, <1>1, Recursion
  <2> QED BY <2>1 DEF Defined
<1>4. \A i \in 0 .. n : g[i] = IF i = 0 THEN l ELSE Abstract!Mutated(g[i - 1], muts[i])
  <2> TAKE i \in 0 .. n
  <2>1. CASE i = 0
    BY <1>3, <2>1
  <2>2. CASE i # 0
    <3>1. i \in 1 .. n /\ g[i - 1] \in Ledgers
      BY <1>0, <2>2
    <3> QED BY <1>2, <1>3, <2>2, <3>1
  <2> QED BY <2>1, <2>2
<1>5. Is(g)
  BY <1>4
<1>6. m = CHOOSE x : Is(x)
  BY DEF Abstract!Mutations
<1>7. Is(m)
  <2> HIDE DEF Is, m
  <2> QED BY <1>5, <1>6
<1>8. m[0] = l /\ \A i \in 1 .. n : m[i] = Abstract!Mutated(m[i - 1], muts[i])
  <2> HIDE DEF m
  <2> QED BY <1>0, <1>7
<1> HIDE DEF m, Is
<1> DEFINE T == {i \in 0 .. n : m[i] \in Ledgers /\ m[i].at = l.at /\ m[i].gone = l.gone}
<1>9. 0 \in T
  BY <1>0, <1>8
<1>10. \A i \in 1 .. n : i - 1 \in T => i \in T
  <2> HIDE DEF m
  <2> TAKE i \in 1 .. n
  <2>1. i \in 0 .. n /\ muts[i] \in RowMutations /\ m[i] = Abstract!Mutated(m[i - 1], muts[i])
    BY <1>0, <1>8
  <2> HAVE i - 1 \in T
  <2>2. m[i - 1] \in Ledgers /\ m[i - 1].at = l.at /\ m[i - 1].gone = l.gone
    OBVIOUS
  <2> QED BY <2>1, <2>2, MutatedType
<1>11. 0 .. n \subseteq T
  <2> HIDE DEF T, n
  <2> QED BY <1>0, <1>9, <1>10, Upto
<1> QED BY <1>8, <1>11 DEF m

(* The tables and the journal's rows after each number of mutations. *)
LEMMA WritesIs ==
  ASSUME NEW store \in Stores, NEW muts \in Seq(RowMutations)
  PROVE  LET g == Writes(store, muts)
         IN /\ g[0] = [store |-> store, muts |-> <<>>]
            /\ \A i \in 1 .. Len(muts) : g[i] = WrittenOne(g[i - 1], muts[i])
            /\ \A i \in 0 .. Len(muts) :
                 g[i] \in Written /\ g[i].store.post = store.post /\ Len(g[i].muts) = i
            /\ \A i \in 0 .. Len(muts) : \A j \in 1 .. i :
                 g[i].muts[j] = [m |-> muts[j], was |-> Was(g[j - 1].store, muts[j])]
<1> DEFINE n == Len(muts)
           x == [store |-> store, muts |-> <<>>]
           Is(g) == g = [i \in 0 .. n |-> IF i = 0 THEN x ELSE WrittenOne(g[i - 1], muts[i])]
           F == [i \in 1 .. n |-> [s \in Written |-> WrittenOne(s, muts[i])]]
           m == Writes(store, muts)
<1>0. n \in Nat /\ x \in Written /\ \A i \in 1 .. n : muts[i] \in RowMutations
  BY DEF Written
<1>1. F \in [1 .. n -> [Written -> Written]]
  BY <1>0, WrittenType
<1>2. \A i \in 1 .. n : \A s \in Written : F[i][s] = WrittenOne(s, muts[i])
  OBVIOUS
<1> HIDE DEF F
<1>3. PICK g \in [0 .. n -> Written] : g[0] = x /\ \A i \in 1 .. n : g[i] = F[i][g[i - 1]]
  <2> HIDE DEF n, x
  <2>1. Defined(n, Written, x, F)
    BY <1>0, <1>1, Recursion
  <2> QED BY <2>1 DEF Defined
<1>4. \A i \in 0 .. n : g[i] = IF i = 0 THEN x ELSE WrittenOne(g[i - 1], muts[i])
  <2> HIDE DEF x
  <2> TAKE i \in 0 .. n
  <2>1. CASE i = 0
    BY <1>3, <2>1
  <2>2. CASE i # 0
    <3>1. i \in 1 .. n /\ g[i - 1] \in Written
      BY <1>0, <2>2
    <3> QED BY <1>2, <1>3, <2>2, <3>1
  <2> QED BY <2>1, <2>2
<1>5. Is(g)
  BY <1>4
<1>6. m = CHOOSE f : Is(f)
  BY DEF Writes
<1>7. Is(m)
  <2> HIDE DEF Is, m
  <2> QED BY <1>5, <1>6
<1>8. m[0] = x /\ \A i \in 1 .. n : m[i] = WrittenOne(m[i - 1], muts[i])
  <2> HIDE DEF m, x
  <2> QED BY <1>0, <1>7
<1> HIDE DEF m, Is
<1> DEFINE T == {i \in 0 .. n : /\ m[i] \in Written /\ m[i].store.post = store.post /\ Len(m[i].muts) = i
                                /\ \A j \in 1 .. i :
                                     m[i].muts[j] = [m |-> muts[j], was |-> Was(m[j - 1].store, muts[j])]}
<1>9. 0 \in T
  BY <1>0, <1>8
<1>10. \A i \in 1 .. n : i - 1 \in T => i \in T
  <2> TAKE i \in 1 .. n
  <2> DEFINE was(j) == [m |-> muts[j], was |-> Was(m[j - 1].store, muts[j])]
  <2>1. i \in 0 .. n /\ i \in Nat /\ muts[i] \in RowMutations /\ m[i] = WrittenOne(m[i - 1], muts[i])
    BY <1>0, <1>8
  <2> HAVE i - 1 \in T
  <2>2. /\ m[i - 1] \in Written /\ m[i - 1].store.post = store.post /\ Len(m[i - 1].muts) = i - 1
        /\ \A j \in 1 .. i - 1 : m[i - 1].muts[j] = was(j)
    OBVIOUS
  <2>3. /\ m[i] \in Written /\ m[i].store.post = m[i - 1].store.post
        /\ m[i].muts = Append(m[i - 1].muts, was(i))
    BY <2>1, <2>2, WrittenType
  <2> HIDE DEF was
  <2>4. m[i - 1].muts \in Seq(Entries)
    BY <2>2 DEF Written
  <2>5. Len(m[i].muts) = i /\ \A j \in 1 .. i : m[i].muts[j] = was(j)
    BY <2>1, <2>2, <2>3, <2>4
  <2> QED BY <2>1, <2>2, <2>3, <2>5 DEF was
<1>11. 0 .. n \subseteq T
  <2> HIDE DEF T, n
  <2> QED BY <1>0, <1>9, <1>10, Upto
<1> QED BY <1>8, <1>11 DEF m

(* An undone journal row leaves tables, and their posts as they were. *)
LEMMA UndoneType ==
  ASSUME NEW s \in Stores, NEW j \in Entries
  PROVE  UndoneOne(s, j) \in Stores /\ UndoneOne(s, j).post = s.post
<1>0. j.m \in RowMutations /\ j.was \in Nat
  BY DEF Entries
<1>1. CASE j.m \in {"put"} \X Records \X Nat
  <2>1. j.m[1] = "put" /\ j.m[2] \in Records
    BY <1>1
  <2> QED BY <1>0, <2>1 DEF UndoneOne, Stores
<1>2. CASE j.m \in {"insert", "consume"} \X Boxes \X {0}
  <2>1. j.m[1] \in {"insert", "consume"} /\ j.m[2] \in Boxes
    BY <1>2
  <2> QED BY <2>1 DEF UndoneOne, Stores
<1> QED BY <1>0, <1>1, <1>2 DEF RowMutations

\* u is revertBlock's walk over n rows of a journal, last first.
Walk(u, store, muts) ==
  /\ u[0] = store
  /\ \A i \in 1 .. Len(muts) : u[i] = UndoneOne(u[i - 1], muts[Len(muts) + 1 - i])
  /\ \A i \in 0 .. Len(muts) : u[i] \in Stores /\ u[i].post = store.post

(* revertBlock's walk has the value its body says. *)
LEMMA UndoneRowsIs ==
  ASSUME NEW store \in Stores, NEW muts \in Seq(Entries)
  PROVE  \E u : Walk(u, store, muts) /\ UndoneRows(store, muts) = u[Len(muts)]
<1> DEFINE n == Len(muts)
           Is(g) == g = [i \in 0 .. n |-> IF i = 0 THEN store ELSE UndoneOne(g[i - 1], muts[n + 1 - i])]
           F == [i \in 1 .. n |-> [s \in Stores |-> UndoneOne(s, muts[n + 1 - i])]]
           m == CHOOSE f : Is(f)
<1>0. n \in Nat /\ \A i \in 1 .. n : muts[n + 1 - i] \in Entries
  OBVIOUS
<1>1. F \in [1 .. n -> [Stores -> Stores]]
  BY <1>0, UndoneType
<1>2. \A i \in 1 .. n : \A s \in Stores : F[i][s] = UndoneOne(s, muts[n + 1 - i])
  OBVIOUS
<1> HIDE DEF F
<1>3. PICK g \in [0 .. n -> Stores] : g[0] = store /\ \A i \in 1 .. n : g[i] = F[i][g[i - 1]]
  <2> HIDE DEF n
  <2>1. Defined(n, Stores, store, F)
    BY <1>0, <1>1, Recursion
  <2> QED BY <2>1 DEF Defined
<1>4. \A i \in 0 .. n : g[i] = IF i = 0 THEN store ELSE UndoneOne(g[i - 1], muts[n + 1 - i])
  <2> TAKE i \in 0 .. n
  <2>1. CASE i = 0
    BY <1>3, <2>1
  <2>2. CASE i # 0
    <3>1. i \in 1 .. n /\ g[i - 1] \in Stores
      BY <1>0, <2>2
    <3> QED BY <1>2, <1>3, <2>2, <3>1
  <2> QED BY <2>1, <2>2
<1>5. Is(g)
  BY <1>4
<1>6. UndoneRows(store, muts) = m[n]
  BY DEF UndoneRows
<1>7. Is(m)
  <2> HIDE DEF Is
  <2> QED BY <1>5
<1>8. m[0] = store /\ \A i \in 1 .. n : m[i] = UndoneOne(m[i - 1], muts[n + 1 - i])
  <2> HIDE DEF m
  <2> QED BY <1>0, <1>7
<1> HIDE DEF m, Is
<1> DEFINE T == {i \in 0 .. n : m[i] \in Stores /\ m[i].post = store.post}
<1>9. 0 \in T
  BY <1>0, <1>8
<1>10. \A i \in 1 .. n : i - 1 \in T => i \in T
  <2> TAKE i \in 1 .. n
  <2>1. i \in 0 .. n /\ muts[n + 1 - i] \in Entries /\ m[i] = UndoneOne(m[i - 1], muts[n + 1 - i])
    BY <1>0, <1>8
  <2> HAVE i - 1 \in T
  <2>2. m[i - 1] \in Stores /\ m[i - 1].post = store.post
    OBVIOUS
  <2> QED BY <2>1, <2>2, UndoneType
<1>11. 0 .. n \subseteq T
  <2> HIDE DEF T, n
  <2> QED BY <1>0, <1>9, <1>10, Upto
<1>12. Walk(m, store, muts)
  BY <1>8, <1>11 DEF Walk
<1> QED BY <1>6, <1>12

-----------------------------------------------------------------------------
(* A block's writes are its effects on the ledger. *)

\* The tables of s hold the rows of l.
SameRows(s, l) == s.rec = l.rec /\ s.box = l.box

(* A mutation does to the tables what it does to the ledger. *)
LEMMA MutatedSame ==
  ASSUME NEW w \in Written, NEW l \in Ledgers, SameRows(w.store, l), NEW m \in RowMutations
  PROVE  SameRows(WrittenOne(w, m).store, Abstract!Mutated(l, m))
<1>0. w.store \in Stores
  BY DEF Written
<1>1. CASE m \in {"put"} \X Records \X Nat
  <2>1. m[1] = "put" /\ m[2] \in Records
    BY <1>1
  <2> QED BY <1>0, <2>1 DEF SameRows, WrittenOne, Abstract!Mutated, Stores, Ledgers
<1>2. CASE m \in {"insert", "consume"} \X Boxes \X {0}
  <2>1. m[1] \in {"insert", "consume"} /\ m[2] \in Boxes
    BY <1>2
  <2> QED BY <1>0, <2>1 DEF SameRows, WrittenOne, Abstract!Mutated, Stores, Ledgers
<1> QED BY <1>1, <1>2 DEF RowMutations

(* So does a list of them, after each of its mutations. *)
LEMMA WritesMutate ==
  ASSUME NEW store \in Stores, NEW l \in Ledgers, SameRows(store, l), NEW muts \in Seq(RowMutations)
  PROVE  \A i \in 0 .. Len(muts) : SameRows(Writes(store, muts)[i].store, Abstract!Mutations(l, muts)[i])
<1> DEFINE w == Writes(store, muts)
           g == Abstract!Mutations(l, muts)
           n == Len(muts)
           T == {i \in 0 .. n : SameRows(w[i].store, g[i])}
<1>1. /\ w[0].store = store
      /\ \A i \in 1 .. n : w[i] = WrittenOne(w[i - 1], muts[i])
      /\ \A i \in 0 .. n : w[i] \in Written
  <2>1. /\ w[0] = [store |-> store, muts |-> <<>>]
        /\ \A i \in 1 .. n : w[i] = WrittenOne(w[i - 1], muts[i])
        /\ \A i \in 0 .. n : w[i] \in Written
    BY WritesIs
  <2> HIDE DEF w
  <2> QED BY <2>1
<1>2. /\ g[0] = l
      /\ \A i \in 1 .. n : g[i] = Abstract!Mutated(g[i - 1], muts[i])
      /\ \A i \in 0 .. n : g[i] \in Ledgers
  BY MutationsIs
<1> HIDE DEF w, g
<1>3. n \in Nat /\ 0 \in T
  BY <1>1, <1>2
<1>4. \A i \in 1 .. n : i - 1 \in T => i \in T
  <2> TAKE i \in 1 .. n
  <2> HAVE i - 1 \in T
  <2>1. i - 1 \in 0 .. n /\ i \in 0 .. n /\ muts[i] \in RowMutations /\ SameRows(w[i - 1].store, g[i - 1])
    OBVIOUS
  <2> QED BY <1>1, <1>2, <2>1, MutatedSame
<1>5. 0 .. n \subseteq T
  <2> HIDE DEF T, n
  <2> QED BY <1>3, <1>4, Upto
<1> QED BY <1>5 DEF w, g

\* The tables with the block's posts confirmed, and the ledger with them.
Confirmed(store, e, h) ==
  [store EXCEPT !.post =
     [p \in Posts |-> IF p \in e.posts THEN [@[p] EXCEPT !.row = TRUE, !.at = h] ELSE @[p]]]
LedgerConfirmed(l, e, h) == [l EXCEPT !.at = [p \in Posts |-> IF p \in e.posts THEN h ELSE @[p]]]

(* Confirming posts leaves tables, with no other row changed. *)
LEMMA ConfirmedType ==
  ASSUME NEW store \in Stores, NEW e \in Menu, NEW h \in Nat
  PROVE  LET s == Confirmed(store, e, h)
         IN /\ s \in Stores /\ s.rec = store.rec /\ s.box = store.box
            /\ \A p \in Posts : /\ s.post[p].at = IF p \in e.posts THEN h ELSE store.post[p].at
                                /\ s.post[p].gone = store.post[p].gone
<1> DEFINE post == [p \in Posts |->
                      IF p \in e.posts THEN [store.post[p] EXCEPT !.row = TRUE, !.at = h] ELSE store.post[p]]
<1>1. \A p \in Posts : store.post[p] \in Rows
  BY DEF Stores
<1>2. /\ post \in [Posts -> Rows]
      /\ \A p \in Posts : /\ post[p].at = IF p \in e.posts THEN h ELSE store.post[p].at
                          /\ post[p].gone = store.post[p].gone
  BY <1>1 DEF Rows
<1>3. Confirmed(store, e, h) = [store EXCEPT !.post = post]
  BY DEF Confirmed
<1> HIDE DEF post
<1> QED BY <1>2, <1>3 DEF Stores

(* The same of the ledger. *)
LEMMA LedgerConfirmedType ==
  ASSUME NEW l \in Ledgers, NEW e \in Menu, NEW h \in Nat
  PROVE  LET s == LedgerConfirmed(l, e, h)
         IN /\ s \in Ledgers /\ s.rec = l.rec /\ s.box = l.box /\ s.gone = l.gone
            /\ \A p \in Posts : s.at[p] = IF p \in e.posts THEN h ELSE l.at[p]
  BY DEF LedgerConfirmed, Ledgers

(* A block's effects on a ledger, part by part. *)
LEMMA EffectedIs ==
  ASSUME NEW l \in Ledgers, NEW e \in Menu, NEW h \in Nat
  PROVE  LET c == LedgerConfirmed(l, e, h)
             g == Abstract!Mutations(c, e.muts)[Len(e.muts)]
             r == Abstract!Effected(l, e, h)
         IN /\ r \in Ledgers /\ r.rec = g.rec /\ r.box = g.box
            /\ \A p \in Posts : /\ r.at[p] = IF p \in e.posts THEN h ELSE l.at[p]
                                /\ r.gone[p] = IF p \in e.gone THEN h ELSE l.gone[p]
<1> DEFINE c == LedgerConfirmed(l, e, h)
           g == Abstract!Mutations(c, e.muts)[Len(e.muts)]
<1>1. c \in Ledgers /\ c.gone = l.gone /\ \A p \in Posts : c.at[p] = IF p \in e.posts THEN h ELSE l.at[p]
  BY LedgerConfirmedType
<1>2. e.muts \in Seq(RowMutations) /\ Len(e.muts) \in 0 .. Len(e.muts)
  BY MenuTypes
<1>3. g \in Ledgers /\ g.at = c.at /\ g.gone = c.gone
  BY <1>1, <1>2, MutationsIs
<1>4. Abstract!Effected(l, e, h) = [g EXCEPT !.gone = [p \in Posts |-> IF p \in e.gone THEN h ELSE @[p]]]
  BY DEF Abstract!Effected, LedgerConfirmed
<1> HIDE DEF g, c
<1>5. Abstract!Effected(l, e, h) \in Ledgers
  BY <1>3, <1>4 DEF Ledgers
<1>6. /\ Abstract!Effected(l, e, h).rec = g.rec /\ Abstract!Effected(l, e, h).box = g.box
      /\ Abstract!Effected(l, e, h).at = g.at
      /\ \A p \in Posts : Abstract!Effected(l, e, h).gone[p] = IF p \in e.gone THEN h ELSE g.gone[p]
  BY <1>3, <1>4 DEF Ledgers
<1> QED BY <1>1, <1>3, <1>5, <1>6 DEF g, c

(* What writeBlockEffects writes, part by part, and the journal it returns. *)
LEMMA EffectsAre ==
  ASSUME NEW store \in Stores, NEW e \in Menu, NEW h \in Nat
  PROVE  LET c == Confirmed(store, e, h)
             w == Writes(c, e.muts)[Len(e.muts)]
             r == writeBlockEffects(store, e, h)
         IN /\ r.store \in Stores /\ r.store.rec = w.store.rec /\ r.store.box = w.store.box
            /\ \A p \in Posts : /\ r.store.post[p].at = IF p \in e.posts THEN h ELSE store.post[p].at
                                /\ r.store.post[p].gone = IF p \in e.gone THEN h ELSE store.post[p].gone
            /\ r.journal.muts = w.muts /\ r.journal.posts = e.posts
            /\ DOMAIN r.journal.bodies = e.gone
            /\ \A p \in e.gone : r.journal.bodies[p] \in BOOLEAN
<1> DEFINE c == Confirmed(store, e, h)
           w == Writes(c, e.muts)[Len(e.muts)]
           post == [p \in Posts |->
                      IF p \in e.gone THEN [w.store.post[p] EXCEPT !.body = FALSE, !.gone = h]
                                      ELSE w.store.post[p]]
           r == writeBlockEffects(store, e, h)
<1>1. /\ c \in Stores
      /\ \A p \in Posts : /\ c.post[p].at = IF p \in e.posts THEN h ELSE store.post[p].at
                          /\ c.post[p].gone = store.post[p].gone
  BY ConfirmedType
<1>2. e.muts \in Seq(RowMutations) /\ Len(e.muts) \in 0 .. Len(e.muts) /\ e.gone \subseteq Posts
  BY MenuTypes
<1>3. w \in Written /\ w.store \in Stores /\ w.store.post = c.post
  <2>1. w \in Written /\ w.store.post = c.post
    <3> HIDE DEF c
    <3> QED BY <1>1, <1>2, WritesIs
  <2> HIDE DEF w, c
  <2> QED BY <2>1 DEF Written
<1>4. r = [store |-> [w.store EXCEPT !.post = post],
           journal |-> [muts |-> w.muts, posts |-> e.posts, bodies |-> [p \in e.gone |-> w.store.post[p].body]]]
  BY DEF writeBlockEffects, Confirmed
<1> HIDE DEF w, c, r
<1>5. \A p \in Posts : w.store.post[p] \in Rows
  BY <1>3 DEF Stores
<1>6. /\ post \in [Posts -> Rows]
      /\ \A p \in Posts : /\ post[p].at = w.store.post[p].at
                          /\ post[p].gone = IF p \in e.gone THEN h ELSE w.store.post[p].gone
  BY <1>5 DEF Rows
<1>7. \A p \in e.gone : w.store.post[p].body \in BOOLEAN
  BY <1>2, <1>5 DEF Rows
<1> HIDE DEF post
<1>8. r.store \in Stores /\ r.store.rec = w.store.rec /\ r.store.box = w.store.box /\ r.store.post = post
  BY <1>3, <1>4, <1>6 DEF Stores
<1>9. /\ r.journal.muts = w.muts /\ r.journal.posts = e.posts /\ DOMAIN r.journal.bodies = e.gone
      /\ \A p \in e.gone : r.journal.bodies[p] \in BOOLEAN
  BY <1>4, <1>7
<1> QED BY <1>1, <1>3, <1>6, <1>8, <1>9 DEF w, c, r

(* The ledger of the tables is a ledger, with their rows. *)
LEMMA LedgerType ==
  ASSUME NEW store \in Stores
  PROVE  LedgerOf(store) \in Ledgers /\ SameRows(store, LedgerOf(store))
<1>1. \A p \in Posts : store.post[p] \in Rows
  BY DEF Stores
<1>2. \A p \in Posts : store.post[p].at \in Nat /\ store.post[p].gone \in Nat
  BY <1>1 DEF Rows
<1> QED BY <1>2 DEF LedgerOf, Ledgers, Stores, SameRows

(* Two ledgers with the same parts are one ledger. *)
LEMMA SameLedger ==
  ASSUME NEW l \in Ledgers, NEW r \in Ledgers, l.rec = r.rec, l.box = r.box,
         \A p \in Posts : l.at[p] = r.at[p] /\ l.gone[p] = r.gone[p]
  PROVE  l = r
  BY DEF Ledgers

(* writeBlockEffects writes exactly the block's effects. *)
LEMMA WriteLedger ==
  ASSUME NEW store \in Stores, NEW e \in Menu, NEW h \in Nat
  PROVE  LedgerOf(writeBlockEffects(store, e, h).store) = Abstract!Effected(LedgerOf(store), e, h)
<1> DEFINE l == LedgerOf(store)
           c == Confirmed(store, e, h)
           lc == LedgerConfirmed(l, e, h)
           w == Writes(c, e.muts)[Len(e.muts)]
           g == Abstract!Mutations(lc, e.muts)[Len(e.muts)]
           s == writeBlockEffects(store, e, h).store
           r == Abstract!Effected(l, e, h)
<1>1. l \in Ledgers /\ l.rec = store.rec /\ l.box = store.box
  BY LedgerType DEF SameRows
<1>2. c \in Stores /\ lc \in Ledgers /\ SameRows(c, lc)
  <2> HIDE DEF l
  <2>1. c \in Stores /\ c.rec = store.rec /\ c.box = store.box
    BY ConfirmedType
  <2>2. lc \in Ledgers /\ lc.rec = l.rec /\ lc.box = l.box
    BY <1>1, LedgerConfirmedType
  <2> QED BY <1>1, <2>1, <2>2 DEF SameRows
<1>3. w.store.rec = g.rec /\ w.store.box = g.box
  <2>1. e.muts \in Seq(RowMutations) /\ Len(e.muts) \in 0 .. Len(e.muts)
    BY MenuTypes
  <2> HIDE DEF c, lc
  <2> QED BY <1>2, <2>1, WritesMutate DEF SameRows
<1>4. /\ s \in Stores /\ s.rec = w.store.rec /\ s.box = w.store.box
      /\ \A p \in Posts : /\ s.post[p].at = IF p \in e.posts THEN h ELSE store.post[p].at
                          /\ s.post[p].gone = IF p \in e.gone THEN h ELSE store.post[p].gone
  BY EffectsAre
<1>5. /\ r \in Ledgers /\ r.rec = g.rec /\ r.box = g.box
      /\ \A p \in Posts : /\ r.at[p] = IF p \in e.posts THEN h ELSE l.at[p]
                          /\ r.gone[p] = IF p \in e.gone THEN h ELSE l.gone[p]
  <2> HIDE DEF l
  <2> QED BY <1>1, EffectedIs
<1>6. \A p \in Posts : l.at[p] = store.post[p].at /\ l.gone[p] = store.post[p].gone
  BY DEF LedgerOf
<1> HIDE DEF s, r, w, g, l
<1>7. LedgerOf(s) \in Ledgers
  BY <1>4, LedgerType
<1>8. /\ LedgerOf(s).rec = s.rec /\ LedgerOf(s).box = s.box
      /\ \A p \in Posts : LedgerOf(s).at[p] = s.post[p].at /\ LedgerOf(s).gone[p] = s.post[p].gone
  BY DEF LedgerOf
<1>9. LedgerOf(s) = r
  BY <1>3, <1>4, <1>5, <1>6, <1>7, <1>8, SameLedger
<1> QED BY <1>9 DEF s, r, l

(* The blocks the store takes are the blocks its ledger takes. *)
LEMMA ValidSame ==
  ASSUME NEW store \in Stores, NEW e \in Menu
  PROVE  Valid(store, e) <=> Abstract!Valid(LedgerOf(store), e)
<1> DEFINE l == LedgerOf(store)
<1>1. e.muts \in Seq(RowMutations) /\ e.posts \subseteq Posts /\ e.gone \subseteq Posts
  BY MenuTypes
<1>2. \A i \in 1 .. Len(e.muts) :
        Writes(store, e.muts)[i - 1].store.box = Abstract!Mutations(l, e.muts)[i - 1].box
  <2>1. l \in Ledgers /\ SameRows(store, l)
    BY LedgerType
  <2> HIDE DEF l
  <2>2. \A i \in 0 .. Len(e.muts) : SameRows(Writes(store, e.muts)[i].store, Abstract!Mutations(l, e.muts)[i])
    BY <1>1, <2>1, WritesMutate
  <2> TAKE i \in 1 .. Len(e.muts)
  <2>3. i - 1 \in 0 .. Len(e.muts)
    BY <1>1
  <2> QED BY <2>2, <2>3 DEF SameRows
<1>3. \A p \in Posts : l.at[p] = store.post[p].at /\ l.gone[p] = store.post[p].gone
  BY DEF LedgerOf
<1> HIDE DEF l
<1> DEFINE here(i) == Writes(store, e.muts)[i - 1].store.box
           there(i) == Abstract!Mutations(l, e.muts)[i - 1].box
           rows(box(_)) == \A i \in 1 .. Len(e.muts) :
                             /\ e.muts[i][1] = "insert" => box(i)[e.muts[i][2]] = "none"
                             /\ e.muts[i][1] = "consume" => box(i)[e.muts[i][2]] = "live"
<1>4. rows(here) <=> rows(there)
  <2> HIDE DEF here, there
  <2> QED BY <1>2 DEF here, there
<1>5. (\A p \in e.posts : store.post[p].at = 0) <=> (\A p \in e.posts : l.at[p] = 0)
  BY <1>1, <1>3
<1>6. (\A p \in e.gone : store.post[p].at # 0 /\ store.post[p].gone = 0)
        <=> (\A p \in e.gone : l.at[p] # 0 /\ l.gone[p] = 0)
  BY <1>1, <1>3
<1>7. Valid(store, e) <=>
        /\ rows(here)
        /\ \A p \in e.posts : store.post[p].at = 0
        /\ \A p \in e.gone : store.post[p].at # 0 /\ store.post[p].gone = 0
  BY DEF Valid
<1>8. Abstract!Valid(l, e) <=>
        /\ rows(there)
        /\ \A p \in e.posts : l.at[p] = 0
        /\ \A p \in e.gone : l.at[p] # 0 /\ l.gone[p] = 0
  BY DEF Abstract!Valid
<1>9. Valid(store, e) <=> Abstract!Valid(l, e)
  <2> HIDE DEF rows, here, there
  <2> QED BY <1>4, <1>5, <1>6, <1>7, <1>8
<1> QED BY <1>9 DEF l

-----------------------------------------------------------------------------
(* The journal undoes its block, on any store whose ledger is the block's. *)

\* The journal row j takes any tables with the ledger `after` back to the ledger `before`:
\* bodies may have arrived since the block was written.
Undoes(j, before, after) ==
  \A s \in Stores : LedgerOf(s) = after => Undone(s, j) \in Stores /\ LedgerOf(Undone(s, j)) = before

(* Undoing a written mutation restores what it replaced: a put by the recorded value,
   an insert and a consume by what the block found. *)
LEMMA UndoOne ==
  ASSUME NEW w \in Written, NEW m \in RowMutations, NEW s \in Stores,
         SameRows(s, WrittenOne(w, m).store),
         m[1] = "insert" => w.store.box[m[2]] = "none",
         m[1] = "consume" => w.store.box[m[2]] = "live"
  PROVE  SameRows(UndoneOne(s, [m |-> m, was |-> Was(w.store, m)]), w.store)
<1>0. w.store \in Stores
  BY DEF Written
<1>1. CASE m \in {"put"} \X Records \X Nat
  <2>1. m[1] = "put" /\ m[2] \in Records
    BY <1>1
  <2>2. s.box = w.store.box /\ s.rec = [w.store.rec EXCEPT ![m[2]] = m[3]]
    BY <1>0, <2>1 DEF SameRows, WrittenOne, Stores
  <2>3. UndoneOne(s, [m |-> m, was |-> Was(w.store, m)]) = [s EXCEPT !.rec[m[2]] = w.store.rec[m[2]]]
    BY <2>1 DEF UndoneOne, Was
  <2>4. [s.rec EXCEPT ![m[2]] = w.store.rec[m[2]]] = w.store.rec
    BY <1>0, <2>1, <2>2 DEF Stores
  <2> QED BY <2>2, <2>3, <2>4 DEF SameRows, Stores
<1>2. CASE m \in {"insert", "consume"} \X Boxes \X {0}
  <2> DEFINE was == IF m[1] = "insert" THEN "none" ELSE "live"
             new == IF m[1] = "insert" THEN "live" ELSE "spent"
  <2>1. m[1] \in {"insert", "consume"} /\ m[2] \in Boxes /\ w.store.box[m[2]] = was
    BY <1>2
  <2>2. s.rec = w.store.rec /\ s.box = [w.store.box EXCEPT ![m[2]] = new]
    BY <1>0, <2>1 DEF SameRows, WrittenOne, Stores
  <2>3. UndoneOne(s, [m |-> m, was |-> Was(w.store, m)]) = [s EXCEPT !.box[m[2]] = was]
    BY <2>1 DEF UndoneOne
  <2> HIDE DEF was, new
  <2>4. [s.box EXCEPT ![m[2]] = was] = w.store.box
    BY <1>0, <2>1, <2>2 DEF Stores
  <2> QED BY <2>2, <2>3, <2>4 DEF SameRows, Stores
<1> QED BY <1>1, <1>2 DEF RowMutations

(* Undoing all of a block's mutations, last first, restores its rows, also where it
   wrote one twice. *)
LEMMA UndoRows ==
  ASSUME NEW c \in Stores, NEW muts \in Seq(RowMutations), NEW s \in Stores,
         SameRows(s, Writes(c, muts)[Len(muts)].store),
         \A i \in 1 .. Len(muts) :
           LET box == Writes(c, muts)[i - 1].store.box
           IN /\ muts[i][1] = "insert" => box[muts[i][2]] = "none"
              /\ muts[i][1] = "consume" => box[muts[i][2]] = "live"
  PROVE  LET r == UndoneRows(s, Writes(c, muts)[Len(muts)].muts)
         IN r \in Stores /\ SameRows(r, c) /\ r.post = s.post
<1> DEFINE W == Writes(c, muts)
           n == Len(muts)
           jm == W[n].muts
<1>1. /\ W[0] = [store |-> c, muts |-> <<>>]
      /\ \A i \in 1 .. n : W[i] = WrittenOne(W[i - 1], muts[i])
      /\ \A i \in 0 .. n : W[i] \in Written /\ Len(W[i].muts) = i
      /\ \A i \in 0 .. n : \A j \in 1 .. i : W[i].muts[j] = [m |-> muts[j], was |-> Was(W[j - 1].store, muts[j])]
  BY WritesIs
<1>a. \A i \in 1 .. n : /\ muts[i][1] = "insert" => W[i - 1].store.box[muts[i][2]] = "none"
                        /\ muts[i][1] = "consume" => W[i - 1].store.box[muts[i][2]] = "live"
  OBVIOUS
<1>b. SameRows(s, W[n].store)
  OBVIOUS
<1>2. n \in Nat /\ \A i \in 1 .. n : muts[i] \in RowMutations
  OBVIOUS
<1> HIDE DEF W
<1>3. jm \in Seq(Entries) /\ Len(jm) = n
      /\ \A j \in 1 .. n : jm[j] = [m |-> muts[j], was |-> Was(W[j - 1].store, muts[j])]
  BY <1>1, <1>2 DEF Written
<1>4. PICK u : Walk(u, s, jm) /\ UndoneRows(s, jm) = u[n]
  <2> HIDE DEF jm
  <2> QED BY <1>3, UndoneRowsIs
<1>5. /\ u[0] = s
      /\ \A i \in 1 .. n : u[i] = UndoneOne(u[i - 1], jm[n + 1 - i])
      /\ \A i \in 0 .. n : u[i] \in Stores /\ u[i].post = s.post
  BY <1>3, <1>4 DEF Walk
<1> DEFINE T == {i \in 0 .. n : SameRows(u[i], W[n - i].store)}
<1>6. 0 \in T
  BY <1>2, <1>5, <1>b
<1>7. \A i \in 1 .. n : i - 1 \in T => i \in T
  <2> TAKE i \in 1 .. n
  <2> HAVE i - 1 \in T
  <2> DEFINE k == n + 1 - i
  <2>1. /\ i \in 0 .. n /\ i - 1 \in 0 .. n /\ k \in 1 .. n /\ k - 1 \in 0 .. n
        /\ k = n - (i - 1) /\ k - 1 = n - i
    BY <1>2
  <2>2. SameRows(u[i - 1], W[k].store)
    BY <2>1
  <2> HIDE DEF k
  <2>3. u[i] = UndoneOne(u[i - 1], [m |-> muts[k], was |-> Was(W[k - 1].store, muts[k])])
    BY <1>3, <1>5, <2>1 DEF k
  <2>4. W[k] = WrittenOne(W[k - 1], muts[k]) /\ W[k - 1] \in Written /\ muts[k] \in RowMutations
    BY <1>1, <1>2, <2>1
  <2>5. u[i - 1] \in Stores
    BY <1>5, <2>1
  <2>6. SameRows(u[i], W[k - 1].store)
    BY <1>a, <2>1, <2>2, <2>3, <2>4, <2>5, UndoOne
  <2> QED BY <2>1, <2>6
<1>8. 0 .. n \subseteq T
  <2> HIDE DEF T, n
  <2> QED BY <1>2, <1>6, <1>7, Upto
<1>9. SameRows(u[n], W[0].store)
  <2>1. n \in T
    BY <1>2, <1>8
  <2> QED BY <1>2, <2>1
<1>10. u[n] \in Stores /\ u[n].post = s.post /\ W[0].store = c
  BY <1>1, <1>2, <1>5
<1> QED BY <1>4, <1>9, <1>10 DEF W

(* revertBlock undoes exactly what writeBlockEffects wrote. *)
LEMMA UndoExact ==
  ASSUME NEW store \in Stores, NEW e \in Menu, NEW h \in Nat, Valid(store, e)
  PROVE  LET w == writeBlockEffects(store, e, h)
         IN Undoes(w.journal, LedgerOf(store), LedgerOf(w.store))
<1> DEFINE w == writeBlockEffects(store, e, h)
           c == Confirmed(store, e, h)
           W == Writes(c, e.muts)
           n == Len(e.muts)
<1> SUFFICES ASSUME NEW s \in Stores, LedgerOf(s) = LedgerOf(w.store)
             PROVE  Undone(s, w.journal) \in Stores /\ LedgerOf(Undone(s, w.journal)) = LedgerOf(store)
  BY DEF Undoes
<1>1. e.muts \in Seq(RowMutations) /\ n \in Nat /\ e.posts \subseteq Posts /\ e.gone \subseteq Posts
  BY MenuTypes
<1>2. c \in Stores /\ c.rec = store.rec /\ c.box = store.box
  BY ConfirmedType
<1>3. /\ w.store \in Stores /\ w.store.rec = W[n].store.rec /\ w.store.box = W[n].store.box
      /\ \A p \in Posts : /\ w.store.post[p].at = IF p \in e.posts THEN h ELSE store.post[p].at
                          /\ w.store.post[p].gone = IF p \in e.gone THEN h ELSE store.post[p].gone
      /\ w.journal.muts = W[n].muts /\ w.journal.posts = e.posts
      /\ DOMAIN w.journal.bodies = e.gone
      /\ \A p \in e.gone : w.journal.bodies[p] \in BOOLEAN
  BY EffectsAre
<1>4. /\ s.rec = w.store.rec /\ s.box = w.store.box
      /\ \A p \in Posts : s.post[p].at = w.store.post[p].at /\ s.post[p].gone = w.store.post[p].gone
  <2> HIDE DEF w
  <2>1. LedgerOf(s) = LedgerOf(w.store)
    BY DEF w
  <2>2. \A p \in Posts : LedgerOf(s).at[p] = LedgerOf(w.store).at[p] /\ LedgerOf(s).gone[p] = LedgerOf(w.store).gone[p]
    BY <2>1
  <2> QED BY <2>1, <2>2 DEF LedgerOf
<1>5. \A i \in 1 .. n :
        /\ e.muts[i][1] = "insert" => W[i - 1].store.box[e.muts[i][2]] = "none"
        /\ e.muts[i][1] = "consume" => W[i - 1].store.box[e.muts[i][2]] = "live"
  <2> TAKE i \in 1 .. n
  <2> DEFINE l == LedgerOf(store)
  <2>1. l \in Ledgers /\ SameRows(store, l)
    BY LedgerType
  <2>2. SameRows(c, l)
    BY <1>2, <2>1 DEF SameRows
  <2>3. i - 1 \in 0 .. n
    BY <1>1
  <2>4. Writes(store, e.muts)[i - 1].store.box = W[i - 1].store.box
    <3> HIDE DEF l, c
    <3>1. \A k \in 0 .. n : SameRows(Writes(store, e.muts)[k].store, Abstract!Mutations(l, e.muts)[k])
      BY <1>1, <2>1, WritesMutate
    <3>2. \A k \in 0 .. n : SameRows(W[k].store, Abstract!Mutations(l, e.muts)[k])
      BY <1>1, <1>2, <2>1, <2>2, WritesMutate
    <3> QED BY <2>3, <3>1, <3>2 DEF SameRows
  <2>5. /\ e.muts[i][1] = "insert" => Writes(store, e.muts)[i - 1].store.box[e.muts[i][2]] = "none"
        /\ e.muts[i][1] = "consume" => Writes(store, e.muts)[i - 1].store.box[e.muts[i][2]] = "live"
    BY DEF Valid
  <2> QED BY <2>4, <2>5
<1> DEFINE rows == UndoneRows(s, W[n].muts)
<1>6. rows \in Stores /\ rows.rec = c.rec /\ rows.box = c.box /\ rows.post = s.post
  <2>1. SameRows(s, W[n].store)
    BY <1>3, <1>4 DEF SameRows
  <2> HIDE DEF c
  <2>2. rows \in Stores /\ SameRows(rows, c) /\ rows.post = s.post
    BY <1>1, <1>2, <1>5, <2>1, UndoRows
  <2> QED BY <2>2 DEF SameRows
<1> DEFINE posts == UndonePosts(s.post, w.journal)
           r == Undone(s, w.journal)
<1>7. r = [rows EXCEPT !.post = posts]
  BY <1>3, <1>6 DEF Undone
<1>8. \A p \in Posts : store.post[p] \in Rows /\ s.post[p] \in Rows
  BY DEF Stores
<1>9. \A p \in e.posts : store.post[p].at = 0
  BY DEF Valid
<1>10. \A p \in e.gone : store.post[p].gone = 0
  BY DEF Valid
<1> HIDE DEF w
<1>11. \A p \in Posts : posts[p] \in Rows /\ posts[p].at = store.post[p].at /\ posts[p].gone = store.post[p].gone
  <2> TAKE p \in Posts
  <2> DEFINE un == IF p \in e.posts THEN [s.post[p] EXCEPT !.at = 0] ELSE s.post[p]
             last == IF p \in e.gone THEN [un EXCEPT !.gone = 0, !.body = w.journal.bodies[p]] ELSE un
  <2>1. posts[p] = last
    BY <1>3 DEF UndonePosts
  <2>2. un \in Rows /\ un.at = store.post[p].at /\ un.gone = s.post[p].gone
    BY <1>3, <1>4, <1>8, <1>9 DEF Rows
  <2> HIDE DEF un
  <2>3. last \in Rows /\ last.at = un.at /\ last.gone = store.post[p].gone
    BY <1>3, <1>4, <1>10, <2>2 DEF Rows
  <2> QED BY <2>1, <2>2, <2>3
<1>12. posts \in [Posts -> Rows]
  <2>1. posts = [p \in Posts |-> posts[p]]
    BY DEF UndonePosts
  <2> HIDE DEF posts
  <2> QED BY <1>11, <2>1
<1> HIDE DEF rows, posts, r
<1>13. r \in Stores /\ r.rec = c.rec /\ r.box = c.box /\ r.post = posts
  BY <1>6, <1>7, <1>12 DEF Stores
<1>14. LedgerOf(r) \in Ledgers /\ LedgerOf(store) \in Ledgers
  BY <1>13, LedgerType
<1>15. /\ LedgerOf(r).rec = LedgerOf(store).rec /\ LedgerOf(r).box = LedgerOf(store).box
       /\ \A p \in Posts : LedgerOf(r).at[p] = LedgerOf(store).at[p] /\ LedgerOf(r).gone[p] = LedgerOf(store).gone[p]
  BY <1>2, <1>11, <1>13 DEF LedgerOf
<1>16. LedgerOf(r) = LedgerOf(store)
  BY <1>14, <1>15, SameLedger
<1> QED BY <1>13, <1>16 DEF r, w

-----------------------------------------------------------------------------
(* The replay of a chain. *)

\* g is the ledger after each block of c up to n.
IsReplay(g, c, n) ==
  /\ g[0] = Abstract!Genesis
  /\ \A i \in 1 .. n : g[i] = Abstract!Effected(g[i - 1], c[i], i)
  /\ \A i \in 0 .. n : g[i] \in Ledgers

(* A replay has the value its body says. *)
LEMMA ReplayIs ==
  ASSUME NEW c \in Seq(Menu), NEW n \in 0 .. Len(c)
  PROVE  \E g : IsReplay(g, c, n) /\ Abstract!Replay(c, n) = g[n]
<1> DEFINE x == Abstract!Genesis
           Is(g) == g = [i \in 0 .. n |-> IF i = 0 THEN x ELSE Abstract!Effected(g[i - 1], c[i], i)]
           F == [i \in 1 .. n |-> [s \in Ledgers |-> Abstract!Effected(s, c[i], i)]]
           m == CHOOSE f : Is(f)
<1>0. n \in Nat /\ \A i \in 1 .. n : c[i] \in Menu /\ i \in Nat
  OBVIOUS
<1>x. x \in Ledgers
  BY DEF Abstract!Genesis, Ledgers
<1> HIDE DEF x
<1>1. F \in [1 .. n -> [Ledgers -> Ledgers]]
  BY <1>0, EffectedIs
<1>2. \A i \in 1 .. n : \A s \in Ledgers : F[i][s] = Abstract!Effected(s, c[i], i)
  OBVIOUS
<1> HIDE DEF F
<1>3. PICK g \in [0 .. n -> Ledgers] : g[0] = x /\ \A i \in 1 .. n : g[i] = F[i][g[i - 1]]
  <2>1. Defined(n, Ledgers, x, F)
    BY <1>0, <1>x, <1>1, Recursion
  <2> QED BY <2>1 DEF Defined
<1>4. \A i \in 0 .. n : g[i] = IF i = 0 THEN x ELSE Abstract!Effected(g[i - 1], c[i], i)
  <2> TAKE i \in 0 .. n
  <2>1. CASE i = 0
    BY <1>3, <2>1
  <2>2. CASE i # 0
    <3>1. i \in 1 .. n /\ g[i - 1] \in Ledgers
      BY <1>0, <2>2
    <3> QED BY <1>2, <1>3, <2>2, <3>1
  <2> QED BY <2>1, <2>2
<1>5. Is(g)
  BY <1>4
<1>6. Abstract!Replay(c, n) = m[n]
  BY DEF Abstract!Replay, x
<1>7. Is(m)
  <2> HIDE DEF Is
  <2> QED BY <1>5
<1>8. m[0] = x /\ \A i \in 1 .. n : m[i] = Abstract!Effected(m[i - 1], c[i], i)
  <2> HIDE DEF m
  <2> QED BY <1>0, <1>7
<1> HIDE DEF m, Is
<1> DEFINE T == {i \in 0 .. n : m[i] \in Ledgers}
<1>9. 0 \in T
  BY <1>0, <1>x, <1>8
<1>10. \A i \in 1 .. n : i - 1 \in T => i \in T
  <2> TAKE i \in 1 .. n
  <2>1. i \in 0 .. n /\ c[i] \in Menu /\ i \in Nat /\ m[i] = Abstract!Effected(m[i - 1], c[i], i)
    BY <1>0, <1>8
  <2> HAVE i - 1 \in T
  <2>2. m[i - 1] \in Ledgers
    OBVIOUS
  <2>3. Abstract!Effected(m[i - 1], c[i], i) \in Ledgers
    BY <2>1, <2>2, EffectedIs
  <2> QED BY <2>1, <2>3
<1>11. 0 .. n \subseteq T
  <2> HIDE DEF T
  <2> QED BY <1>0, <1>9, <1>10, Upto
<1>12. IsReplay(m, c, n)
  BY <1>8, <1>11 DEF IsReplay, x
<1> QED BY <1>6, <1>12

(* Chains that agree up to k replay alike up to k. *)
LEMMA ReplaysAgree ==
  ASSUME NEW c \in Seq(Menu), NEW d \in Seq(Menu), NEW k \in 0 .. Len(c), k <= Len(d),
         \A i \in 1 .. k : c[i] = d[i], NEW g, NEW f,
         NEW n \in 0 .. Len(c), NEW m \in 0 .. Len(d), k <= n, k <= m,
         IsReplay(g, c, n), IsReplay(f, d, m)
  PROVE  g[k] = f[k]
<1> DEFINE T == {i \in 0 .. k : g[i] = f[i]}
<1>1. k \in Nat /\ 0 \in T
  BY DEF IsReplay
<1>2. \A i \in 1 .. k : i - 1 \in T => i \in T
  <2> TAKE i \in 1 .. k
  <2>1. i \in 1 .. n /\ i \in 1 .. m /\ i \in 0 .. k
    OBVIOUS
  <2> QED BY <2>1 DEF IsReplay
<1>3. 0 .. k \subseteq T
  <2> HIDE DEF T
  <2> QED BY <1>1, <1>2, Upto
<1>4. k \in T
  BY <1>1, <1>3
<1> QED BY <1>4

(* A replay depends on the blocks up to its height only. *)
LEMMA ReplayPrefix ==
  ASSUME NEW c \in Seq(Menu), NEW d \in Seq(Menu), NEW k \in 0 .. Len(c), k <= Len(d),
         \A i \in 1 .. k : c[i] = d[i]
  PROVE  Abstract!Replay(c, k) = Abstract!Replay(d, k)
<1>0. k \in 0 .. Len(d) /\ k <= k
  OBVIOUS
<1>1. PICK g : IsReplay(g, c, k) /\ Abstract!Replay(c, k) = g[k]
  BY ReplayIs
<1>2. PICK f : IsReplay(f, d, k) /\ Abstract!Replay(d, k) = f[k]
  BY <1>0, ReplayIs
<1>3. g[k] = f[k]
  BY <1>0, <1>1, <1>2, ReplaysAgree
<1> QED BY <1>1, <1>2, <1>3

(* One more block is one more step. *)
LEMMA ReplayStep ==
  ASSUME NEW c \in Seq(Menu), NEW n \in 1 .. Len(c)
  PROVE  Abstract!Replay(c, n) = Abstract!Effected(Abstract!Replay(c, n - 1), c[n], n)
<1>0. n - 1 \in 0 .. Len(c) /\ n \in 0 .. Len(c) /\ n - 1 <= n /\ n - 1 <= Len(c)
  OBVIOUS
<1>1. PICK g : IsReplay(g, c, n) /\ Abstract!Replay(c, n) = g[n]
  BY <1>0, ReplayIs
<1>2. PICK f : IsReplay(f, c, n - 1) /\ Abstract!Replay(c, n - 1) = f[n - 1]
  BY <1>0, ReplayIs
<1>3. g[n - 1] = f[n - 1]
  BY <1>0, <1>1, <1>2, ReplaysAgree
<1>4. g[n] = Abstract!Effected(g[n - 1], c[n], n)
  BY <1>1 DEF IsReplay
<1> QED BY <1>1, <1>2, <1>3, <1>4

(* A replay is a ledger. *)
LEMMA ReplayType ==
  ASSUME NEW c \in Seq(Menu), NEW n \in 0 .. Len(c)
  PROVE  Abstract!Replay(c, n) \in Ledgers
<1>1. PICK g : IsReplay(g, c, n) /\ Abstract!Replay(c, n) = g[n]
  BY ReplayIs
<1>2. n \in 0 .. n
  OBVIOUS
<1> QED BY <1>1, <1>2 DEF IsReplay

(* The replay of no block is genesis. *)
LEMMA ReplayNone ==
  Abstract!Replay(<<>>, 0) = Abstract!Genesis
<1>1. <<>> \in Seq(Menu) /\ 0 \in 0 .. Len(<<>>)
  OBVIOUS
<1>2. PICK g : IsReplay(g, <<>>, 0) /\ Abstract!Replay(<<>>, 0) = g[0]
  BY <1>1, ReplayIs
<1> QED BY <1>2 DEF IsReplay

-----------------------------------------------------------------------------
(* The invariant. *)

\* The database is its six parts.
DbShape(d) ==
  d = [x \in {"chain", "store", "journal", "rows", "versions", "pool"} |-> d[x]]

\* A database: its ledger is the replay of its chain, and the journal rows, unbroken
\* up to the tip, each undo their block.
Sound(d) ==
  /\ DbShape(d)
  /\ d.chain \in Seq(Menu)
  /\ d.store \in Stores
  /\ LedgerOf(d.store) = Abstract!Replay(d.chain, Len(d.chain))
  /\ DOMAIN d.journal \subseteq 1 .. Len(d.chain)
  /\ \A h \in DOMAIN d.journal : h .. Len(d.chain) \subseteq DOMAIN d.journal
  /\ \A h \in DOMAIN d.journal :
       Undoes(d.journal[h], Abstract!Replay(d.chain, h - 1), Abstract!Replay(d.chain, h))

\* The first n blocks of two databases are the same.
SameUpto(d, f, n) == n <= Len(d.chain) /\ n <= Len(f.chain) /\ \A i \in 1 .. n : d.chain[i] = f.chain[i]

\* A switch is open exactly while its steps run.
PcInv ==
  /\ pc \in {"idle", "written", "checked", "reverting", "switching", "aborting", "cycle"}
  /\ pc \in {"idle", "cycle"} => ~ InSwitch
  /\ pc \in {"reverting", "switching", "aborting"} => InSwitch

\* What a running block puts back is sound, and the block is valid on it.
InnerInv ==
  /\ pc \in {"written", "checked"} => Sound(inner.db)
  /\ pc = "written" => db = inner.db /\ cur \in Menu /\ Valid(db.store, cur)
  /\ pc = "checked" =>
       \E e \in Menu : Valid(inner.db.store, e) /\ db.chain = Append(inner.db.chain, e)

\* What a running switch puts back is sound, the switch is within the reorg bound, keeps
\* the chain up to its fork and finds a journal for every block it has still to revert.
OuterInv ==
  InSwitch =>
    /\ Sound(outer.db)
    /\ target \in Nat /\ target < Len(outer.db.chain) /\ Len(outer.db.chain) <= target + MaxReorgDepth
    /\ pc # "aborting" => SameUpto(db, outer.db, target)
    /\ pc = "reverting" => target + 1 .. Tip \subseteq DOMAIN db.journal

\* The inductive invariant: the databases now, before the running block and before the
\* running switch are sound.
IInv == Sound(db) /\ PcInv /\ InnerInv /\ OuterInv

\* The tree and its versions are beside the chain, the tables and the journal.
SameTables(d, f) ==
  DbShape(f) /\ f.chain = d.chain /\ f.store = d.store /\ f.journal = d.journal /\ f.pool = d.pool

(* Writing rows and versions leaves the tables. *)
LEMMA TreeWritten ==
  ASSUME NEW d, DbShape(d), NEW rows, NEW versions
  PROVE  SameTables(d, [d EXCEPT !.rows = rows, !.versions = versions])
  BY DEF DbShape, SameTables

(* The tree's update, its prune and its deletion of a version leave the tables. *)
LEMMA TreeSide ==
  ASSUME NEW d, DbShape(d), NEW h, NEW c
  PROVE  /\ SameTables(d, Pruned(Updated(d, h), c))
         /\ SameTables(d, VersionDeleted(d, h))
<1>1. \A g, rows, versions : DbShape(g) => SameTables(g, [g EXCEPT !.rows = rows, !.versions = versions])
  BY TreeWritten
<1>2. SameTables(d, Updated(d, h))
  BY <1>1 DEF Updated
<1>3. SameTables(d, VersionDeleted(d, h))
  BY <1>1 DEF VersionDeleted
<1> DEFINE u == Updated(d, h)
<1> HIDE DEF u
<1>4. ASSUME SameTables(d, u) PROVE SameTables(d, Pruned(u, c))
  <2>1. SameTables(u, Pruned(u, c))
    <3>1. CASE c > 0
      <4> DEFINE r == {x \in u.rows : x.gone = 0 \/ x.gone > c}
                 v == Restrict(u.versions, {i \in DOMAIN u.versions : i >= c})
      <4>1. Pruned(u, c) = [u EXCEPT !.rows = r, !.versions = v]
        BY <3>1 DEF Pruned
      <4> HIDE DEF r, v
      <4>2. DbShape(u)
        BY <1>4 DEF SameTables
      <4>3. SameTables(u, [u EXCEPT !.rows = r, !.versions = v])
        BY <4>2, TreeWritten, Zenon
      <4> QED BY <4>1, <4>3, Zenon
    <3>2. CASE ~(c > 0)
      BY <1>4, <3>2 DEF Pruned, SameTables
    <3> QED BY <3>1, <3>2
  <2> QED BY <1>4, <2>1 DEF SameTables
<1> QED BY <1>2, <1>3, <1>4 DEF u

(* Soundness is about the tables only. *)
LEMMA SoundSame ==
  ASSUME NEW d, NEW f, Sound(d), SameTables(d, f)
  PROVE  Sound(f)
  BY DEF Sound, SameTables

\* f differs from d by bodies, pending rows and the pool only.
Beside(d, f) ==
  /\ DbShape(f) /\ f.chain = d.chain /\ f.journal = d.journal
  /\ f.rows = d.rows /\ f.versions = d.versions
  /\ f.store \in Stores /\ LedgerOf(f.store) = LedgerOf(d.store)

(* A body, a pending row or a pool entry more or less does not matter. *)
LEMMA SoundBeside ==
  ASSUME NEW d, Sound(d), NEW f, Beside(d, f)
  PROVE  Sound(f)
  BY DEF Sound, Beside

(* Tables whose posts keep their heights have the same ledger. *)
LEMMA LedgerBeside ==
  ASSUME NEW store \in Stores, NEW post \in [Posts -> Rows],
         \A p \in Posts : post[p].at = store.post[p].at /\ post[p].gone = store.post[p].gone
  PROVE  LET s == [store EXCEPT !.post = post]
         IN s \in Stores /\ s.post = post /\ LedgerOf(s) = LedgerOf(store)
<1> DEFINE s == [store EXCEPT !.post = post]
<1>1. s \in Stores /\ s.rec = store.rec /\ s.box = store.box /\ s.post = post
  BY DEF Stores
<1> HIDE DEF s
<1>2. LedgerOf(s) = LedgerOf(store)
  BY <1>1 DEF LedgerOf
<1> QED BY <1>1, <1>2 DEF s

\* The posts of these tables with some pending rows deleted.
PostsWithout(store, left) ==
  [p \in Posts |-> IF store.post[p].at = 0 /\ \E t \in left : p \in Tx[t].posts
                     THEN [store.post[p] EXCEPT !.row = FALSE, !.body = FALSE] ELSE store.post[p]]

(* Deleting pending rows keeps the tables and their ledger. *)
LEMMA DeletedPending ==
  ASSUME NEW store \in Stores, NEW left
  PROVE  LET s == deletePendingPosts(store, left)
         IN s \in Stores /\ s.post = PostsWithout(store, left) /\ LedgerOf(s) = LedgerOf(store)
<1> DEFINE post == PostsWithout(store, left)
<1>1. \A p \in Posts : store.post[p] \in Rows
  BY DEF Stores
<1>2. /\ post \in [Posts -> Rows]
      /\ \A p \in Posts : post[p].at = store.post[p].at /\ post[p].gone = store.post[p].gone
  BY <1>1 DEF PostsWithout, Rows
<1>3. deletePendingPosts(store, left) = [store EXCEPT !.post = post]
  BY DEF deletePendingPosts, PostsWithout
<1> HIDE DEF post
<1> QED BY <1>2, <1>3, LedgerBeside DEF post

(* removeUnconfirmed takes the closure out of the pool and its pending rows with it. *)
LEMMA Removed ==
  ASSUME NEW d, DbShape(d), d.store \in Stores, NEW seeds
  PROVE  LET f == removeUnconfirmed(d, seeds)
             left == Closure(d.pool, seeds)
         IN /\ Beside(d, f) /\ f.pool = d.pool \ left
            /\ f.store.post = PostsWithout(d.store, left)
<1> DEFINE left == Closure(d.pool, seeds)
           s == deletePendingPosts(d.store, left)
           f == removeUnconfirmed(d, seeds)
<1>1. s \in Stores /\ s.post = PostsWithout(d.store, left) /\ LedgerOf(s) = LedgerOf(d.store)
  <2> HIDE DEF left
  <2> QED BY DeletedPending
<1>2. f = [d EXCEPT !.pool = d.pool \ left, !.store = s]
  BY DEF removeUnconfirmed
<1> HIDE DEF s, left, f
<1>3. /\ DbShape(f) /\ f.chain = d.chain /\ f.journal = d.journal /\ f.rows = d.rows
      /\ f.versions = d.versions /\ f.store = s /\ f.pool = d.pool \ left
  BY <1>2 DEF DbShape
<1> QED BY <1>1, <1>3 DEF Beside, f, left

\* The entries a block's pool loses beside its own.
LeftBy(pool, e, expired) ==
  Closure(pool \ e.txs, expired \cup {t \in Txs : Tx[t].ins \cap Consumed(e) # {}})

(* followAppliedBlock touches the pool and pending rows only. *)
LEMMA Followed ==
  ASSUME NEW d, DbShape(d), d.store \in Stores, NEW e, NEW expired
  PROVE  LET f == followAppliedBlock(d, e, expired)
             left == LeftBy(d.pool, e, expired)
         IN /\ Beside(d, f) /\ f.pool = (d.pool \ e.txs) \ left
            /\ f.store.post = PostsWithout(d.store, left)
<1> DEFINE g == [d EXCEPT !.pool = d.pool \ e.txs]
           seeds == expired \cup {t \in Txs : Tx[t].ins \cap Consumed(e) # {}}
           f == removeUnconfirmed(g, seeds)
<1>1. /\ DbShape(g) /\ g.chain = d.chain /\ g.journal = d.journal /\ g.rows = d.rows
      /\ g.versions = d.versions /\ g.store = d.store /\ g.pool = d.pool \ e.txs
  BY DEF DbShape
<1>2. followAppliedBlock(d, e, expired) = f
  BY DEF followAppliedBlock
<1>3. /\ Beside(g, f) /\ f.pool = g.pool \ Closure(g.pool, seeds)
      /\ f.store.post = PostsWithout(g.store, Closure(g.pool, seeds))
  <2> HIDE DEF g, seeds
  <2> QED BY <1>1, Removed
<1>4. Closure(g.pool, seeds) = LeftBy(d.pool, e, expired)
  BY <1>1 DEF LeftBy
<1> HIDE DEF g, seeds, f
<1> QED BY <1>1, <1>2, <1>3, <1>4 DEF Beside

\* The journal with a block's row, from a height on.
Journalled(d, e, low) ==
  LET h == Len(d.chain) + 1
      j == [i \in DOMAIN d.journal \cup {h} |->
              IF i = h THEN writeBlockEffects(d.store, e, h).journal ELSE d.journal[i]]
  IN Restrict(j, {i \in DOMAIN j : i >= low})

(* A valid block on a sound database leaves one. *)
LEMMA SoundExtended ==
  ASSUME NEW d, Sound(d), NEW e \in Menu, Valid(d.store, e), NEW f, DbShape(f), NEW low,
         f.chain = Append(d.chain, e),
         f.store \in Stores,
         LedgerOf(f.store) = LedgerOf(writeBlockEffects(d.store, e, Len(d.chain) + 1).store),
         low \in Int, f.journal = Journalled(d, e, low)
  PROVE  Sound(f)
<1> DEFINE h == Len(d.chain) + 1
           w == writeBlockEffects(d.store, e, h)
           c == d.chain
           fc == f.chain
<1>1. c \in Seq(Menu) /\ d.store \in Stores /\ LedgerOf(d.store) = Abstract!Replay(c, Len(c))
  BY DEF Sound
<1>2. h \in Nat /\ fc \in Seq(Menu) /\ Len(fc) = h /\ fc[h] = e /\ h \in 1 .. Len(fc)
      /\ h - 1 = Len(c) /\ \A i \in 1 .. Len(c) : fc[i] = c[i]
  BY <1>1
<1>3. f.store \in Stores /\ LedgerOf(f.store) = LedgerOf(w.store)
  OBVIOUS
<1>4. w.store \in Stores /\ LedgerOf(w.store) = Abstract!Effected(LedgerOf(d.store), e, h)
  BY <1>1, <1>2, EffectsAre, WriteLedger
<1>5. Undoes(w.journal, LedgerOf(d.store), LedgerOf(w.store))
  BY <1>1, <1>2, UndoExact
<1>6. /\ DOMAIN f.journal = {i \in DOMAIN d.journal \cup {h} : i >= low}
      /\ \A i \in DOMAIN f.journal : f.journal[i] = IF i = h THEN w.journal ELSE d.journal[i]
  <2> DEFINE j == [i \in DOMAIN d.journal \cup {h} |-> IF i = h THEN w.journal ELSE d.journal[i]]
  <2>1. f.journal = Restrict(j, {i \in DOMAIN j : i >= low})
    BY DEF Journalled
  <2> HIDE DEF w, h
  <2> QED BY <2>1 DEF Restrict
<1>7. /\ DOMAIN d.journal \subseteq 1 .. Len(c)
      /\ \A i \in DOMAIN d.journal : i .. Len(c) \subseteq DOMAIN d.journal
      /\ \A i \in DOMAIN d.journal : Undoes(d.journal[i], Abstract!Replay(c, i - 1), Abstract!Replay(c, i))
  BY DEF Sound
<1> HIDE DEF w, h, c, fc
<1>8. \A i \in 0 .. Len(c) : Abstract!Replay(fc, i) = Abstract!Replay(c, i)
  <2> TAKE i \in 0 .. Len(c)
  <2>1. i \in 0 .. Len(fc) /\ i <= Len(c) /\ \A j \in 1 .. i : fc[j] = c[j]
    BY <1>1, <1>2
  <2> QED BY <1>1, <1>2, <2>1, ReplayPrefix
<1>9. Abstract!Replay(fc, h) = LedgerOf(w.store) /\ Abstract!Replay(fc, h - 1) = LedgerOf(d.store)
  <2>1. Len(c) \in 0 .. Len(c)
    BY <1>1
  <2>2. Abstract!Replay(fc, h - 1) = LedgerOf(d.store)
    BY <1>1, <1>2, <1>8, <2>1
  <2>3. Abstract!Replay(fc, h) = Abstract!Effected(Abstract!Replay(fc, h - 1), fc[h], h)
    BY <1>2, ReplayStep
  <2> QED BY <1>2, <1>4, <2>2, <2>3
<1>10. DOMAIN f.journal \subseteq 1 .. h
  <2> SUFFICES ASSUME NEW i \in DOMAIN f.journal PROVE i \in 1 .. h
    OBVIOUS
  <2>1. CASE i = h
    BY <1>2, <2>1
  <2>2. CASE i # h
    <3>1. i \in DOMAIN d.journal
      BY <1>6, <2>2
    <3>2. i \in 1 .. Len(c) /\ Len(c) \in Nat
      BY <1>1, <1>7, <3>1
    <3> QED BY <1>2, <3>2
  <2> QED BY <2>1, <2>2
<1>11. \A i \in DOMAIN f.journal : i .. h \subseteq DOMAIN f.journal
  <2> TAKE i \in DOMAIN f.journal
  <2> SUFFICES ASSUME NEW k \in i .. h PROVE k \in DOMAIN f.journal
    OBVIOUS
  <2>1. i \in 1 .. h /\ i >= low
    BY <1>6, <1>10
  <2>2. k \in Int /\ k >= low /\ k <= h /\ k >= i
    BY <1>2, <2>1
  <2>3. CASE k = h
    BY <1>6, <2>2, <2>3
  <2>4. CASE k # h
    <3>1. i \in DOMAIN d.journal
      BY <1>2, <1>6, <2>1, <2>2, <2>4
    <3>2. k \in i .. Len(c)
      BY <1>1, <1>2, <2>2, <2>4
    <3> QED BY <1>6, <1>7, <2>2, <3>1, <3>2
  <2> QED BY <2>3, <2>4
<1>12. \A i \in DOMAIN f.journal :
         Undoes(f.journal[i], Abstract!Replay(fc, i - 1), Abstract!Replay(fc, i))
  <2> TAKE i \in DOMAIN f.journal
  <2>1. CASE i = h
    BY <1>5, <1>6, <1>9, <2>1
  <2>2. CASE i # h
    <3>1. i \in DOMAIN d.journal /\ f.journal[i] = d.journal[i]
      BY <1>6, <2>2
    <3>2. i \in 0 .. Len(c) /\ i - 1 \in 0 .. Len(c)
      BY <1>1, <1>7, <3>1
    <3> QED BY <1>7, <1>8, <3>1, <3>2
  <2> QED BY <2>1, <2>2
<1> QED BY <1>2, <1>3, <1>4, <1>9, <1>10, <1>11, <1>12 DEF Sound, fc

(* Undoing the newest block of a sound database leaves one. *)
LEMMA SoundReverted ==
  ASSUME NEW d, Sound(d), Len(d.chain) \in DOMAIN d.journal, NEW f, DbShape(f),
         LET h == Len(d.chain)
         IN /\ f.chain = Front(d.chain)
            /\ f.store = Undone(d.store, d.journal[h])
            /\ f.journal = Restrict(d.journal, DOMAIN d.journal \ {h})
  PROVE  Sound(f) /\ SameUpto(f, d, Len(d.chain) - 1)
<1> DEFINE h == Len(d.chain)
           c == d.chain
           fc == f.chain
<1>1. c \in Seq(Menu) /\ d.store \in Stores /\ LedgerOf(d.store) = Abstract!Replay(c, Len(c))
  BY DEF Sound
<1>2. /\ DOMAIN d.journal \subseteq 1 .. Len(c)
      /\ \A i \in DOMAIN d.journal : i .. Len(c) \subseteq DOMAIN d.journal
      /\ \A i \in DOMAIN d.journal : Undoes(d.journal[i], Abstract!Replay(c, i - 1), Abstract!Replay(c, i))
  BY DEF Sound
<1>3. h \in Nat /\ h \in 1 .. Len(c) /\ h = Len(c) /\ h \in DOMAIN d.journal
  BY <1>1, <1>2
<1>4. fc \in Seq(Menu) /\ Len(fc) = h - 1 /\ \A i \in 1 .. h - 1 : fc[i] = c[i]
  BY <1>1, <1>3 DEF Front
<1>5. /\ DOMAIN f.journal = DOMAIN d.journal \ {h}
      /\ \A i \in DOMAIN f.journal : f.journal[i] = d.journal[i]
  BY DEF Restrict
<1>6. f.store = Undone(d.store, d.journal[h])
  OBVIOUS
<1> HIDE DEF h, c, fc
<1>7. \A i \in 0 .. h - 1 : Abstract!Replay(fc, i) = Abstract!Replay(c, i)
  <2> TAKE i \in 0 .. h - 1
  <2>1. i \in 0 .. Len(fc) /\ i <= Len(c) /\ \A j \in 1 .. i : fc[j] = c[j]
    BY <1>3, <1>4
  <2> QED BY <1>1, <1>4, <2>1, ReplayPrefix
<1>8. f.store \in Stores /\ LedgerOf(f.store) = Abstract!Replay(c, h - 1)
  <2>1. Undoes(d.journal[h], Abstract!Replay(c, h - 1), Abstract!Replay(c, h))
    BY <1>2, <1>3
  <2> QED BY <1>1, <1>3, <1>6, <2>1 DEF Undoes
<1>9. LedgerOf(f.store) = Abstract!Replay(fc, Len(fc))
  BY <1>3, <1>4, <1>7, <1>8
<1>10. DOMAIN f.journal \subseteq 1 .. Len(fc)
  BY <1>2, <1>3, <1>4, <1>5
<1>11. \A i \in DOMAIN f.journal : i .. Len(fc) \subseteq DOMAIN f.journal
  <2> TAKE i \in DOMAIN f.journal
  <2> SUFFICES ASSUME NEW k \in i .. Len(fc) PROVE k \in DOMAIN f.journal
    OBVIOUS
  <2>1. i \in DOMAIN d.journal /\ i \in 1 .. h - 1
    BY <1>4, <1>5, <1>10
  <2>2. k \in i .. Len(c) /\ k # h
    BY <1>3, <1>4, <2>1
  <2> QED BY <1>2, <1>5, <2>1, <2>2
<1>12. \A i \in DOMAIN f.journal :
         Undoes(f.journal[i], Abstract!Replay(fc, i - 1), Abstract!Replay(fc, i))
  <2> TAKE i \in DOMAIN f.journal
  <2>1. i \in DOMAIN d.journal /\ f.journal[i] = d.journal[i]
    BY <1>5
  <2>2. i \in 0 .. h - 1 /\ i - 1 \in 0 .. h - 1
    <3>1. i \in 1 .. h - 1
      BY <1>4, <1>10
    <3> QED BY <1>3, <3>1
  <2> QED BY <1>2, <1>7, <2>1, <2>2
<1>13. Sound(f)
  BY <1>4, <1>8, <1>9, <1>10, <1>11, <1>12 DEF Sound, fc
<1>14. SameUpto(f, d, h - 1)
  BY <1>3, <1>4 DEF SameUpto, fc, c
<1> QED BY <1>13, <1>14 DEF h

-----------------------------------------------------------------------------
(* The invariant holds, and what a step does to the committed tables. *)

\* The committed chain and ledger stay.
Same == Committed.chain' = Committed.chain /\ LedgerOf(Committed.store)' = LedgerOf(Committed.store)

(* The invariant holds at genesis. *)
LEMMA InitInv == Init => IInv
<1> SUFFICES ASSUME Init PROVE IInv
  OBVIOUS
<1>1. /\ db.chain = <<>> /\ db.store = EmptyStore /\ DOMAIN db.journal = {} /\ DbShape(db)
      /\ pc = "idle" /\ inner = None /\ outer = None
  BY DEF Init, DbShape
<1>2. EmptyStore \in Stores
  BY DEF EmptyStore, Stores, NoRow, Rows
<1>3. LedgerOf(EmptyStore) = Abstract!Genesis
  BY DEF LedgerOf, EmptyStore, NoRow, Abstract!Genesis
<1>4. <<>> \in Seq(Menu) /\ Len(<<>>) = 0
  OBVIOUS
<1>5. Sound(db)
  BY <1>1, <1>2, <1>3, <1>4, ReplayNone DEF Sound
<1> QED BY <1>1, <1>5 DEF IInv, PcInv, InnerInv, OuterInv, InSwitch

(* A saved state is not the absent one. *)
LEMMA NotNone ==
  ASSUME NEW a, NEW b, NEW c
  PROVE  [db |-> a, root |-> b, ring |-> c] # None
<1>1. "db" \in DOMAIN [db |-> a, root |-> b, ring |-> c] /\ "db" \notin DOMAIN None
  BY DEF None
<1> QED BY <1>1

(* Nothing changes in a stuttering step. *)
LEMMA StutterInv ==
  ASSUME IInv, UNCHANGED vars
  PROVE  IInv' /\ Same
  BY DEF IInv, PcInv, InnerInv, OuterInv, Same, vars, proverVars, Committed, InSwitch, Tip

(* Beginning a block writes no table. *)
LEMMA BeginInv ==
  ASSUME IInv, NEW e \in Menu, pc \in {"idle", "switching"}, Begin(e)
  PROVE  IInv' /\ Same
<1>1. /\ Valid(db.store, e) /\ inner'.db = db /\ cur' = e /\ pc' = "written"
      /\ db' = db /\ outer' = outer /\ target' = target
  BY DEF Begin
<1>2. Sound(db) /\ PcInv /\ OuterInv
  BY DEF IInv
<1>3. Sound(db)' /\ PcInv'
  BY <1>1, <1>2 DEF PcInv, InSwitch
<1>4. InnerInv'
  BY <1>1, <1>2 DEF InnerInv
<1>5. OuterInv'
  BY <1>1, <1>2 DEF OuterInv, InSwitch, PcInv, Tip
<1>6. Same
  BY <1>1, <1>2 DEF Same, Committed, InSwitch, PcInv
<1> QED BY <1>3, <1>4, <1>5, <1>6 DEF IInv

(* A block's effects are written in the open transaction: nothing is committed yet. *)
LEMMA CheckpointInv ==
  ASSUME IInv, NEW expired, Checkpoint(expired)
  PROVE  IInv' /\ Same
<1>0. pc = "written" /\ inner' = inner /\ outer' = outer /\ target' = target
  BY DEF Checkpoint
<1>1. Sound(db) /\ PcInv /\ InnerInv /\ OuterInv
  BY DEF IInv
<1>2. Sound(inner.db) /\ db = inner.db /\ cur \in Menu /\ Valid(db.store, cur)
  BY <1>0, <1>1 DEF InnerInv
<1>3. CASE UNCHANGED <<db, base, pc, cur>>
  BY <1>0, <1>1, <1>3 DEF IInv, PcInv, InnerInv, OuterInv, Same, Committed, InSwitch, Tip
<1> DEFINE h == Tip + 1
           w == writeBlockEffects(db.store, cur, h)
           written == [db EXCEPT !.chain = Append(@, cur), !.store = w.store]
           tabled == followAppliedBlock(written, cur, expired)
           checked == Pruned(Updated(tabled, h), h - MaxProofHistory)
           journal == [i \in DOMAIN db.journal \cup {h} |-> IF i = h THEN w.journal ELSE db.journal[i]]
           kept == Restrict(journal, {i \in DOMAIN journal : i >= h - MaxReorgDepth})
<1>4. CASE db' = [checked EXCEPT !.journal = kept] /\ pc' = "checked"
  <2>1. /\ DbShape(tabled) /\ tabled.chain = Append(db.chain, cur)
        /\ tabled.store \in Stores /\ LedgerOf(tabled.store) = LedgerOf(w.store)
    <3>1. DbShape(db) /\ db.store \in Stores /\ h \in Nat
      BY <1>1 DEF Sound, Tip
    <3>2. w.store \in Stores
      BY <1>2, <3>1, EffectsAre
    <3> HIDE DEF w
    <3>3. DbShape(written) /\ written.chain = Append(db.chain, cur) /\ written.store = w.store
      BY <3>1 DEF DbShape
    <3> HIDE DEF written
    <3>4. Beside(written, tabled)
      BY <3>2, <3>3, Followed
    <3> QED BY <3>3, <3>4 DEF Beside
  <2>2. SameTables(tabled, checked)
    <3> HIDE DEF tabled, h
    <3> QED BY <2>1, TreeSide
  <2>3. /\ DbShape(db') /\ db'.chain = Append(db.chain, cur) /\ db'.journal = kept
        /\ db'.store \in Stores /\ LedgerOf(db'.store) = LedgerOf(w.store)
    <3> HIDE DEF tabled, checked, kept, w
    <3>1. /\ DbShape(checked) /\ checked.chain = Append(db.chain, cur)
          /\ checked.store \in Stores /\ LedgerOf(checked.store) = LedgerOf(w.store)
      BY <2>1, <2>2 DEF SameTables
    <3> HIDE DEF SameTables
    <3> QED BY <1>4, <3>1 DEF DbShape
  <2>4. Sound(db')
    <3>1. Len(db.chain) \in Nat /\ (Len(db.chain) + 1) - MaxReorgDepth \in Int
      BY <1>1, HistoryAssumption DEF Sound
    <3>2. db'.chain = Append(db.chain, cur)
      BY <2>3
    <3>3. LedgerOf(db'.store) = LedgerOf(writeBlockEffects(db.store, cur, Len(db.chain) + 1).store)
      BY <2>3 DEF Tip
    <3>4. kept = Journalled(db, cur, (Len(db.chain) + 1) - MaxReorgDepth)
      BY DEF Journalled, Tip
    <3>5. db'.journal = Journalled(db, cur, (Len(db.chain) + 1) - MaxReorgDepth)
      <4> HIDE DEF kept
      <4> QED BY <2>3, <3>4
    <3> HIDE DEF tabled, written, checked, kept, w, journal, h
    <3> QED BY <1>1, <1>2, <2>3, <3>1, <3>2, <3>3, <3>5, SoundExtended
  <2>5. PcInv'
    BY <1>0, <1>1, <1>4 DEF PcInv, InSwitch
  <2>6. InnerInv'
    BY <1>0, <1>2, <1>4, <2>3 DEF InnerInv
  <2>7. OuterInv'
    <3>1. SUFFICES ASSUME InSwitch PROVE OuterInv'
      BY <1>0 DEF OuterInv, InSwitch
    <3>2. /\ Sound(outer.db) /\ target \in Nat /\ target < Len(outer.db.chain)
          /\ Len(outer.db.chain) <= target + MaxReorgDepth /\ SameUpto(db, outer.db, target)
      BY <1>0, <1>1, <3>1 DEF OuterInv
    <3>3. SameUpto(db', outer.db, target)
      <4>1. db.chain \in Seq(Menu)
        BY <1>1 DEF Sound
      <4>2. db'.chain = Append(db.chain, cur)
        BY <2>3
      <4> QED BY <1>2, <3>2, <4>1, <4>2 DEF SameUpto
    <3> HIDE DEF tabled, written, checked, kept, w, journal, h
    <3> QED BY <1>0, <1>4, <3>2, <3>3 DEF OuterInv
  <2>8. Same
    BY <1>0, <1>2, <1>4 DEF Same, Committed, InSwitch
  <2> QED BY <2>4, <2>5, <2>6, <2>7, <2>8 DEF IInv
<1>5. UNCHANGED <<db, base, pc, cur>> \/ (db' = [checked EXCEPT !.journal = kept] /\ pc' = "checked")
  BY DEF Checkpoint
<1> QED BY <1>3, <1>4, <1>5

(* A block that stands outside a switch extends the committed chain by itself; in a
   switch nothing is committed. *)
LEMMA FinishInv ==
  ASSUME IInv, Finish
  PROVE  IInv' /\ (Same \/ Abstract!Extend)
<1>0. /\ pc = "checked" /\ pc' = IF InSwitch THEN "switching" ELSE "idle"
      /\ db' = db /\ outer' = outer /\ target' = target
  BY DEF Finish
<1>1. Sound(db) /\ PcInv /\ InnerInv /\ OuterInv
  BY DEF IInv
<1>2. Sound(db)' /\ PcInv' /\ InnerInv' /\ OuterInv'
  BY <1>0, <1>1 DEF PcInv, InnerInv, OuterInv, InSwitch, Tip
<1>3. CASE InSwitch
  <2>1. Same
    BY <1>0, <1>3 DEF Same, Committed, InSwitch
  <2> QED BY <1>2, <2>1 DEF IInv
<1>4. CASE ~ InSwitch
  <2> DEFINE d == inner.db
  <2>1. Committed = d /\ Committed' = db
    BY <1>0, <1>4 DEF Committed, InSwitch
  <2>2. Sound(d)
    BY <1>0, <1>1 DEF InnerInv
  <2>3. PICK e \in Menu : Valid(d.store, e) /\ db.chain = Append(d.chain, e)
    BY <1>0, <1>1 DEF InnerInv
  <2> DEFINE n == Len(d.chain) + 1
  <2>4. /\ d.chain \in Seq(Menu) /\ d.store \in Stores
        /\ LedgerOf(d.store) = Abstract!Replay(d.chain, Len(d.chain))
        /\ LedgerOf(db.store) = Abstract!Replay(db.chain, Len(db.chain))
        /\ db.chain \in Seq(Menu)
    BY <1>1, <2>2 DEF Sound
  <2>5. /\ Len(db.chain) = n /\ n \in 1 .. Len(db.chain) /\ n - 1 = Len(d.chain) /\ db.chain[n] = e
        /\ Len(d.chain) \in 0 .. Len(db.chain) /\ Len(d.chain) <= Len(d.chain)
        /\ \A i \in 1 .. Len(d.chain) : db.chain[i] = d.chain[i]
    BY <2>3, <2>4
  <2> HIDE DEF d, n
  <2>6. Abstract!Replay(db.chain, n) = Abstract!Effected(Abstract!Replay(db.chain, n - 1), e, n)
    BY <2>4, <2>5, ReplayStep
  <2>7. Abstract!Replay(db.chain, n - 1) = LedgerOf(d.store)
    BY <2>4, <2>5, ReplayPrefix
  <2>8. LedgerOf(db.store) = Abstract!Effected(LedgerOf(d.store), e, n)
    BY <2>4, <2>5, <2>6, <2>7
  <2>9. Abstract!Valid(LedgerOf(d.store), e)
    BY <2>3, <2>4, ValidSame
  <2>10. /\ Abstract!Valid(LedgerOf(Committed.store), e)
         /\ Committed.chain' = Append(Committed.chain, e)
         /\ LedgerOf(Committed.store)' = Abstract!Effected(LedgerOf(Committed.store), e, Len(Committed.chain) + 1)
    BY <1>0, <2>1, <2>3, <2>8, <2>9 DEF n
  <2>11. Abstract!Extend
    BY <2>10 DEF Abstract!Extend
  <2> QED BY <1>2, <2>11 DEF IInv
<1> QED BY <1>3, <1>4

(* A refused block leaves what was committed. *)
LEMMA RefuseBlockInv ==
  ASSUME IInv, RefuseBlock
  PROVE  IInv' /\ Same
<1>0. /\ pc \in {"written", "checked"} /\ pc' = IF InSwitch THEN "aborting" ELSE "idle"
      /\ db' = inner.db /\ outer' = outer /\ target' = target
  BY DEF RefuseBlock
<1>1. PcInv /\ InnerInv /\ OuterInv
  BY DEF IInv
<1>2. Sound(db)'
  BY <1>0, <1>1 DEF InnerInv
<1>3. PcInv' /\ InnerInv' /\ OuterInv'
  BY <1>0, <1>1 DEF PcInv, InnerInv, OuterInv, InSwitch
<1>4. Same
  BY <1>0, <1>1 DEF Same, Committed, InSwitch
<1> QED BY <1>2, <1>3, <1>4 DEF IInv

(* Max of three integers is at least each of them. *)
LEMMA MaxOfThree ==
  ASSUME NEW a \in Int, NEW b \in Int, NEW c \in Int
  PROVE  Max({a, b, c}) \in Int /\ Max({a, b, c}) >= a /\ Max({a, b, c}) >= b /\ Max({a, b, c}) >= c
<1>1. \E x \in {a, b, c} : \A y \in {a, b, c} : x >= y
  BY SMT
<1> DEFINE S == {a, b, c}
<1>2. Max(S) \in S /\ \A y \in S : Max(S) >= y
  <2> HIDE DEF S
  <2> QED BY <1>1 DEF Max, S
<1> QED BY <1>2

(* A switch starts at a fork the journal reaches. *)
LEMMA StartSwitchInv ==
  ASSUME IInv, NEW f, StartSwitch(f)
  PROVE  IInv' /\ Same
<1>0. /\ pc = "idle" /\ pc' = "reverting" /\ f \in ReachFloor .. Tip - 1
      /\ outer' = [db |-> db, root |-> root, ring |-> ring] /\ target' = f
      /\ db' = db /\ inner' = inner
  BY DEF StartSwitch, proverVars
<1>1. Sound(db) /\ PcInv
  BY DEF IInv
<1>2. /\ db.chain \in Seq(Menu) /\ Tip \in Nat /\ DOMAIN db.journal \subseteq 1 .. Tip
      /\ \A h \in DOMAIN db.journal : h .. Tip \subseteq DOMAIN db.journal
  BY <1>1 DEF Sound, Tip
<1>3. outer' # None /\ outer'.db = db
  BY <1>0, NotNone
<1> DEFINE J == DOMAIN db.journal \cup {Tip + 1}
<1>4. LowestJournal \in J /\ J \subseteq Nat
  <2>1. J \subseteq Nat /\ J # {}
    BY <1>2
  <2>2. LowestJournal = Min(J)
    BY DEF LowestJournal
  <2> HIDE DEF J
  <2> QED BY <2>1, <2>2, MinOf
<1>5. ReachFloor \in Int /\ ReachFloor >= 0 /\ ReachFloor >= Tip - MaxReorgDepth /\ ReachFloor >= LowestJournal - 1
  <2>1. MaxReorgDepth \in Nat /\ LowestJournal \in Nat
    BY <1>4, HistoryAssumption
  <2>2. Tip - MaxReorgDepth \in Int /\ LowestJournal - 1 \in Int
    BY <1>2, <2>1
  <2> DEFINE a == Tip - MaxReorgDepth
             b == LowestJournal - 1
  <2>3. ReachFloor = Max({0, a, b})
    BY DEF ReachFloor
  <2> HIDE DEF J, a, b
  <2>4. a \in Int /\ b \in Int /\ 0 \in Int
    BY <2>2 DEF a, b
  <2>5. Max({0, a, b}) \in Int /\ Max({0, a, b}) >= 0 /\ Max({0, a, b}) >= a /\ Max({0, a, b}) >= b
    BY <2>4, MaxOfThree
  <2> QED BY <2>3, <2>5 DEF a, b
<1>6. f \in Nat /\ f < Tip /\ Tip <= f + MaxReorgDepth /\ LowestJournal <= f + 1
  <2>1. MaxReorgDepth \in Nat /\ LowestJournal \in Nat
    BY <1>4, HistoryAssumption
  <2> HIDE DEF J
  <2> QED BY <1>0, <1>2, <1>5, <2>1
<1>7. f + 1 .. Tip \subseteq DOMAIN db.journal
  <2>1. LowestJournal \in DOMAIN db.journal
    BY <1>2, <1>4, <1>6
  <2>2. LowestJournal \in Nat /\ LowestJournal .. Tip \subseteq DOMAIN db.journal
    BY <1>2, <1>4, <2>1
  <2> QED BY <1>2, <1>6, <2>2
<1>8. SameUpto(db, db, f)
  BY <1>2, <1>6 DEF SameUpto, Tip
<1>9. Sound(db)' /\ PcInv' /\ InnerInv'
  BY <1>0, <1>1, <1>3 DEF PcInv, InnerInv, InSwitch
<1>10. OuterInv'
  BY <1>0, <1>1, <1>3, <1>6, <1>7, <1>8 DEF OuterInv, InSwitch, Tip
<1>11. Same
  BY <1>0, <1>1, <1>3 DEF Same, Committed, InSwitch, PcInv
<1> QED BY <1>9, <1>10, <1>11 DEF IInv

(* A revert undoes the newest block and keeps the chain up to the fork. *)
LEMMA RevertInv ==
  ASSUME IInv, Revert
  PROVE  IInv' /\ Same
<1> DEFINE h == Tip
           untabled == [db EXCEPT !.store = Undone(@, db.journal[h]), !.chain = Front(@),
                                  !.journal = Restrict(@, DOMAIN @ \ {h})]
<1>0. /\ pc = "reverting" /\ h > target /\ db' = VersionDeleted(untabled, h)
      /\ pc' = pc /\ inner' = inner /\ outer' = outer /\ target' = target
  BY DEF Revert
<1>1. Sound(db) /\ PcInv /\ OuterInv /\ InSwitch
  BY <1>0 DEF IInv, PcInv
<1>2. /\ Sound(outer.db) /\ target \in Nat /\ target < Len(outer.db.chain)
      /\ Len(outer.db.chain) <= target + MaxReorgDepth
      /\ SameUpto(db, outer.db, target) /\ target + 1 .. Tip \subseteq DOMAIN db.journal
  BY <1>0, <1>1 DEF OuterInv
<1>3. db.chain \in Seq(Menu) /\ h \in Nat /\ h = Len(db.chain)
  BY <1>1 DEF Sound, Tip
<1>4. /\ DbShape(untabled) /\ untabled.chain = Front(db.chain)
      /\ untabled.store = Undone(db.store, db.journal[h])
      /\ untabled.journal = Restrict(db.journal, DOMAIN db.journal \ {h})
  <2>1. DbShape(db)
    BY <1>1 DEF Sound
  <2> HIDE DEF h
  <2> QED BY <2>1 DEF DbShape
<1>5. SameTables(untabled, db')
  <2> HIDE DEF untabled, h
  <2> QED BY <1>0, <1>4, TreeSide
<1>6. h \in DOMAIN db.journal
  BY <1>0, <1>2, <1>3
<1> HIDE DEF untabled
<1>7. Sound(untabled) /\ SameUpto(untabled, db, h - 1)
  BY <1>1, <1>3, <1>4, <1>6, SoundReverted
<1>8. Sound(db')
  BY <1>5, <1>7, SoundSame
<1>9. db'.chain = Front(db.chain) /\ db'.journal = Restrict(db.journal, DOMAIN db.journal \ {h})
  BY <1>4, <1>5 DEF SameTables
<1>10. Len(db'.chain) = h - 1
  <2>1. h \in 1 .. h
    BY <1>0, <1>2, <1>3
  <2> DEFINE c == db.chain
  <2>2. c \in Seq(Menu) /\ Len(c) = h /\ db'.chain = SubSeq(c, 1, Len(c) - 1)
    BY <1>3, <1>9 DEF Front
  <2> HIDE DEF c, h
  <2> QED BY <2>1, <2>2
<1>11. SameUpto(db', outer.db, target)
  <2>1. \A i \in 1 .. h - 1 : db'.chain[i] = db.chain[i]
    BY <1>4, <1>7, <1>9 DEF SameUpto
  <2>2. target <= h - 1 /\ \A i \in 1 .. target : i \in 1 .. h - 1
    BY <1>0, <1>2, <1>3
  <2>3. target <= Len(outer.db.chain) /\ \A i \in 1 .. target : db.chain[i] = outer.db.chain[i]
    BY <1>2 DEF SameUpto
  <2> HIDE DEF h
  <2> QED BY <1>10, <2>1, <2>2, <2>3 DEF SameUpto
<1>12. target + 1 .. Tip' \subseteq DOMAIN db'.journal
  <2>1. Tip' = h - 1
    BY <1>10 DEF Tip
  <2>2. DOMAIN db'.journal = DOMAIN db.journal \ {h}
    BY <1>9 DEF Restrict
  <2>3. target + 1 .. h \subseteq DOMAIN db.journal
    BY <1>2
  <2> HIDE DEF h
  <2> QED BY <1>2, <1>3, <2>1, <2>2, <2>3
<1>13. PcInv' /\ InnerInv'
  BY <1>0, <1>1 DEF PcInv, InnerInv, InSwitch
<1>14. OuterInv'
  BY <1>0, <1>2, <1>11, <1>12 DEF OuterInv, InSwitch
<1>15. Same
  BY <1>0, <1>1 DEF Same, Committed, InSwitch
<1> QED BY <1>8, <1>13, <1>14, <1>15 DEF IInv

(* Placing the prover at the fork touches no table, and the return to the pool no post. *)
LEMMA ResolveForkInv ==
  ASSUME IInv, NEW returned, ResolveFork(returned)
  PROVE  IInv' /\ Same
<1>0. /\ pc = "reverting" /\ pc' \in {"reverting", "switching"}
      /\ db' = db \/ db' = [db EXCEPT !.pool = db.pool \cup returned]
      /\ inner' = inner /\ outer' = outer /\ target' = target
  BY DEF ResolveFork, proverVars
<1>1. Sound(db) /\ PcInv /\ InnerInv /\ OuterInv
  BY DEF IInv
<1>2. Beside(db, db')
  BY <1>0, <1>1 DEF Beside, Sound, DbShape
<1>3. Sound(db')
  BY <1>1, <1>2, SoundBeside
<1>4. Tip' = Tip /\ db'.chain = db.chain /\ db'.journal = db.journal
  BY <1>2 DEF Beside, Tip
<1>5. PcInv' /\ InnerInv'
  BY <1>0, <1>1 DEF PcInv, InnerInv, InSwitch
<1>6. OuterInv'
  BY <1>0, <1>1, <1>4 DEF OuterInv, InSwitch, SameUpto
<1>7. Same
  BY <1>0, <1>1 DEF Same, Committed, InSwitch, PcInv
<1> QED BY <1>3, <1>5, <1>6, <1>7 DEF IInv

(* The end of a switch commits the whole of it. *)
LEMMA EndSwitchInv ==
  ASSUME IInv, EndSwitch
  PROVE  IInv' /\ Abstract!Switch
<1>0. /\ pc = "switching" /\ Tip > target /\ outer' = None /\ pc' = "idle" /\ db' = db
  BY DEF EndSwitch
<1>1. Sound(db) /\ PcInv /\ OuterInv /\ InSwitch
  BY <1>0 DEF IInv, PcInv
<1>2. /\ Sound(outer.db) /\ target \in Nat /\ target < Len(outer.db.chain)
      /\ Len(outer.db.chain) <= target + MaxReorgDepth /\ SameUpto(db, outer.db, target)
  BY <1>0, <1>1 DEF OuterInv
<1>3. IInv'
  BY <1>0, <1>1 DEF IInv, PcInv, InnerInv, OuterInv, InSwitch
<1>4. Committed = outer.db /\ Committed' = db
  BY <1>0, <1>1 DEF Committed, InSwitch
<1>5. /\ db.chain \in Seq(Menu) /\ outer.db.chain \in Seq(Menu)
      /\ LedgerOf(db.store) = Abstract!Replay(db.chain, Len(db.chain))
  BY <1>1, <1>2 DEF Sound
<1>6. SubSeq(db.chain, 1, target) = SubSeq(outer.db.chain, 1, target)
  BY <1>2, <1>5 DEF SameUpto
<1>7. /\ target \in 0 .. Len(outer.db.chain) /\ Len(db.chain) > target
  BY <1>0, <1>2, <1>5 DEF Tip
<1>8. /\ target \in 0 .. Len(Committed.chain)
      /\ Len(Committed.chain) <= target + MaxReorgDepth
      /\ Len(Committed.chain') > target
      /\ SubSeq(Committed.chain', 1, target) = SubSeq(Committed.chain, 1, target)
      /\ LedgerOf(Committed.store)' = Abstract!Replay(Committed.chain', Len(Committed.chain'))
  BY <1>0, <1>2, <1>4, <1>5, <1>6, <1>7
<1>9. Abstract!Switch
  BY <1>8 DEF Abstract!Switch
<1> QED BY <1>3, <1>9

(* A switch that ends badly puts back what was committed. *)
LEMMA AbortSwitchInv ==
  ASSUME IInv, AbortSwitch
  PROVE  IInv' /\ Same
<1>0. pc = "aborting" /\ db' = outer.db /\ outer' = None /\ pc' = "idle"
  BY DEF AbortSwitch
<1>1. Sound(outer.db) /\ InSwitch
  BY <1>0 DEF IInv, PcInv, OuterInv
<1>2. IInv'
  BY <1>0, <1>1 DEF IInv, PcInv, InnerInv, OuterInv, InSwitch
<1>3. Same
  BY <1>0, <1>1 DEF Same, Committed, InSwitch
<1> QED BY <1>2, <1>3

(* A proof cycle begins and ends beside the tables. *)
LEMMA CycleInv ==
  ASSUME IInv, pc \in {"idle", "cycle"}, pc' \in {"idle", "cycle"}, db' = db, outer' = outer, target' = target
  PROVE  IInv' /\ Same
  BY DEF IInv, PcInv, InnerInv, OuterInv, Same, Committed, InSwitch, Tip

(* Between blocks, what is written beside the ledger leaves it. *)
LEMMA BesideInv ==
  ASSUME IInv, pc = "idle", pc' = pc, inner' = inner, outer' = outer, target' = target, Beside(db, db')
  PROVE  IInv' /\ Same
<1>1. Sound(db) /\ PcInv
  BY DEF IInv
<1>2. Sound(db')
  BY <1>1, SoundBeside
<1>3. LedgerOf(db'.store) = LedgerOf(db.store) /\ db'.chain = db.chain
  BY DEF Beside
<1>4. IInv'
  BY <1>1, <1>2 DEF IInv, PcInv, InnerInv, OuterInv, InSwitch
<1>5. Same
  BY <1>1, <1>3 DEF Same, Committed, PcInv, InSwitch
<1> QED BY <1>4, <1>5

(* A body that arrives is not part of the ledger. *)
LEMMA BodyBeside ==
  ASSUME Sound(db), NEW p \in Posts, BodyArrives(p)
  PROVE  /\ Beside(db, db') /\ db'.pool = db.pool
         /\ db'.store.post = [db.store.post EXCEPT ![p].body = TRUE]
<1> DEFINE post == [db.store.post EXCEPT ![p].body = TRUE]
           s == [db.store EXCEPT !.post = post]
<1>1. DbShape(db) /\ db.store \in Stores
  BY DEF Sound
<1>2. db.store.post \in [Posts -> Rows]
  BY <1>1 DEF Stores
<1>3. /\ post \in [Posts -> Rows]
      /\ \A q \in Posts : post[q].at = db.store.post[q].at /\ post[q].gone = db.store.post[q].gone
  BY <1>2 DEF Rows
<1>4. db' = [db EXCEPT !.store = s]
  BY DEF BodyArrives
<1> HIDE DEF post
<1>5. s \in Stores /\ s.post = post /\ LedgerOf(s) = LedgerOf(db.store)
  BY <1>1, <1>3, LedgerBeside
<1> HIDE DEF s
<1>6. /\ DbShape(db') /\ db'.chain = db.chain /\ db'.journal = db.journal /\ db'.rows = db.rows
      /\ db'.versions = db.versions /\ db'.store = s /\ db'.pool = db.pool
  BY <1>1, <1>4 DEF DbShape
<1> QED BY <1>5, <1>6 DEF Beside, post

\* The posts of these tables with the rows of t's posts.
PostsWith(store, t, body) ==
  [p \in Posts |-> IF p \in Tx[t].posts THEN [store.post[p] EXCEPT !.row = TRUE, !.body = body]
                                        ELSE store.post[p]]

(* An admitted transaction and its pending rows are not part of the ledger. *)
LEMMA SubmitBeside ==
  ASSUME Sound(db), NEW t, NEW body \in BOOLEAN, Submit(t, body)
  PROVE  /\ Beside(db, db') /\ db'.pool = db.pool \cup {t}
         /\ db'.store.post = PostsWith(db.store, t, body)
<1> DEFINE post == PostsWith(db.store, t, body)
           s == [db.store EXCEPT !.post = post]
<1>1. DbShape(db) /\ db.store \in Stores
  BY DEF Sound
<1>2. \A p \in Posts : db.store.post[p] \in Rows
  BY <1>1 DEF Stores
<1>3. /\ post \in [Posts -> Rows]
      /\ \A q \in Posts : post[q].at = db.store.post[q].at /\ post[q].gone = db.store.post[q].gone
  BY <1>2 DEF Rows, PostsWith
<1>4. db' = [db EXCEPT !.pool = db.pool \cup {t}, !.store = s]
  BY DEF Submit, PostsWith
<1> HIDE DEF post
<1>5. s \in Stores /\ s.post = post /\ LedgerOf(s) = LedgerOf(db.store)
  BY <1>1, <1>3, LedgerBeside
<1> HIDE DEF s
<1>6. /\ DbShape(db') /\ db'.chain = db.chain /\ db'.journal = db.journal /\ db'.rows = db.rows
      /\ db'.versions = db.versions /\ db'.store = s /\ db'.pool = db.pool \cup {t}
  BY <1>1, <1>4 DEF DbShape
<1> QED BY <1>5, <1>6 DEF Beside, post

(* Nor are the entries the creator drops. *)
LEMMA EvictBeside ==
  ASSUME Sound(db), NEW seeds, Evict(seeds)
  PROVE  /\ Beside(db, db') /\ db'.pool = db.pool \ Closure(db.pool, seeds)
         /\ db'.store.post = PostsWithout(db.store, Closure(db.pool, seeds))
<1>1. DbShape(db) /\ db.store \in Stores /\ db' = removeUnconfirmed(db, seeds)
  BY DEF Sound, Evict
<1> QED BY <1>1, Removed

(* A kill leaves what was committed. *)
LEMMA CrashInv ==
  ASSUME IInv, Crash
  PROVE  IInv' /\ Same
<1>0. db' = Committed /\ pc' = "idle" /\ outer' = None
  BY DEF Crash
<1>1. Sound(Committed)
  BY DEF IInv, PcInv, InnerInv, OuterInv, Committed
<1>2. Committed' = db'
  BY <1>0 DEF Committed, InSwitch
<1>3. IInv'
  BY <1>0, <1>1 DEF IInv, PcInv, InnerInv, OuterInv, InSwitch
<1>4. Same
  BY <1>0, <1>2 DEF Same
<1> QED BY <1>3, <1>4

(* Every step keeps the invariant and is, for the committed tables, one more block, a
   whole switch or nothing. *)
THEOREM StepImplements ==
  IInv /\ [Next]_vars => IInv' /\ [Abstract!Next]_<<Committed.chain, LedgerOf(Committed.store)>>
<1> SUFFICES ASSUME IInv, [Next]_vars
             PROVE  IInv' /\ [Abstract!Next]_<<Committed.chain, LedgerOf(Committed.store)>>
  OBVIOUS
<1> DEFINE Goal == IInv' /\ (Same \/ Abstract!Next)
<1>1. ASSUME NEW e \in Menu, ApplyBlock(e) PROVE Goal
  BY <1>1, BeginInv DEF ApplyBlock
<1>2. ASSUME NEW e \in Menu, NextBlock(e) PROVE Goal
  BY <1>2, BeginInv DEF NextBlock
<1>3. ASSUME NEW e \in Menu, Speculate(e) PROVE Goal
  BY <1>3, CycleInv DEF Speculate
<1>4. ASSUME NEW some \in SUBSET Txs, Checkpoint(some) PROVE Goal
  BY <1>4, CheckpointInv
<1>5. ASSUME Finish PROVE Goal
  BY <1>5, FinishInv DEF Abstract!Next
<1>6. ASSUME RefuseBlock PROVE Goal
  BY <1>6, RefuseBlockInv
<1>7. ASSUME NEW f \in 0 .. MaxHeight, StartSwitch(f) PROVE Goal
  BY <1>7, StartSwitchInv
<1>8. ASSUME NEW f \in 0 .. MaxHeight, ProveAt(f) PROVE Goal
  BY <1>8, CycleInv DEF ProveAt
<1>9. ASSUME Revert PROVE Goal
  BY <1>9, RevertInv
<1>10. ASSUME NEW some \in SUBSET Txs, ResolveFork(some) PROVE Goal
  BY <1>10, ResolveForkInv
<1>11. ASSUME EndSwitch PROVE Goal
  BY <1>11, EndSwitchInv DEF Abstract!Next
<1>12. ASSUME AbortSwitch PROVE Goal
  BY <1>12, AbortSwitchInv
<1>13. ASSUME EndCycle PROVE Goal
  BY <1>13, CycleInv DEF EndCycle
<1>14. ASSUME Crash PROVE Goal
  BY <1>14, CrashInv
<1>0. Sound(db)
  BY DEF IInv
<1>15. ASSUME NEW p \in Posts, BodyArrives(p) PROVE Goal
  <2>1. Beside(db, db') /\ pc = "idle" /\ UNCHANGED <<pc, inner, outer, target>>
    BY <1>0, <1>15, BodyBeside DEF BodyArrives
  <2> QED BY <2>1, BesideInv
<1>18. ASSUME NEW t \in Txs, NEW body \in BOOLEAN, Submit(t, body) PROVE Goal
  <2>1. Beside(db, db') /\ pc = "idle" /\ UNCHANGED <<pc, inner, outer, target>>
    BY <1>0, <1>18, SubmitBeside DEF Submit
  <2> QED BY <2>1, BesideInv
<1>19. ASSUME NEW some \in SUBSET Txs, Evict(some) PROVE Goal
  <2>1. Beside(db, db') /\ pc = "idle" /\ UNCHANGED <<pc, inner, outer, target>>
    BY <1>0, <1>19, EvictBeside DEF Evict
  <2> QED BY <2>1, BesideInv
<1>16. ASSUME UNCHANGED vars PROVE Goal
  BY <1>16, StutterInv
<1>17. Goal
  <2> HIDE DEF Goal
  <2> QED BY <1>1, <1>2, <1>3, <1>4, <1>5, <1>6, <1>7, <1>8, <1>9, <1>10, <1>11, <1>12, <1>13,
             <1>14, <1>15, <1>16, <1>18, <1>19 DEF Next
<1> QED BY <1>17 DEF Same

(* The node implements AppliedChain: whatever was refused, reverted, aborted or killed on
   the way, the committed tables are the replay of the committed chain, which changes by one
   valid block or by a whole switch within the reorg bound. *)
THEOREM Refines == Spec => RefinesAppliedChain
<1>1. Init => IInv /\ Abstract!Init
  <2>1. Init => IInv
    BY InitInv
  <2>2. Init => Abstract!Init
    <3> SUFFICES ASSUME Init PROVE Abstract!Init
      OBVIOUS
    <3>1. Committed = db
      BY DEF Init, Committed, InSwitch
    <3>2. db.chain = <<>> /\ db.store = EmptyStore
      BY DEF Init
    <3>3. LedgerOf(EmptyStore) = Abstract!Genesis
      BY DEF LedgerOf, EmptyStore, NoRow, Abstract!Genesis
    <3> QED BY <3>1, <3>2, <3>3 DEF Abstract!Init
  <2> QED BY <2>1, <2>2
<1>2. IInv /\ [Next]_vars => IInv' /\ [Abstract!Next]_<<Committed.chain, LedgerOf(Committed.store)>>
  BY StepImplements
<1> QED BY <1>1, <1>2, PTL DEF Spec, RefinesAppliedChain, Abstract!Spec

-----------------------------------------------------------------------------
(***************************************************************************)
(* The persisted tree agrees with the tables, nothing stops the node and   *)
(* withdrawn bodies come back.  The node rows are a table of lifetimes: a  *)
(* version is read back from the rows alive at its height.  The argument   *)
(* is that update, prune and delete keep two facts: rows of one label live *)
(* at different times (Lifetimes), and the labels alive at a kept height   *)
(* are exactly the nodes of its tree (Holds).  Around it stand what each   *)
(* pc says of the prover's root, of the kept roots and of the databases    *)
(* saved to be put back (ProverInv, SavedInv).                             *)
(***************************************************************************)

(* The lifetimes of node rows. *)

\* The row is alive at a height.
AliveAt(r, h) == r.seen <= h /\ (r.gone = 0 \/ r.gone > h)

\* One of the rows is orphaned before the other is seen.
Apart(r, s) == (r.gone # 0 /\ r.gone <= s.seen) \/ (s.gone # 0 /\ s.gone <= r.seen)

\* A row has three parts; up to height n it is orphaned after it is seen, or not at all.
RowShape(r) == r = [x \in {"label", "seen", "gone"} |-> r[x]]
Lifetime(r, n) ==
  RowShape(r) /\ r.seen \in 0 .. n /\ r.gone \in 0 .. n /\ (r.gone # 0 => r.seen < r.gone)

\* The rows R have lifetimes up to n, and rows of one label live at different times.
Lifetimes(R, n) ==
  /\ \A r \in R : Lifetime(r, n)
  /\ \A r, s \in R : r.label = s.label /\ r # s => Apart(r, s)

\* The labels alive at a height are the nodes of the tree t.
Holds(R, h, t) ==
  /\ \A r \in R : AliveAt(r, h) => r.label \in TreeNodes(t)
  /\ \A n \in TreeNodes(t) : \E r \in R : r.label = n /\ AliveAt(r, h)

(* An inner node stands over the same leaves wherever it is. *)
LEMMA SpineOnce ==
  ASSUME NEW t, NEW u, Spine(t) \in TreeNodes(u)
  PROVE  Leaves(t) = Leaves(u) /\ Spine(t) = Spine(u)
<1>1. Spine(t)[1] = "inner"
  BY DEF Spine
<1>2. \A x \in Leaves(u) : x[1] \in {"rec", "box"}
  BY DEF Leaves
<1>3. RootLabel(u)[1] = "root" /\ <<"height", u.at>>[1] = "height"
  BY DEF RootLabel
<1>4. Spine(t) = Spine(u)
  BY <1>1, <1>2, <1>3 DEF TreeNodes
<1>5. t.rec = u.rec /\ t.live = u.live
  <2>1. Spine(t)[2] = t.rec /\ Spine(t)[3] = t.live /\ Spine(u)[2] = u.rec /\ Spine(u)[3] = u.live
    BY DEF Spine
  <2> QED BY <1>4, <2>1
<1> QED BY <1>4, <1>5 DEF Leaves

(* One open row at most for a label. *)
LEMMA OneOpen ==
  ASSUME NEW R, NEW n \in Nat, Lifetimes(R, n), NEW r \in R, NEW s \in R,
         r.label = s.label, NEW h \in Nat, AliveAt(r, h), AliveAt(s, h)
  PROVE  r = s
  BY DEF Lifetimes, Lifetime, Apart, AliveAt

(* Orphaning the removed nodes leaves open rows for the nodes both trees have. *)
LEMMA RowsOrphaned ==
  ASSUME NEW R, NEW n \in Nat, Lifetimes(R, n), Holds(R, n, base), NEW h, h = n + 1
  PROVE  LET O == Orphaned(R, h)
         IN /\ Lifetimes(O, h)
            /\ \A label : HasLiveRow(O, label) <=> label \in TreeNodes(base) /\ label \in TreeNodes(root)
            /\ \A i \in 0 .. n : \A t : Holds(R, i, t) => Holds(O, i, t)
<1> DEFINE O == Orphaned(R, h)
           to(r) == IF r.label \in removedNodes /\ r.gone = 0 THEN [r EXCEPT !.gone = h] ELSE r
<1>1. O = {to(r) : r \in R}
  BY DEF Orphaned
<1>2. \A r \in R : Lifetime(r, n)
  BY DEF Lifetimes
<1>3. \A r \in R : /\ to(r).label = r.label /\ to(r).seen = r.seen /\ Lifetime(to(r), h)
                   /\ to(r).gone = IF r.label \in removedNodes /\ r.gone = 0 THEN h ELSE r.gone
  BY <1>2 DEF Lifetime, RowShape
<1> HIDE DEF O, to
<1>4. \A r, s \in R : r # s /\ r.label = s.label => Apart(to(r), to(s))
  <2> SUFFICES ASSUME NEW r \in R, NEW s \in R, r # s, r.label = s.label PROVE Apart(to(r), to(s))
    OBVIOUS
  <2>1. Apart(r, s) /\ Lifetime(r, n) /\ Lifetime(s, n)
    BY DEF Lifetimes
  <2> QED BY <1>3, <2>1 DEF Apart, Lifetime
<1>5. Lifetimes(O, h)
  <2>1. \A x \in O : Lifetime(x, h)
    BY <1>1, <1>3
  <2>2. ASSUME NEW x \in O, NEW y \in O, x.label = y.label, x # y PROVE Apart(x, y)
    <3>1. PICK r \in R : x = to(r)
      BY <1>1
    <3>2. PICK s \in R : y = to(s)
      BY <1>1
    <3> QED BY <1>3, <1>4, <2>2, <3>1, <3>2
  <2> QED BY <2>1, <2>2 DEF Lifetimes
<1>6. \A r \in R : AliveAt(r, n) <=> r.gone = 0
  BY <1>2 DEF AliveAt, Lifetime
<1>7. ASSUME NEW label
      PROVE HasLiveRow(O, label) <=> label \in TreeNodes(base) /\ label \in TreeNodes(root)
  <2>1. ASSUME HasLiveRow(O, label) PROVE label \in TreeNodes(base) /\ label \in TreeNodes(root)
    <3>1. PICK x \in O : x.label = label /\ x.gone = 0
      BY <2>1 DEF HasLiveRow
    <3>2. PICK r \in R : x = to(r)
      BY <1>1
    <3>3. r.gone = 0 /\ r.label = label /\ r.label \notin removedNodes
      BY <1>3, <3>1, <3>2
    <3>4. label \in TreeNodes(base)
      BY <1>6, <3>3 DEF Holds
    <3> QED BY <3>3, <3>4 DEF removedNodes
  <2>2. ASSUME label \in TreeNodes(base), label \in TreeNodes(root) PROVE HasLiveRow(O, label)
    <3>1. PICK r \in R : r.label = label /\ AliveAt(r, n)
      BY <2>2 DEF Holds
    <3>2. label \notin removedNodes
      BY <2>2 DEF removedNodes
    <3>3. to(r) \in O /\ to(r).label = label /\ to(r).gone = 0
      BY <1>1, <1>3, <1>6, <3>1, <3>2
    <3> QED BY <3>3 DEF HasLiveRow
  <2> QED BY <2>1, <2>2
<1>8. \A i \in 0 .. n : \A r \in R : AliveAt(to(r), i) <=> AliveAt(r, i)
  BY <1>2, <1>3 DEF AliveAt, Lifetime
<1>9. ASSUME NEW i \in 0 .. n, NEW t, Holds(R, i, t) PROVE Holds(O, i, t)
  <2>1. \A x \in O : AliveAt(x, i) => x.label \in TreeNodes(t)
    BY <1>1, <1>3, <1>8, <1>9 DEF Holds
  <2>2. ASSUME NEW label \in TreeNodes(t) PROVE \E x \in O : x.label = label /\ AliveAt(x, i)
    <3>1. PICK r \in R : r.label = label /\ AliveAt(r, i)
      BY <1>9 DEF Holds
    <3>2. to(r) \in O /\ to(r).label = label /\ AliveAt(to(r), i)
      BY <1>1, <1>3, <1>8, <3>1
    <3> QED BY <3>2
  <2> QED BY <2>1, <2>2 DEF Holds
<1> QED BY <1>5, <1>7, <1>9 DEF O

(* writeLifetimes writes a row for exactly the nodes that have none. *)
LEMMA NewRowsAre ==
  ASSUME NEW O,
         \A label : HasLiveRow(O, label) <=> label \in TreeNodes(base) /\ label \in TreeNodes(root)
  PROVE  NewRows(O, root) = TreeNodes(root) \ TreeNodes(base)
<1> DEFINE new(S) == {label \in S : ~ HasLiveRow(O, label)}
           top == {RootLabel(root), <<"height", root.at>>}
<1>1. TreeNodes(root) = top \cup {Spine(root)} \cup Leaves(root)
  BY DEF TreeNodes
<1>2. \A S : S \subseteq TreeNodes(root) => new(S) = S \ TreeNodes(base)
  BY DEF TreeNodes
<1>3. CASE HasLiveRow(O, Spine(root))
  <2>1. NewRows(O, root) = new(top)
    BY <1>3 DEF NewRows
  <2>2. Spine(root) \in TreeNodes(base)
    BY <1>3
  <2>3. Leaves(root) \subseteq TreeNodes(base)
    BY <2>2, SpineOnce DEF TreeNodes
  <2> HIDE DEF new
  <2> QED BY <1>1, <1>2, <2>1, <2>2, <2>3
<1>4. CASE ~ HasLiveRow(O, Spine(root))
  <2>1. NewRows(O, root) = new(top \cup {Spine(root)} \cup Leaves(root))
    BY <1>4 DEF NewRows
  <2> HIDE DEF new
  <2> QED BY <1>1, <1>2, <2>1
<1> QED BY <1>3, <1>4

\* The node rows after an update at a height.
TreeRows(R, h) ==
  LET O == Orphaned(R, h)
  IN O \cup {[label |-> x, seen |-> h, gone |-> 0] : x \in NewRows(O, root)}

(* SqliteAvlStorage.update adds one version to the lifetimes. *)
LEMMA RowsUpdated ==
  ASSUME NEW R, NEW n \in Nat, Lifetimes(R, n), Holds(R, n, base), NEW h, h = n + 1
  PROVE  /\ Lifetimes(TreeRows(R, h), h) /\ Holds(TreeRows(R, h), h, root)
         /\ \A i \in 0 .. n : \A t : Holds(R, i, t) => Holds(TreeRows(R, h), i, t)
<1> DEFINE O == Orphaned(R, h)
           new == TreeNodes(root) \ TreeNodes(base)
           row(x) == [label |-> x, seen |-> h, gone |-> 0]
           N == {row(x) : x \in new}
           U == O \cup N
<1>1. /\ Lifetimes(O, h)
      /\ \A label : HasLiveRow(O, label) <=> label \in TreeNodes(base) /\ label \in TreeNodes(root)
      /\ \A i \in 0 .. n : \A t : Holds(R, i, t) => Holds(O, i, t)
  BY RowsOrphaned
<1>2. NewRows(O, root) = new
  <2> HIDE DEF O
  <2> QED BY <1>1, NewRowsAre
<1>3. h \in Nat /\ n \in Nat /\ h = n + 1
  OBVIOUS
<1> HIDE DEF O, new
<1>4. \A x \in new : /\ row(x).label = x /\ row(x).seen = h /\ row(x).gone = 0
                     /\ Lifetime(row(x), h) /\ ~ HasLiveRow(O, x)
  BY <1>1, <1>3 DEF Lifetime, RowShape, new
<1>5. \A s \in N : /\ s.label \in new /\ s = row(s.label) /\ s.seen = h /\ s.gone = 0
                   /\ Lifetime(s, h) /\ ~ HasLiveRow(O, s.label)
  BY <1>4
<1>6. \A x \in new : row(x) \in N
  OBVIOUS
<1> HIDE DEF N, row
<1>7. Lifetimes(U, h)
  <2>1. \A r \in U : Lifetime(r, h)
    BY <1>1, <1>5 DEF Lifetimes
  <2>2. ASSUME NEW r \in O, NEW s \in N, r.label = s.label PROVE Apart(r, s)
    <3>1. r.gone # 0
      BY <1>5, <2>2 DEF HasLiveRow
    <3>2. r.gone \in 0 .. h
      BY <1>1 DEF Lifetimes, Lifetime
    <3> QED BY <1>3, <1>5, <3>1, <3>2 DEF Apart
  <2>3. ASSUME NEW r \in U, NEW s \in U, r.label = s.label, r # s PROVE Apart(r, s)
    <3>1. CASE r \in O /\ s \in O
      BY <1>1, <2>3, <3>1 DEF Lifetimes
    <3>2. CASE r \in O /\ s \in N
      BY <2>2, <2>3, <3>2
    <3>3. CASE r \in N /\ s \in O
      <4>1. Apart(s, r)
        BY <2>2, <2>3, <3>3
      <4> QED BY <4>1 DEF Apart
    <3>4. CASE r \in N /\ s \in N
      BY <1>5, <2>3, <3>4
    <3> QED BY <3>1, <3>2, <3>3, <3>4
  <2> QED BY <2>1, <2>3 DEF Lifetimes
<1>8. Holds(U, h, root)
  <2>1. \A r \in O : AliveAt(r, h) => r.gone = 0
    BY <1>1, <1>3 DEF Lifetimes, Lifetime, AliveAt
  <2>2. ASSUME NEW r \in U, AliveAt(r, h) PROVE r.label \in TreeNodes(root)
    <3>1. CASE r \in O
      <4>1. HasLiveRow(O, r.label)
        BY <2>1, <2>2, <3>1 DEF HasLiveRow
      <4> QED BY <1>1, <4>1
    <3>2. CASE r \in N
      BY <1>5, <3>2 DEF new
    <3> QED BY <3>1, <3>2
  <2>3. ASSUME NEW x \in TreeNodes(root) PROVE \E r \in U : r.label = x /\ AliveAt(r, h)
    <3>1. CASE x \in TreeNodes(base)
      <4>1. HasLiveRow(O, x)
        BY <1>1, <3>1
      <4>2. PICK r \in O : r.label = x /\ r.gone = 0
        BY <4>1 DEF HasLiveRow
      <4>3. AliveAt(r, h)
        BY <1>1, <1>3, <4>2 DEF Lifetimes, Lifetime, AliveAt
      <4> QED BY <4>2, <4>3
    <3>2. CASE x \notin TreeNodes(base)
      <4>1. x \in new
        BY <3>2 DEF new
      <4>2. row(x) \in U /\ row(x).label = x /\ AliveAt(row(x), h)
        BY <1>3, <1>4, <1>6, <4>1 DEF AliveAt
      <4> QED BY <4>2
    <3> QED BY <3>1, <3>2
  <2> QED BY <2>2, <2>3 DEF Holds
<1>9. ASSUME NEW i \in 0 .. n, NEW t, Holds(R, i, t) PROVE Holds(U, i, t)
  <2>1. Holds(O, i, t)
    BY <1>1, <1>9
  <2>2. \A r \in N : ~ AliveAt(r, i)
    BY <1>3, <1>5 DEF AliveAt
  <2> QED BY <2>1, <2>2 DEF Holds
<1>10. U = TreeRows(R, h)
  BY <1>2 DEF N, row, O, TreeRows
<1> HIDE DEF U
<1> QED BY <1>7, <1>8, <1>9, <1>10

(* pruneVersionsBefore drops rows no kept version has. *)
LEMMA RowsPruned ==
  ASSUME NEW R, NEW n \in Nat, Lifetimes(R, n), NEW cutoff \in Nat
  PROVE  LET P == {r \in R : r.gone = 0 \/ r.gone > cutoff}
         IN /\ Lifetimes(P, n)
            /\ \A i \in 0 .. n : \A t : i >= cutoff /\ Holds(R, i, t) => Holds(P, i, t)
<1> DEFINE P == {r \in R : r.gone = 0 \/ r.gone > cutoff}
<1>1. Lifetimes(P, n)
  BY DEF Lifetimes
<1>2. ASSUME NEW i \in 0 .. n, NEW t, i >= cutoff, Holds(R, i, t) PROVE Holds(P, i, t)
  <2>1. \A r \in R : AliveAt(r, i) => r \in P
    BY <1>2 DEF AliveAt, Lifetimes, Lifetime
  <2> HIDE DEF P
  <2>2. P \subseteq R
    BY DEF P
  <2> QED BY <1>2, <2>1, <2>2 DEF Holds
<1> QED BY <1>1, <1>2

\* The node rows after a deletion of the version at a height.
RowsWithout(R, h) == {IF r.gone = h THEN [r EXCEPT !.gone = 0] ELSE r : r \in {x \in R : x.seen # h}}

(* deleteVersionAtHeight at the tip leaves the lifetimes below it. *)
LEMMA RowsDeleted ==
  ASSUME NEW R, NEW h \in Nat \ {0}, Lifetimes(R, h)
  PROVE  /\ Lifetimes(RowsWithout(R, h), h - 1)
         /\ \A i \in 0 .. h - 1 : \A t : Holds(R, i, t) => Holds(RowsWithout(R, h), i, t)
<1> DEFINE to(r) == IF r.gone = h THEN [r EXCEPT !.gone = 0] ELSE r
           K == {x \in R : x.seen # h}
           D == {to(r) : r \in K}
<1>0. h \in Nat /\ h # 0 /\ h - 1 \in Nat
  OBVIOUS
<1>1. \A r \in K : r \in R /\ Lifetime(r, h) /\ r.seen # h
  BY DEF Lifetimes
<1>2. \A r \in K : /\ to(r).label = r.label /\ to(r).seen = r.seen /\ Lifetime(to(r), h - 1)
                   /\ to(r).gone = IF r.gone = h THEN 0 ELSE r.gone
  BY <1>0, <1>1 DEF Lifetime, RowShape
<1>3. D = {to(r) : r \in K}
  OBVIOUS
<1>4. \A r \in R : r.seen # h => r \in K
  OBVIOUS
<1> HIDE DEF D, to, K
<1>5. ASSUME NEW r \in K, NEW s \in K, r # s, r.label = s.label PROVE Apart(to(r), to(s))
  <2>1. Apart(r, s)
    BY <1>1, <1>5 DEF Lifetimes
  <2>2. Lifetime(r, h) /\ Lifetime(s, h) /\ r.seen # h /\ s.seen # h
    BY <1>1
  <2>3. /\ to(r).seen = r.seen /\ to(r).gone = IF r.gone = h THEN 0 ELSE r.gone
        /\ to(s).seen = s.seen /\ to(s).gone = IF s.gone = h THEN 0 ELSE s.gone
    BY <1>2
  <2> QED BY <1>0, <2>1, <2>2, <2>3 DEF Apart, Lifetime
<1>6. Lifetimes(D, h - 1)
  <2>1. \A x \in D : Lifetime(x, h - 1)
    BY <1>2, <1>3
  <2>2. ASSUME NEW x \in D, NEW y \in D, x.label = y.label, x # y PROVE Apart(x, y)
    <3>1. PICK r \in K : x = to(r)
      BY <1>3
    <3>2. PICK s \in K : y = to(s)
      BY <1>3
    <3> QED BY <1>2, <1>5, <2>2, <3>1, <3>2
  <2> QED BY <2>1, <2>2 DEF Lifetimes
<1>7. \A i \in 0 .. h - 1 : \A r \in K : AliveAt(to(r), i) <=> AliveAt(r, i)
  BY <1>0, <1>1, <1>2 DEF AliveAt, Lifetime
<1>8. \A i \in 0 .. h - 1 : \A r \in R : AliveAt(r, i) => r \in K
  BY <1>0, <1>4 DEF AliveAt
<1>9. ASSUME NEW i \in 0 .. h - 1, NEW t, Holds(R, i, t) PROVE Holds(D, i, t)
  <2>1. ASSUME NEW x \in D, AliveAt(x, i) PROVE x.label \in TreeNodes(t)
    <3>1. PICK r \in K : x = to(r)
      BY <1>3
    <3> QED BY <1>1, <1>2, <1>7, <1>9, <2>1, <3>1 DEF Holds
  <2>2. ASSUME NEW label \in TreeNodes(t) PROVE \E x \in D : x.label = label /\ AliveAt(x, i)
    <3>1. PICK r \in R : r.label = label /\ AliveAt(r, i)
      BY <1>9 DEF Holds
    <3>2. r \in K
      BY <1>8, <3>1
    <3>3. to(r) \in D /\ to(r).label = label /\ AliveAt(to(r), i)
      BY <1>2, <1>3, <1>7, <3>1, <3>2
    <3> QED BY <3>3
  <2> QED BY <2>1, <2>2 DEF Holds
<1>10. D = RowsWithout(R, h)
  BY DEF D, to, K, RowsWithout
<1> QED BY <1>6, <1>9, <1>10

-----------------------------------------------------------------------------
(* The kept roots. *)

(* evict keeps the newest heights of an interval, within the window. *)
LEMMA EvictedIs ==
  ASSUME NEW q, NEW a \in Nat, NEW h \in Nat, a <= h, DOMAIN q = a .. h
  PROVE  LET K == Evicted(q)
         IN /\ DOMAIN K \subseteq DOMAIN q /\ \A i \in DOMAIN K : K[i] = q[i]
            /\ DOMAIN K = {} \/ \E low \in 0 .. h : DOMAIN K = low .. h
            /\ Cardinality(DOMAIN K) <= ProofWindow
<1> DEFINE fits(S) == Cardinality(S) <= ProofWindow /\ nodesHeldBeyondTree(Restrict(q, S)) <= WindowNodes
           from(low) == {i \in DOMAIN q : i >= low}
           suffixes == {S \in {from(low) : low \in DOMAIN q} \cup {{}} : fits(S)}
           S0 == CHOOSE S \in suffixes : \A other \in suffixes : other \subseteq S
           lows == {low \in DOMAIN q : fits(from(low))}
<1>1. Evicted(q) = Restrict(q, S0)
  BY DEF Evicted
<1>2. fits({})
  <2>1. DOMAIN Restrict(q, {}) = {}
    BY DEF Restrict
  <2>2. nodesHeldBeyondTree(Restrict(q, {})) = 0
    BY <2>1 DEF nodesHeldBeyondTree
  <2>3. Cardinality({}) = 0
    BY FS_EmptySet
  <2> QED BY <2>2, <2>3, HistoryAssumption
<1> HIDE DEF fits
<1>3. \E S \in suffixes : \A other \in suffixes : other \subseteq S
  <2>1. CASE lows = {}
    <3>1. {} \in suffixes
      BY <1>2
    <3>2. \A other \in suffixes : other = {}
      BY <2>1
    <3> QED BY <3>1, <3>2
  <2>2. CASE lows # {}
    <3>1. lows \subseteq Nat
      OBVIOUS
    <3>2. Min(lows) \in lows /\ \A y \in lows : Min(lows) <= y
      <4> HIDE DEF lows
      <4> QED BY <2>2, <3>1, MinOf
    <3> DEFINE m == Min(lows)
    <3>3. m \in DOMAIN q /\ m \in Nat /\ fits(from(m)) /\ \A y \in lows : m <= y
      BY <3>2
    <3> HIDE DEF m
    <3>4. from(m) \in suffixes
      BY <3>3
    <3>5. ASSUME NEW other \in suffixes PROVE other \subseteq from(m)
      <4>1. CASE other = {}
        BY <4>1
      <4>2. CASE other # {}
        <5>1. PICK low \in DOMAIN q : other = from(low)
          BY <4>2
        <5>2. low \in lows /\ low \in Nat
          BY <5>1
        <5>3. m <= low
          BY <3>3, <5>2
        <5> QED BY <3>3, <5>1, <5>2, <5>3
      <4> QED BY <4>1, <4>2
    <3> HIDE DEF suffixes
    <3> QED BY <3>4, <3>5
  <2> QED BY <2>1, <2>2
<1>4. S0 \in suffixes
  <2> HIDE DEF suffixes
  <2> QED BY <1>3
<1> HIDE DEF S0
<1>5. fits(S0) /\ (S0 = {} \/ \E low \in DOMAIN q : S0 = from(low))
  BY <1>4
<1>6. S0 = {} \/ \E low \in 0 .. h : S0 = low .. h
  <2>1. \A low \in a .. h : from(low) = low .. h /\ low \in 0 .. h
    OBVIOUS
  <2> HIDE DEF from
  <2> QED BY <1>5, <2>1
<1>7. S0 \subseteq DOMAIN q
  BY <1>5
<1>8. DOMAIN Restrict(q, S0) = S0 /\ \A i \in S0 : Restrict(q, S0)[i] = q[i]
  BY DEF Restrict
<1>9. Cardinality(S0) <= ProofWindow
  BY <1>5 DEF fits
<1> QED BY <1>1, <1>6, <1>7, <1>8, <1>9

\* Consecutive heights up to n, or none.
Interval(S, n) == S = {} \/ \E low \in 0 .. n : S = low .. n

\* r keeps roots of the chain c, at consecutive heights up to n, within the window.
Ringed(r, c, n) ==
  /\ \A h \in DOMAIN r : r[h].tree = TreeAt(c, h)
  /\ Interval(DOMAIN r, n)
  /\ Cardinality(DOMAIN r) <= ProofWindow

(* Keeping the newest root, at genesis, at a restart or after a block. *)
LEMMA RingKept ==
  ASSUME NEW r, NEW c, NEW h \in Nat, NEW replaced,
         \A i \in DOMAIN r : r[i].tree = TreeAt(c, i),
         DOMAIN r = {} \/ (h # 0 /\ Interval(DOMAIN r, h - 1)),
         Cardinality(DOMAIN r) <= ProofWindow
  PROVE  Ringed(Kept(r, h, TreeAt(c, h), replaced), c, h)
<1> DEFINE tree == TreeAt(c, h)
           q == [i \in DOMAIN r \cup {h} |-> IF i = h THEN [tree |-> tree, replaced |-> replaced] ELSE r[i]]
<1>1. CASE ProofWindow = 0
  <2>1. DOMAIN r = {}
    <3> SUFFICES ASSUME DOMAIN r # {} PROVE FALSE
      OBVIOUS
    <3>1. PICK low \in 0 .. h - 1 : DOMAIN r = low .. h - 1
      BY DEF Interval
    <3>2. IsFiniteSet(low .. h - 1)
      BY <3>1, FS_Interval
    <3>3. Cardinality(low .. h - 1) = (h - 1) - low + 1
      <4>1. low \in Int /\ h - 1 \in Int /\ ~(low > h - 1)
        OBVIOUS
      <4> QED BY <4>1, FS_Interval
    <3>4. Cardinality(low .. h - 1) <= 0
      BY <1>1, <3>1
    <3> QED BY <3>3, <3>4
  <2>2. Kept(r, h, tree, replaced) = r
    BY <1>1 DEF Kept
  <2> QED BY <2>1, <2>2 DEF Ringed, Interval
<1>2. CASE ProofWindow # 0
  <2>1. Kept(r, h, tree, replaced) = Evicted(q)
    BY <1>2 DEF Kept
  <2>2. \A i \in DOMAIN q : q[i].tree = TreeAt(c, i)
    <3> HIDE DEF tree
    <3>1. \A i \in DOMAIN r \cup {h} : q[i].tree = IF i = h THEN tree ELSE r[i].tree
      OBVIOUS
    <3> QED BY <3>1 DEF tree
  <2>3. \E low \in 0 .. h : DOMAIN q = low .. h
    <3>1. DOMAIN q = DOMAIN r \cup {h}
      OBVIOUS
    <3> HIDE DEF q
    <3>2. CASE DOMAIN r = {}
      <4>1. DOMAIN q = h .. h
        BY <3>1, <3>2
      <4> QED BY <4>1
    <3>3. CASE DOMAIN r # {}
      <4>1. h # 0
        BY <3>3
      <4>2. PICK low \in 0 .. h - 1 : DOMAIN r = low .. h - 1
        BY <3>3 DEF Interval
      <4>3. low \in 0 .. h /\ (low .. h - 1) \cup {h} = low .. h
        BY <4>1
      <4> QED BY <3>1, <4>2, <4>3
    <3> QED BY <3>2, <3>3
  <2> HIDE DEF q
  <2>4. PICK low \in 0 .. h : DOMAIN q = low .. h
    BY <2>3
  <2> DEFINE K == Evicted(q)
  <2>5. /\ DOMAIN K \subseteq DOMAIN q /\ \A i \in DOMAIN K : K[i] = q[i]
        /\ DOMAIN K = {} \/ \E l \in 0 .. h : DOMAIN K = l .. h
        /\ Cardinality(DOMAIN K) <= ProofWindow
    <3>1. low \in Nat /\ low <= h
      OBVIOUS
    <3> QED BY <2>4, <3>1, EvictedIs
  <2> HIDE DEF K
  <2>6. Ringed(K, c, h)
    BY <2>2, <2>5 DEF Ringed, Interval
  <2> QED BY <2>1, <2>6 DEF K
<1> QED BY <1>1, <1>2

(* Dropping the newest kept root, on a chain that agrees below it. *)
LEMMA RingDropped ==
  ASSUME NEW r, NEW c, NEW d, NEW h \in Nat \ {0}, Ringed(r, c, h),
         \A i \in 0 .. h - 1 : TreeAt(d, i) = TreeAt(c, i)
  PROVE  Ringed(Dropped(r, h), d, h - 1)
<1> DEFINE k == Dropped(r, h)
<1>1. DOMAIN k = DOMAIN r \ {h} /\ \A i \in DOMAIN k : k[i] = r[i]
  BY DEF Dropped, Restrict
<1> HIDE DEF k
<1>2. DOMAIN r \subseteq 0 .. h /\ IsFiniteSet(DOMAIN r)
  <2>1. CASE DOMAIN r = {}
    BY <2>1, FS_EmptySet
  <2>2. CASE DOMAIN r # {}
    <3>1. PICK low \in 0 .. h : DOMAIN r = low .. h
      BY <2>2 DEF Ringed, Interval
    <3>2. IsFiniteSet(low .. h)
      BY <3>1, FS_Interval
    <3> QED BY <3>1, <3>2
  <2> QED BY <2>1, <2>2
<1>3. Interval(DOMAIN k, h - 1)
  <2>1. CASE DOMAIN r = {}
    BY <1>1, <2>1 DEF Interval
  <2>2. CASE DOMAIN r # {}
    <3>1. PICK low \in 0 .. h : DOMAIN r = low .. h
      BY <2>2 DEF Ringed, Interval
    <3>2. (low .. h) \ {h} = low .. h - 1
      OBVIOUS
    <3>3. low = h => low .. h - 1 = {}
      OBVIOUS
    <3>4. low # h => low \in 0 .. h - 1
      OBVIOUS
    <3> QED BY <1>1, <3>1, <3>2, <3>3, <3>4 DEF Interval
  <2> QED BY <2>1, <2>2
<1>4. Cardinality(DOMAIN k) <= ProofWindow
  <2>1. DOMAIN k \in SUBSET (DOMAIN r)
    BY <1>1
  <2>2. Cardinality(DOMAIN k) <= Cardinality(DOMAIN r) /\ IsFiniteSet(DOMAIN k)
    BY <1>2, <2>1, FS_Subset
  <2>3. Cardinality(DOMAIN k) \in Nat /\ Cardinality(DOMAIN r) \in Nat
    BY <1>2, <2>2, FS_CardinalityType
  <2>4. Cardinality(DOMAIN r) <= ProofWindow
    BY DEF Ringed
  <2> QED BY <2>2, <2>3, <2>4, HistoryAssumption
<1>5. \A i \in DOMAIN k : k[i].tree = TreeAt(d, i)
  <2> TAKE i \in DOMAIN k
  <2>1. i \in DOMAIN r /\ i \in 0 .. h - 1 /\ k[i] = r[i]
    BY <1>1, <1>2
  <2>2. r[i].tree = TreeAt(c, i)
    BY <2>1 DEF Ringed
  <2> QED BY <2>1, <2>2
<1> QED BY <1>3, <1>4, <1>5 DEF Ringed, k

(* No root kept. *)
LEMMA RingNone ==
  ASSUME NEW c, NEW n
  PROVE  Ringed(NoRing, c, n) /\ DOMAIN NoRing = {}
<1>1. DOMAIN NoRing = {}
  BY DEF NoRing
<1>2. Cardinality({}) <= ProofWindow
  BY FS_EmptySet, HistoryAssumption
<1> QED BY <1>1, <1>2 DEF Ringed, Interval

-----------------------------------------------------------------------------
(* The invariant. *)

\* The tree of the newest block.
TreeNow(d) == TreeAt(d.chain, Len(d.chain))

\* The versions a database keeps are the newest ones without a gap, each the replay of its
\* height, and the node rows have exactly its nodes alive there.
Stored(d) ==
  /\ Len(d.chain) <= MaxHeight
  /\ DOMAIN d.versions \subseteq 0 .. Len(d.chain)
  /\ \A h \in DOMAIN d.versions : h .. Len(d.chain) \subseteq DOMAIN d.versions
  /\ \A h \in DOMAIN d.versions : d.versions[h] = TreeAt(d.chain, h)
  /\ Lifetimes(d.rows, Len(d.chain))
  /\ \A h \in DOMAIN d.versions : Holds(d.rows, h, d.versions[h])

\* The newest version is there: it is missing only while a switch reverts.
Full(d) == Len(d.chain) \in DOMAIN d.versions

\* Below every journalled block the version is kept.
Linked(d) == \A h \in DOMAIN d.journal : h - 1 \in DOMAIN d.versions

\* More versions are kept than blocks can be reverted.
Deep == MaxProofHistory > MaxReorgDepth

\* What a database keeps beside its tables: versions and rows.
Intact(d) == Stored(d) /\ (Deep => Linked(d))

\* A database between blocks, its prover's tree and its kept roots.
Settled(d, r, k) == Full(d) /\ r = TreeNow(d) /\ Ringed(k, d.chain, Len(d.chain))

\* The database the kept roots belong to.
RingDb == IF pc = "checked" THEN inner.db ELSE db

\* The prover's tree, its proof cycle and the kept roots, by where the work stands.
ProverInv ==
  /\ pc # "reverting" => Full(db)
  /\ pc \in {"idle", "switching"} => root = TreeNow(db)
  /\ pc \in {"idle", "switching", "written"} => base = TreeNow(db)
  /\ pc = "written" =>
       Tip < MaxHeight /\ root = TreeOf(writeBlockEffects(db.store, cur, Tip + 1).store, Tip + 1)
  /\ pc = "checked" => root = TreeNow(db) /\ base = TreeNow(db)
  /\ pc # "aborting" => Ringed(ring, RingDb.chain, Len(RingDb.chain))

\* What a block, a cycle or a switch puts back is as intact as what it found, and the
\* version at a switch's fork outlives its reverts.
SavedInv ==
  /\ (inner # None) <=> pc \in {"written", "checked", "cycle"}
  /\ pc \in {"written", "checked", "cycle"} =>
       Intact(inner.db) /\ Full(inner.db) /\ inner.root = TreeNow(inner.db)
  /\ pc = "cycle" => inner.db = db
  /\ InSwitch => Intact(outer.db) /\ Settled(outer.db, outer.root, outer.ring)
  /\ Deep /\ pc = "reverting" => target \in DOMAIN db.versions

\* The inductive invariant, beside IInv above.
SInv ==
  /\ Intact(db)
  /\ ProverInv
  /\ SavedInv
  /\ halted \in {"no", "DuplicateStateVersion", "MissingStateVersion", "InconsistentAvlNodeRows"}
  /\ Deep => halted = "no"

-----------------------------------------------------------------------------
(* Databases. *)

(* A stored version resolves from its rows. *)
LEMMA ResolvesStored ==
  ASSUME NEW d, Stored(d), Len(d.chain) \in Nat, NEW h \in DOMAIN d.versions
  PROVE  Resolves(d, h)
<1> DEFINE n == Len(d.chain)
           R == d.rows
           t == d.versions[h]
<1>1. h \in Nat /\ n \in Nat /\ Lifetimes(R, n) /\ Holds(R, h, t)
  BY DEF Stored
<1>2. ASSUME NEW x \in TreeNodes(t) PROVE Cardinality(AliveRows(d, x, h)) = 1
  <2> HIDE DEF n, R, t
  <2>1. PICK r \in R : r.label = x /\ AliveAt(r, h)
    BY <1>1, <1>2 DEF Holds
  <2>2. \A s \in R : s.label = x /\ AliveAt(s, h) => s = r
    BY <1>1, <2>1, OneOpen
  <2>3. AliveRows(d, x, h) = {s \in R : s.label = x /\ AliveAt(s, h)}
    BY DEF AliveRows, AliveAt, R
  <2>4. AliveRows(d, x, h) = {r}
    BY <2>1, <2>2, <2>3
  <2> QED BY <2>4, FS_Singleton
<1> QED BY <1>2 DEF Resolves

(* Chains that agree up to a height have the same tree there. *)
LEMMA TreePrefix ==
  ASSUME NEW c \in Seq(Menu), NEW d \in Seq(Menu), NEW k \in 0 .. Len(c), k <= Len(d),
         \A i \in 1 .. k : c[i] = d[i]
  PROVE  TreeAt(c, k) = TreeAt(d, k)
<1>1. Abstract!Replay(c, k) = Abstract!Replay(d, k)
  BY ReplayPrefix
<1> QED BY <1>1 DEF TreeAt

(* The tree over the tables of a sound database is that of its newest block. *)
LEMMA TreeOfSound ==
  ASSUME NEW d, Sound(d)
  PROVE  TreeOf(d.store, Len(d.chain)) = TreeNow(d)
<1> DEFINE l == LedgerOf(d.store)
<1>1. l = Abstract!Replay(d.chain, Len(d.chain)) /\ l.rec = d.store.rec /\ l.box = d.store.box
  BY DEF Sound, LedgerOf
<1> HIDE DEF l
<1>2. TreeNow(d) = [rec |-> l.rec, live |-> {b \in Boxes : l.box[b] = "live"}, at |-> Len(d.chain)]
  BY <1>1 DEF TreeNow, TreeAt
<1> QED BY <1>1, <1>2 DEF TreeOf

(* Tables with one ledger have one tree. *)
LEMMA TreeBeside ==
  ASSUME NEW s, NEW u, LedgerOf(s) = LedgerOf(u), NEW h
  PROVE  TreeOf(s, h) = TreeOf(u, h)
<1>1. LedgerOf(s).rec = LedgerOf(u).rec /\ LedgerOf(s).box = LedgerOf(u).box
  OBVIOUS
<1>2. s.rec = u.rec /\ s.box = u.box
  BY <1>1 DEF LedgerOf
<1> QED BY <1>2 DEF TreeOf

(* An update, part by part. *)
LEMMA UpdatedFields ==
  ASSUME NEW d, DbShape(d), NEW h
  PROVE  LET u == Updated(d, h)
         IN /\ DbShape(u)
            /\ u.rows = TreeRows(d.rows, h)
            /\ DOMAIN u.versions = DOMAIN d.versions \cup {h}
            /\ \A i \in DOMAIN u.versions : u.versions[i] = IF i = h THEN root ELSE d.versions[i]
<1> DEFINE rows == TreeRows(d.rows, h)
           versions == [i \in DOMAIN d.versions \cup {h} |-> IF i = h THEN root ELSE d.versions[i]]
<1>1. Updated(d, h) = [d EXCEPT !.rows = rows, !.versions = versions]
  BY DEF Updated, TreeRows
<1> HIDE DEF rows, versions
<1>2. DbShape(Updated(d, h)) /\ Updated(d, h).rows = rows /\ Updated(d, h).versions = versions
  BY <1>1 DEF DbShape
<1>3. /\ DOMAIN versions = DOMAIN d.versions \cup {h}
      /\ \A i \in DOMAIN versions : versions[i] = IF i = h THEN root ELSE d.versions[i]
  BY DEF versions
<1> QED BY <1>2, <1>3 DEF rows

(* Pruning, part by part. *)
LEMMA PrunedFields ==
  ASSUME NEW d, DbShape(d), NEW c \in Int
  PROVE  LET f == Pruned(d, c)
         IN /\ DbShape(f)
            /\ f.rows = IF c > 0 THEN {r \in d.rows : r.gone = 0 \/ r.gone > c} ELSE d.rows
            /\ DOMAIN f.versions = {i \in DOMAIN d.versions : c > 0 => i >= c}
            /\ \A i \in DOMAIN f.versions : f.versions[i] = d.versions[i]
<1>1. CASE c > 0
  <2> DEFINE rows == {r \in d.rows : r.gone = 0 \/ r.gone > c}
             versions == Restrict(d.versions, {i \in DOMAIN d.versions : i >= c})
  <2>1. Pruned(d, c) = [d EXCEPT !.rows = rows, !.versions = versions]
    BY <1>1 DEF Pruned
  <2>2. /\ DOMAIN versions = {i \in DOMAIN d.versions : i >= c}
        /\ \A i \in DOMAIN versions : versions[i] = d.versions[i]
    BY DEF Restrict
  <2> HIDE DEF rows, versions
  <2>3. DbShape(Pruned(d, c)) /\ Pruned(d, c).rows = rows /\ Pruned(d, c).versions = versions
    BY <2>1 DEF DbShape
  <2> QED BY <1>1, <2>2, <2>3 DEF rows
<1>2. CASE ~(c > 0)
  BY <1>2 DEF Pruned
<1> QED BY <1>1, <1>2

(* Deleting a version, part by part. *)
LEMMA DeletedFields ==
  ASSUME NEW d, DbShape(d), NEW h
  PROVE  LET f == VersionDeleted(d, h)
         IN /\ DbShape(f)
            /\ f.rows = RowsWithout(d.rows, h)
            /\ DOMAIN f.versions = DOMAIN d.versions \ {h}
            /\ \A i \in DOMAIN f.versions : f.versions[i] = d.versions[i]
<1> DEFINE rows == RowsWithout(d.rows, h)
           versions == Restrict(d.versions, DOMAIN d.versions \ {h})
<1>1. VersionDeleted(d, h) = [d EXCEPT !.rows = rows, !.versions = versions]
  BY DEF VersionDeleted, RowsWithout
<1>2. /\ DOMAIN versions = DOMAIN d.versions \ {h}
      /\ \A i \in DOMAIN versions : versions[i] = d.versions[i]
  BY DEF Restrict
<1> HIDE DEF rows, versions
<1>3. DbShape(VersionDeleted(d, h)) /\ VersionDeleted(d, h).rows = rows /\ VersionDeleted(d, h).versions = versions
  BY <1>1 DEF DbShape
<1> QED BY <1>2, <1>3 DEF rows

\* f's rows and versions are d's with the prover's tree as version h, pruned below c.
TreeAdded(d, f, h, c) ==
  /\ f.rows = IF c > 0 THEN {r \in TreeRows(d.rows, h) : r.gone = 0 \/ r.gone > c} ELSE TreeRows(d.rows, h)
  /\ DOMAIN f.versions = {i \in DOMAIN d.versions \cup {h} : c > 0 => i >= c}
  /\ \A i \in DOMAIN f.versions : f.versions[i] = IF i = h THEN root ELSE d.versions[i]

(* A checkpoint stores one more version. *)
LEMMA StoredExtended ==
  ASSUME NEW d, Stored(d), Full(d), d.chain \in Seq(Menu), Len(d.chain) < MaxHeight,
         NEW e \in Menu, NEW f, f.chain = Append(d.chain, e), NEW h, h = Len(d.chain) + 1,
         NEW c \in Int, c <= h, TreeAdded(d, f, h, c),
         base = TreeNow(d), root = TreeAt(f.chain, h)
  PROVE  Stored(f) /\ Full(f)
<1> DEFINE n == Len(d.chain)
           R == d.rows
           U == TreeRows(R, h)
           V == d.versions
           fc == f.chain
<1>0. n \in Nat /\ h \in Nat /\ h = n + 1 /\ n < MaxHeight /\ MaxHeight \in Nat
  BY HistoryAssumption
<1>1. /\ DOMAIN V \subseteq 0 .. n /\ n \in DOMAIN V
      /\ \A i \in DOMAIN V : i .. n \subseteq DOMAIN V
      /\ \A i \in DOMAIN V : V[i] = TreeAt(d.chain, i) /\ Holds(R, i, V[i])
      /\ Lifetimes(R, n)
  BY DEF Stored, Full
<1>2. fc \in Seq(Menu) /\ Len(fc) = h /\ \A i \in 1 .. n : fc[i] = d.chain[i]
  OBVIOUS
<1>3. base = V[n]
  BY <1>1 DEF TreeNow
<1>4. /\ Lifetimes(U, h) /\ Holds(U, h, root)
      /\ \A i \in 0 .. n : \A t : Holds(R, i, t) => Holds(U, i, t)
  <2>1. Holds(R, n, base)
    BY <1>1, <1>3
  <2>2. Lifetimes(R, n) /\ n \in Nat /\ h = n + 1
    BY <1>0, <1>1
  <2> HIDE DEF n, R
  <2> QED BY <2>1, <2>2, RowsUpdated, Zenon
<1>5. /\ f.rows = IF c > 0 THEN {r \in U : r.gone = 0 \/ r.gone > c} ELSE U
      /\ DOMAIN f.versions = {i \in DOMAIN V \cup {h} : c > 0 => i >= c}
      /\ \A i \in DOMAIN f.versions : f.versions[i] = IF i = h THEN root ELSE V[i]
  BY DEF TreeAdded
<1> HIDE DEF U, V, R, fc, n
<1>6. \A i \in 0 .. n : TreeAt(fc, i) = TreeAt(d.chain, i)
  <2> TAKE i \in 0 .. n
  <2>1. i \in 0 .. Len(d.chain)
    BY DEF n
  <2>2. i \in Int /\ i <= n
    BY <1>0
  <2>3. \A j \in 1 .. i : d.chain[j] = fc[j]
    BY <1>0, <1>2, <2>2
  <2>4. i <= Len(fc)
    BY <1>0, <1>2, <2>2
  <2> QED BY <1>2, <2>1, <2>3, <2>4, TreePrefix
<1>7. DOMAIN f.versions \subseteq 0 .. h /\ h \in DOMAIN f.versions
  <2>1. h \in 0 .. h
    BY <1>0
  <2>2. c > 0 => h >= c
    BY <1>0
  <2>3. 0 .. n \subseteq 0 .. h
    BY <1>0
  <2> QED BY <1>1, <1>5, <2>1, <2>2, <2>3
<1>8. \A i \in DOMAIN f.versions : i .. h \subseteq DOMAIN f.versions
  <2> TAKE i \in DOMAIN f.versions
  <2> SUFFICES ASSUME NEW k \in i .. h PROVE k \in DOMAIN f.versions
    OBVIOUS
  <2>1. i \in 0 .. h /\ (c > 0 => i >= c) /\ (i = h \/ i \in DOMAIN V)
    BY <1>5, <1>7
  <2>2. c > 0 => k >= c
    BY <1>0, <2>1
  <2>3. k = h \/ k \in DOMAIN V
    <3>1. CASE i = h
      BY <1>0, <3>1
    <3>2. CASE i \in DOMAIN V
      <4>1. k = h \/ k \in i .. n
        BY <1>0, <2>1
      <4> QED BY <1>1, <3>2, <4>1
    <3> QED BY <2>1, <3>1, <3>2
  <2> QED BY <1>5, <2>2, <2>3
<1>9. \A i \in DOMAIN f.versions : f.versions[i] = TreeAt(fc, i)
  <2> TAKE i \in DOMAIN f.versions
  <2>1. CASE i = h
    BY <1>5, <2>1 DEF fc
  <2>2. CASE i # h
    <3>1. i \in DOMAIN V /\ i \in 0 .. n
      BY <1>1, <1>5, <2>2
    <3> QED BY <1>1, <1>5, <1>6, <2>2, <3>1
  <2> QED BY <2>1, <2>2
<1>10. \A i \in DOMAIN f.versions : Holds(U, i, f.versions[i])
  <2> TAKE i \in DOMAIN f.versions
  <2>1. CASE i = h
    BY <1>4, <1>5, <2>1
  <2>2. CASE i # h
    <3>1. i \in DOMAIN V /\ i \in 0 .. n /\ f.versions[i] = V[i]
      BY <1>1, <1>5, <2>2
    <3> QED BY <1>1, <1>4, <3>1
  <2> QED BY <2>1, <2>2
<1>11. Lifetimes(f.rows, h) /\ \A i \in DOMAIN f.versions : Holds(f.rows, i, f.versions[i])
  <2>1. CASE c > 0
    <3>1. c \in Nat
      BY <2>1
    <3> DEFINE P == {r \in U : r.gone = 0 \/ r.gone > c}
    <3>2. /\ Lifetimes(P, h)
          /\ \A i \in 0 .. h : \A t : i >= c /\ Holds(U, i, t) => Holds(P, i, t)
      BY <1>0, <1>4, <3>1, RowsPruned
    <3>3. f.rows = P
      BY <1>5, <2>1
    <3> HIDE DEF P
    <3>4. \A i \in DOMAIN f.versions : i >= c /\ i \in 0 .. h
      BY <1>5, <1>7, <2>1
    <3> QED BY <1>10, <3>2, <3>3, <3>4
  <2>2. CASE ~(c > 0)
    BY <1>4, <1>5, <1>10, <2>2
  <2> QED BY <2>1, <2>2
<1>12. Len(f.chain) = h /\ h <= MaxHeight
  BY <1>0, <1>2 DEF fc
<1> QED BY <1>7, <1>8, <1>9, <1>11, <1>12 DEF Stored, Full, fc

(* Under a journal that reaches less far back than the versions every block keeps its
   version below. *)
LEMMA LinkedExtended ==
  ASSUME Deep, NEW d, Linked(d), Full(d), NEW h \in Nat, h = Len(d.chain) + 1,
         DOMAIN d.journal \subseteq Nat,
         NEW f, DOMAIN f.journal \subseteq {i \in DOMAIN d.journal \cup {h} : i >= h - MaxReorgDepth},
         TreeAdded(d, f, h, h - MaxProofHistory)
  PROVE  Linked(f)
<1>1. DOMAIN f.versions = {i \in DOMAIN d.versions \cup {h} : h - MaxProofHistory > 0 => i >= h - MaxProofHistory}
  BY DEF TreeAdded
<1>2. MaxReorgDepth \in Nat /\ MaxProofHistory \in Nat /\ MaxProofHistory >= MaxReorgDepth + 1
  BY HistoryAssumption DEF Deep
<1>3. ASSUME NEW i \in DOMAIN f.journal PROVE i - 1 \in DOMAIN f.versions
  <2>1. i \in Nat /\ i >= h - MaxReorgDepth
    OBVIOUS
  <2>2. i - 1 \in DOMAIN d.versions
    <3>1. CASE i = h
      <4> DEFINE n == Len(d.chain)
      <4>1. n \in DOMAIN d.versions /\ n \in Int
        BY DEF Full
      <4> HIDE DEF n
      <4>2. i - 1 = n
        BY <3>1, <4>1 DEF n
      <4> QED BY <4>1, <4>2
    <3>2. CASE i # h
      BY <3>2 DEF Linked
    <3> QED BY <3>1, <3>2
  <2>3. i - 1 >= h - MaxProofHistory
    BY <1>2, <2>1
  <2> QED BY <1>1, <2>2, <2>3
<1> QED BY <1>3 DEF Linked

\* A checkpoint's database, from the tables and the journal it writes.
Checkpointed(t, h, journal, c) == [Pruned(Updated(t, h), c) EXCEPT !.journal = journal]

(* A checkpoint's database, part by part. *)
LEMMA CheckpointFields ==
  ASSUME NEW t, DbShape(t), NEW h \in Nat, NEW journal, NEW c \in Int
  PROVE  LET f == Checkpointed(t, h, journal, c)
         IN /\ DbShape(f) /\ f.chain = t.chain /\ f.store = t.store /\ f.pool = t.pool
            /\ f.journal = journal /\ TreeAdded(t, f, h, c)
<1> DEFINE u == Updated(t, h)
           g == Pruned(u, c)
           f == [g EXCEPT !.journal = journal]
<1>2. /\ DbShape(u)
      /\ u.rows = TreeRows(t.rows, h)
      /\ DOMAIN u.versions = DOMAIN t.versions \cup {h}
      /\ \A i \in DOMAIN u.versions : u.versions[i] = IF i = h THEN root ELSE t.versions[i]
  BY UpdatedFields
<1>3. SameTables(t, g)
  BY TreeSide
<1> HIDE DEF u
<1>4. /\ DbShape(g)
      /\ g.rows = IF c > 0 THEN {r \in u.rows : r.gone = 0 \/ r.gone > c} ELSE u.rows
      /\ DOMAIN g.versions = {i \in DOMAIN u.versions : c > 0 => i >= c}
      /\ \A i \in DOMAIN g.versions : g.versions[i] = u.versions[i]
  BY <1>2, PrunedFields
<1> HIDE DEF g
<1>5. /\ DbShape(f) /\ f.chain = g.chain /\ f.store = g.store /\ f.pool = g.pool
      /\ f.journal = journal /\ f.rows = g.rows /\ f.versions = g.versions
  BY <1>4 DEF DbShape
<1> HIDE DEF f
<1>6. f.chain = t.chain /\ f.store = t.store /\ f.pool = t.pool
  BY <1>3, <1>5 DEF SameTables
<1>7. TreeAdded(t, f, h, c)
  <2>1. f.rows = IF c > 0 THEN {r \in TreeRows(t.rows, h) : r.gone = 0 \/ r.gone > c} ELSE TreeRows(t.rows, h)
    BY <1>2, <1>4, <1>5
  <2>2. DOMAIN f.versions = {i \in DOMAIN t.versions \cup {h} : c > 0 => i >= c}
    BY <1>2, <1>4, <1>5
  <2>3. \A i \in DOMAIN f.versions : f.versions[i] = IF i = h THEN root ELSE t.versions[i]
    BY <1>2, <1>4, <1>5
  <2> QED BY <2>1, <2>2, <2>3 DEF TreeAdded
<1>8. Checkpointed(t, h, journal, c) = f
  BY DEF Checkpointed, f, g, u
<1> QED BY <1>5, <1>6, <1>7, <1>8

\* What a checkpoint makes of a database.
IsCheckpointed(f, d, e, h, expired) ==
  LET w == writeBlockEffects(d.store, e, h)
      left == LeftBy(d.pool, e, expired)
  IN /\ f.chain = Append(d.chain, e)
     /\ f.pool = (d.pool \ e.txs) \ left
     /\ f.store \in Stores /\ LedgerOf(f.store) = LedgerOf(w.store)
     /\ f.store.post = PostsWithout(w.store, left)
     /\ f.journal = Journalled(d, e, h - MaxReorgDepth)
     /\ TreeAdded(d, f, h, h - MaxProofHistory)

(* A checkpoint at a height without a version writes the block, the pool and the tree. *)
LEMMA CheckpointWrites ==
  ASSUME Sound(db), cur \in Menu, NEW expired, Checkpoint(expired), Tip + 1 \notin DOMAIN db.versions
  PROVE  /\ IsCheckpointed(db', db, cur, Tip + 1, expired)
         /\ base' = root /\ pc' = "checked" /\ UNCHANGED halted
<1> DEFINE h == Tip + 1
           w == writeBlockEffects(db.store, cur, h)
           written == [db EXCEPT !.chain = Append(@, cur), !.store = w.store]
           tabled == followAppliedBlock(written, cur, expired)
           checked == Pruned(Updated(tabled, h), h - MaxProofHistory)
           journal == [i \in DOMAIN db.journal \cup {h} |-> IF i = h THEN w.journal ELSE db.journal[i]]
           kept == Restrict(journal, {i \in DOMAIN journal : i >= h - MaxReorgDepth})
           left == LeftBy(db.pool, cur, expired)
<1>1. DbShape(db) /\ db.store \in Stores /\ h = Len(db.chain) + 1 /\ h \in Nat /\ h - MaxProofHistory \in Int
  BY HistoryAssumption DEF Sound, Tip
<1>2. db' = [checked EXCEPT !.journal = kept] /\ base' = root /\ pc' = "checked" /\ UNCHANGED halted
  BY DEF Checkpoint
<1>3. w.store \in Stores
  BY <1>1, EffectsAre
<1>4. kept = Journalled(db, cur, h - MaxReorgDepth)
  BY DEF Journalled, Tip
<1>5. db' = Checkpointed(tabled, h, kept, h - MaxProofHistory)
  BY <1>2 DEF Checkpointed
<1> HIDE DEF w, journal, kept
<1>6. /\ DbShape(written) /\ written.chain = Append(db.chain, cur) /\ written.store = w.store
      /\ written.pool = db.pool /\ written.rows = db.rows /\ written.versions = db.versions
  BY <1>1 DEF DbShape
<1> HIDE DEF written
<1>7. /\ Beside(written, tabled) /\ tabled.pool = (db.pool \ cur.txs) \ left
      /\ tabled.store.post = PostsWithout(w.store, left)
  BY <1>3, <1>6, Followed
<1> HIDE DEF tabled, left
<1>8. /\ db'.chain = tabled.chain /\ db'.store = tabled.store /\ db'.pool = tabled.pool
      /\ db'.journal = kept /\ TreeAdded(tabled, db', h, h - MaxProofHistory)
  <2> HIDE DEF h
  <2>1. DbShape(tabled)
    BY <1>7 DEF Beside
  <2> QED BY <1>1, <1>5, <2>1, CheckpointFields
<1>9. TreeAdded(db, db', h, h - MaxProofHistory)
  BY <1>6, <1>7, <1>8 DEF TreeAdded, Beside
<1>10. db'.store \in Stores /\ LedgerOf(db'.store) = LedgerOf(w.store) /\ db'.chain = Append(db.chain, cur)
  BY <1>6, <1>7, <1>8 DEF Beside
<1>11. IsCheckpointed(db', db, cur, h, expired)
  BY <1>4, <1>7, <1>8, <1>9, <1>10 DEF IsCheckpointed, w, left
<1> QED BY <1>2, <1>11

\* A revert's database, from the tables and the journal it leaves.
Reverted(d, h, store, chain, journal) ==
  VersionDeleted([d EXCEPT !.store = store, !.chain = chain, !.journal = journal], h)

(* A revert's database, part by part. *)
LEMMA RevertFields ==
  ASSUME NEW d, DbShape(d), NEW h, NEW store, NEW chain, NEW journal
  PROVE  LET f == Reverted(d, h, store, chain, journal)
         IN /\ DbShape(f) /\ f.chain = chain /\ f.store = store /\ f.journal = journal
            /\ f.pool = d.pool /\ f.rows = RowsWithout(d.rows, h)
            /\ DOMAIN f.versions = DOMAIN d.versions \ {h}
            /\ \A i \in DOMAIN f.versions : f.versions[i] = d.versions[i]
<1> DEFINE t == [d EXCEPT !.store = store, !.chain = chain, !.journal = journal]
<1>1. /\ DbShape(t) /\ t.chain = chain /\ t.store = store /\ t.journal = journal
      /\ t.pool = d.pool /\ t.rows = d.rows /\ t.versions = d.versions
  BY DEF DbShape
<1> HIDE DEF t
<1>2. SameTables(t, VersionDeleted(t, h))
  BY <1>1, TreeSide
<1>3. LET f == VersionDeleted(t, h)
      IN /\ f.rows = RowsWithout(d.rows, h)
         /\ DOMAIN f.versions = DOMAIN d.versions \ {h}
         /\ \A i \in DOMAIN f.versions : f.versions[i] = d.versions[i]
  BY <1>1, DeletedFields
<1>4. DbShape(VersionDeleted(t, h)) /\ VersionDeleted(t, h).chain = chain
      /\ VersionDeleted(t, h).store = store /\ VersionDeleted(t, h).journal = journal
      /\ VersionDeleted(t, h).pool = d.pool
  BY <1>1, <1>2 DEF SameTables
<1> QED BY <1>3, <1>4 DEF t, Reverted

(* A block that is written leaves what is kept intact. *)
LEMMA IntactExtended ==
  ASSUME NEW d, Sound(d), Intact(d), Full(d), Len(d.chain) < MaxHeight,
         NEW e \in Menu, Valid(d.store, e), base = TreeNow(d),
         NEW h, h = Len(d.chain) + 1,
         NEW f, Sound(f), f.chain = Append(d.chain, e),
         root = TreeOf(f.store, h),
         f.journal = Journalled(d, e, h - MaxReorgDepth),
         TreeAdded(d, f, h, h - MaxProofHistory)
  PROVE  Intact(f) /\ Full(f) /\ root = TreeNow(f)
<1>1. d.chain \in Seq(Menu) /\ d.store \in Stores /\ DOMAIN d.journal \subseteq 1 .. Len(d.chain)
  BY DEF Sound
<1>2. Len(d.chain) \in Nat /\ h \in Nat \ {0} /\ h - 1 = Len(d.chain) /\ Len(f.chain) = h
  BY <1>1
<1>3. h - MaxProofHistory \in Int /\ h - MaxProofHistory <= h /\ h - MaxReorgDepth \in Int
  BY <1>2, HistoryAssumption
<1>4. root = TreeNow(f)
  BY <1>2, TreeOfSound
<1>5. root = TreeAt(f.chain, h)
  BY <1>2, <1>4 DEF TreeNow
<1>6. Stored(d) /\ (Deep => Linked(d))
  BY DEF Intact
<1>7. Stored(f) /\ Full(f)
  BY <1>1, <1>3, <1>5, <1>6, StoredExtended
<1>8. /\ DOMAIN f.journal = {i \in DOMAIN d.journal \cup {h} : i >= h - MaxReorgDepth}
      /\ \A i \in DOMAIN f.journal :
           f.journal[i] = IF i = h THEN writeBlockEffects(d.store, e, h).journal ELSE d.journal[i]
  <2> DEFINE j == [i \in DOMAIN d.journal \cup {h} |->
                     IF i = h THEN writeBlockEffects(d.store, e, h).journal ELSE d.journal[i]]
  <2>1. f.journal = Restrict(j, {i \in DOMAIN j : i >= h - MaxReorgDepth})
    BY DEF Journalled
  <2>2. /\ DOMAIN j = DOMAIN d.journal \cup {h}
        /\ \A i \in DOMAIN j : j[i] = IF i = h THEN writeBlockEffects(d.store, e, h).journal ELSE d.journal[i]
    OBVIOUS
  <2> HIDE DEF j
  <2> QED BY <2>1, <2>2 DEF Restrict
<1>9. Deep => Linked(f)
  <2>1. DOMAIN d.journal \subseteq Nat
    BY <1>1
  <2> QED BY <1>2, <1>6, <1>8, <2>1, LinkedExtended
<1> QED BY <1>4, <1>7, <1>9 DEF Intact

\* f is d with its newest block, of height h, reverted.
IsReverted(f, d, h) ==
  /\ f.chain = Front(d.chain) /\ f.store = Undone(d.store, d.journal[h]) /\ f.pool = d.pool
  /\ f.journal = Restrict(d.journal, DOMAIN d.journal \ {h})
  /\ f.rows = RowsWithout(d.rows, h)
  /\ DOMAIN f.versions = DOMAIN d.versions \ {h}
  /\ \A i \in DOMAIN f.versions : f.versions[i] = d.versions[i]

(* So does a revert, and the trees below stay. *)
LEMMA IntactReverted ==
  ASSUME NEW d, Sound(d), Intact(d), NEW h, h = Len(d.chain), h \in DOMAIN d.journal,
         NEW f, IsReverted(f, d, h)
  PROVE  /\ Intact(f) /\ h \in Nat \ {0} /\ f.chain \in Seq(Menu) /\ Len(f.chain) = h - 1
         /\ \A i \in 0 .. h - 1 : TreeAt(f.chain, i) = TreeAt(d.chain, i)
<1> DEFINE c == d.chain
           fc == f.chain
           J == d.journal
           FJ == f.journal
           V == d.versions
           FV == f.versions
           FR == f.rows
<1>1. c \in Seq(Menu) /\ d.store \in Stores /\ DOMAIN J \subseteq 1 .. Len(c)
  BY DEF Sound
<1>2. h \in Nat \ {0} /\ h \in Nat /\ h # 0 /\ h = Len(c) /\ h - 1 \in Nat
  BY <1>1
<1>3. fc \in Seq(Menu) /\ Len(fc) = h - 1 /\ \A i \in 1 .. h - 1 : fc[i] = c[i]
  BY <1>1, <1>2 DEF Front, IsReverted
<1>4. DOMAIN FJ = DOMAIN J \ {h} /\ \A i \in DOMAIN FJ : FJ[i] = J[i]
  BY DEF Restrict, IsReverted
<1>5. /\ h <= MaxHeight /\ MaxHeight \in Nat
      /\ DOMAIN V \subseteq 0 .. h
      /\ \A i \in DOMAIN V : i .. h \subseteq DOMAIN V
      /\ \A i \in DOMAIN V : V[i] = TreeAt(c, i) /\ Holds(d.rows, i, V[i])
      /\ Lifetimes(d.rows, h)
  BY HistoryAssumption DEF Intact, Stored
<1>6. /\ Lifetimes(FR, h - 1)
      /\ \A i \in 0 .. h - 1 : \A t : Holds(d.rows, i, t) => Holds(FR, i, t)
  BY <1>2, <1>5, RowsDeleted DEF IsReverted
<1>7. DOMAIN FV = DOMAIN V \ {h} /\ \A i \in DOMAIN FV : FV[i] = V[i]
  BY DEF IsReverted
<1> HIDE DEF c, fc, J, FJ, V, FV, FR
<1>8. \A i \in 0 .. h - 1 : TreeAt(fc, i) = TreeAt(c, i)
  <2> TAKE i \in 0 .. h - 1
  <2>1. i \in 0 .. Len(fc) /\ i <= Len(c) /\ \A j \in 1 .. i : fc[j] = c[j]
    BY <1>2, <1>3
  <2> QED BY <1>1, <1>3, <2>1, TreePrefix
<1>9. DOMAIN FV \subseteq 0 .. h - 1
  BY <1>2, <1>5, <1>7
<1>10. \A i \in DOMAIN FV : i .. h - 1 \subseteq DOMAIN FV
  <2> TAKE i \in DOMAIN FV
  <2> SUFFICES ASSUME NEW k \in i .. h - 1 PROVE k \in DOMAIN FV
    OBVIOUS
  <2>1. k \in i .. h /\ k # h
    BY <1>2, <1>9
  <2> QED BY <1>5, <1>7, <2>1
<1>11. \A i \in DOMAIN FV : FV[i] = TreeAt(fc, i) /\ Holds(FR, i, FV[i])
  BY <1>5, <1>6, <1>7, <1>8, <1>9
<1>12. Stored(f)
  <2>1. Len(f.chain) = h - 1 /\ h - 1 <= MaxHeight
    BY <1>2, <1>3, <1>5 DEF fc
  <2> QED BY <1>6, <1>9, <1>10, <1>11, <2>1 DEF Stored, FV, FR, fc
<1>13. Deep => Linked(f)
  <2> SUFFICES ASSUME Deep, NEW i \in DOMAIN FJ PROVE i - 1 \in DOMAIN FV
    BY DEF Linked, FJ, FV
  <2>1. i \in DOMAIN J /\ i # h
    BY <1>4
  <2>2. i - 1 \in DOMAIN V
    BY <2>1 DEF Intact, Linked, J, V
  <2>3. i - 1 # h
    BY <1>1, <1>2, <2>1
  <2> QED BY <1>7, <2>2, <2>3
<1> QED BY <1>2, <1>3, <1>8, <1>12, <1>13 DEF Intact, fc, c

(* What is written beside the ledger leaves it. *)
LEMMA IntactBeside ==
  ASSUME NEW d, NEW f, Intact(d), Beside(d, f)
  PROVE  Intact(f)
  BY DEF Intact, Stored, Linked, Beside

-----------------------------------------------------------------------------
(* The invariant holds. *)

(* A saved prover is not the absent one. *)
LEMMA SavedNotNone ==
  ASSUME NEW a, NEW b
  PROVE  [db |-> a, root |-> b] # None
<1>1. "db" \in DOMAIN [db |-> a, root |-> b] /\ "db" \notin DOMAIN None
  BY DEF None
<1> QED BY <1>1

(* Max of a set with a greatest element. *)
LEMMA MaxIs ==
  ASSUME NEW S \in SUBSET Int, NEW m \in S, \A y \in S : y <= m
  PROVE  Max(S) = m
<1>1. \E x \in S : \A y \in S : x >= y
  OBVIOUS
<1> DEFINE x == Max(S)
<1>2. x \in S /\ \A y \in S : x >= y
  BY <1>1 DEF Max
<1> HIDE DEF x
<1>3. x \in Int /\ m \in Int /\ x >= m /\ x <= m
  BY <1>2
<1>4. x = m
  BY <1>3
<1> QED BY <1>4 DEF x

(* The invariant holds at genesis. *)
LEMMA InitStored == Init => SInv
<1> SUFFICES ASSUME Init PROVE SInv
  OBVIOUS
<1> DEFINE t == TreeOf(EmptyStore, 0)
           R == {[label |-> x, seen |-> 0, gone |-> 0] : x \in TreeNodes(t)}
<1>1. /\ db.chain = <<>> /\ db.store = EmptyStore /\ db.journal = [i \in {} |-> None] /\ db.rows = R
      /\ db.versions = [i \in {0} |-> t]
      /\ root = t /\ base = t /\ ring = Kept(NoRing, 0, t, 0)
      /\ pc = "idle" /\ inner = None /\ outer = None /\ halted = "no"
  BY DEF Init
<1>2. Len(db.chain) = 0 /\ DOMAIN db.journal = {} /\ DOMAIN db.versions = {0} /\ db.versions[0] = t
  BY <1>1
<1>3. t = TreeNow(db) /\ t = TreeAt(db.chain, 0)
  <2>1. Sound(db)
    BY InitInv DEF IInv
  <2>2. TreeOf(db.store, Len(db.chain)) = TreeNow(db)
    BY <2>1, TreeOfSound
  <2> QED BY <1>1, <1>2, <2>2 DEF TreeNow
<1> HIDE DEF t
<1>4. \A r \in R : r.label \in TreeNodes(t) /\ Lifetime(r, 0) /\ r = [label |-> r.label, seen |-> 0, gone |-> 0]
  BY DEF Lifetime, RowShape
<1>5. \A x \in TreeNodes(t) : \E r \in R : r.label = x /\ AliveAt(r, 0)
  <2> TAKE x \in TreeNodes(t)
  <2>1. [label |-> x, seen |-> 0, gone |-> 0] \in R
    OBVIOUS
  <2> QED BY <2>1 DEF AliveAt
<1> HIDE DEF R
<1>6. Lifetimes(R, 0) /\ Holds(R, 0, t)
  BY <1>4, <1>5 DEF Lifetimes, Holds
<1>7. Stored(db) /\ Full(db)
  <2>1. 0 <= MaxHeight /\ 0 .. 0 = {0}
    BY HistoryAssumption
  <2> QED BY <1>1, <1>2, <1>3, <1>6, <2>1 DEF Stored, Full
<1>8. Intact(db)
  BY <1>1, <1>2, <1>7 DEF Intact, Linked
<1>9. Ringed(ring, db.chain, 0)
  <2>1. DOMAIN NoRing = {} /\ Cardinality(DOMAIN NoRing) <= ProofWindow
    BY RingNone DEF Ringed
  <2>2. Ringed(Kept(NoRing, 0, TreeAt(db.chain, 0), 0), db.chain, 0)
    BY <2>1, RingKept
  <2> QED BY <1>1, <1>3, <2>2
<1>10. ProverInv
  BY <1>1, <1>2, <1>3, <1>7, <1>9 DEF ProverInv, RingDb
<1>11. SavedInv
  BY <1>1 DEF SavedInv, InSwitch
<1> QED BY <1>1, <1>8, <1>10, <1>11 DEF SInv

(* It is kept when nothing changes. *)
LEMMA StutterStored ==
  ASSUME SInv, UNCHANGED vars
  PROVE  SInv'
  BY DEF SInv, ProverInv, SavedInv, RingDb, InSwitch, Tip, vars, proverVars

(* When a block begins: what it saves is the prover's tree. *)
LEMMA BeginStored ==
  ASSUME IInv, SInv, NEW e \in Menu, pc \in {"idle", "switching"}, Begin(e)
  PROVE  SInv'
<1>1. /\ Tip < MaxHeight /\ inner' = [db |-> db, root |-> root] /\ cur' = e
      /\ root' = TreeOf(writeBlockEffects(db.store, e, Tip + 1).store, Tip + 1)
      /\ pc' = "written"
      /\ UNCHANGED <<db, base, ring, outer, target, halted>>
  BY DEF Begin
<1>2. inner'.db = db /\ inner'.root = root /\ inner' # None
  BY <1>1, SavedNotNone
<1>3. /\ Intact(db) /\ ProverInv /\ SavedInv
      /\ halted \in {"no", "DuplicateStateVersion", "MissingStateVersion", "InconsistentAvlNodeRows"}
      /\ (Deep => halted = "no")
  BY DEF SInv
<1>4. Full(db) /\ root = TreeNow(db) /\ base = TreeNow(db) /\ Ringed(ring, db.chain, Len(db.chain))
  BY <1>3 DEF ProverInv, RingDb
<1>5. ProverInv'
  BY <1>1, <1>4 DEF ProverInv, RingDb, Tip
<1>6. SavedInv'
  BY <1>1, <1>2, <1>3, <1>4 DEF SavedInv, InSwitch
<1> QED BY <1>1, <1>3, <1>5, <1>6 DEF SInv

(* When a template is tried or a proof is asked: the tree is saved, the tables stay. *)
LEMMA CycleStored ==
  ASSUME IInv, SInv, pc = "idle", pc' = "cycle", inner' = [db |-> db, root |-> root],
         UNCHANGED <<db, ring, outer, target, halted>>
  PROVE  SInv'
<1>2. inner'.db = db /\ inner'.root = root /\ inner' # None
  BY SavedNotNone
<1>3. /\ Intact(db) /\ ProverInv /\ SavedInv
      /\ halted \in {"no", "DuplicateStateVersion", "MissingStateVersion", "InconsistentAvlNodeRows"}
      /\ (Deep => halted = "no")
  BY DEF SInv
<1>4. Full(db) /\ root = TreeNow(db) /\ Ringed(ring, db.chain, Len(db.chain))
  BY <1>3 DEF ProverInv, RingDb
<1>5. ProverInv'
  BY <1>4 DEF ProverInv, RingDb
<1>6. SavedInv'
  BY <1>2, <1>3, <1>4 DEF SavedInv, InSwitch
<1> QED BY <1>3, <1>5, <1>6 DEF SInv

(* When a proof cycle ends: the tree saved is that of the tables. *)
LEMMA EndCycleStored ==
  ASSUME IInv, SInv, EndCycle
  PROVE  SInv'
<1>1. /\ pc = "cycle" /\ pc' = "idle" /\ inner' = None /\ root' = inner.root /\ base' = inner.root
      /\ UNCHANGED <<db, ring, outer, target, halted>>
  BY DEF EndCycle, restoreProver
<1>3. /\ Intact(db) /\ ProverInv /\ SavedInv
      /\ halted \in {"no", "DuplicateStateVersion", "MissingStateVersion", "InconsistentAvlNodeRows"}
      /\ (Deep => halted = "no")
  BY DEF SInv
<1>4. Full(db) /\ Ringed(ring, db.chain, Len(db.chain)) /\ inner.root = TreeNow(db)
  BY <1>1, <1>3 DEF ProverInv, RingDb, SavedInv
<1>5. ProverInv'
  BY <1>1, <1>4 DEF ProverInv, RingDb
<1>6. SavedInv'
  BY <1>1, <1>3 DEF SavedInv, InSwitch
<1> QED BY <1>1, <1>3, <1>5, <1>6 DEF SInv

(* When a block's effects are written: its version is new, and one more. *)
LEMMA CheckpointStored ==
  ASSUME IInv, SInv, IInv', NEW expired, Checkpoint(expired)
  PROVE  SInv'
<1> DEFINE h == Tip + 1
           w == writeBlockEffects(db.store, cur, h)
<1>0. pc = "written" /\ UNCHANGED <<root, ring, inner, outer, target>>
  BY DEF Checkpoint
<1>1. /\ Intact(db) /\ ProverInv /\ SavedInv
      /\ halted \in {"no", "DuplicateStateVersion", "MissingStateVersion", "InconsistentAvlNodeRows"}
      /\ (Deep => halted = "no")
  BY DEF SInv
<1>2. /\ Sound(db) /\ Sound(db)' /\ db = inner.db /\ cur \in Menu /\ Valid(db.store, cur)
  BY <1>0 DEF IInv, InnerInv
<1>3. db.chain \in Seq(Menu) /\ h = Len(db.chain) + 1 /\ h \in Nat
  BY <1>2 DEF Sound, Tip
<1>4. h \notin DOMAIN db.versions
  BY <1>1, <1>3 DEF Intact, Stored
<1>5. IsCheckpointed(db', db, cur, h, expired) /\ base' = root /\ pc' = "checked" /\ UNCHANGED halted
  BY <1>2, <1>4, CheckpointWrites
<1>6. /\ db'.chain = Append(db.chain, cur) /\ LedgerOf(db'.store) = LedgerOf(w.store)
      /\ db'.journal = Journalled(db, cur, h - MaxReorgDepth)
      /\ TreeAdded(db, db', h, h - MaxProofHistory)
  BY <1>5 DEF IsCheckpointed
<1>8. /\ Full(db) /\ base = TreeNow(db) /\ Tip < MaxHeight
      /\ root = TreeOf(w.store, h) /\ Ringed(ring, db.chain, Len(db.chain))
  BY <1>0, <1>1 DEF ProverInv, RingDb
<1> HIDE DEF h, w
<1>9. Intact(db') /\ Full(db') /\ root = TreeNow(db')
  <2>1. Len(db.chain) < MaxHeight
    BY <1>8 DEF Tip
  <2>2. root = TreeOf(db'.store, h)
    BY <1>6, <1>8, TreeBeside
  <2>3. h = Len(db.chain) + 1 /\ Sound(db')
    BY <1>2, <1>3
  <2> QED BY <1>1, <1>2, <1>6, <1>8, <2>1, <2>2, <2>3, IntactExtended
<1>10. ProverInv'
  BY <1>0, <1>2, <1>5, <1>8, <1>9 DEF ProverInv, RingDb
<1>11. SavedInv'
  BY <1>0, <1>1, <1>5 DEF SavedInv, InSwitch
<1> QED BY <1>0, <1>1, <1>5, <1>9, <1>10, <1>11 DEF SInv

(* When a block stands: its root is the newest kept. *)
LEMMA FinishStored ==
  ASSUME IInv, SInv, Finish
  PROVE  SInv'
<1>0. /\ pc = "checked" /\ pc' \in {"switching", "idle"} /\ inner' = None
      /\ ring' = Kept(ring, Tip, root, cur.replaced)
      /\ UNCHANGED <<db, root, base, outer, target, halted>>
  BY DEF Finish
<1>1. /\ Intact(db) /\ ProverInv /\ SavedInv
      /\ halted \in {"no", "DuplicateStateVersion", "MissingStateVersion", "InconsistentAvlNodeRows"}
      /\ (Deep => halted = "no")
  BY DEF SInv
<1>2. /\ Full(db) /\ root = TreeNow(db) /\ base = TreeNow(db)
      /\ Ringed(ring, inner.db.chain, Len(inner.db.chain))
  BY <1>0, <1>1 DEF ProverInv, RingDb
<1>3. PICK e \in Menu : db.chain = Append(inner.db.chain, e)
  BY <1>0 DEF IInv, InnerInv
<1> DEFINE c == inner.db.chain
           n == Len(c)
<1>4. c \in Seq(Menu) /\ db.chain \in Seq(Menu)
  BY <1>0 DEF IInv, InnerInv, Sound
<1>5. /\ n \in Nat /\ Tip = n + 1 /\ Tip \in Nat /\ Tip # 0 /\ Tip - 1 = n /\ Len(db.chain) = Tip
      /\ \A i \in 1 .. n : c[i] = db.chain[i]
  BY <1>3, <1>4 DEF Tip
<1>6. \A i \in DOMAIN ring : ring[i].tree = TreeAt(db.chain, i)
  <2> TAKE i \in DOMAIN ring
  <2>1. ring[i].tree = TreeAt(c, i) /\ i \in 0 .. n
    BY <1>2, <1>5 DEF Ringed, Interval
  <2>2. i \in 0 .. Len(c) /\ i <= Len(db.chain) /\ \A j \in 1 .. i : c[j] = db.chain[j]
    BY <1>5, <2>1
  <2> QED BY <1>4, <2>1, <2>2, TreePrefix
<1>7. Ringed(ring', db.chain, Tip)
  <2>1. Interval(DOMAIN ring, Tip - 1) /\ Cardinality(DOMAIN ring) <= ProofWindow
    BY <1>2, <1>5 DEF Ringed
  <2>2. ring' = Kept(ring, Tip, TreeAt(db.chain, Tip), cur.replaced)
    BY <1>0, <1>2, <1>5 DEF TreeNow
  <2> HIDE DEF n
  <2>3. Ringed(Kept(ring, Tip, TreeAt(db.chain, Tip), cur.replaced), db.chain, Tip)
    BY <1>5, <1>6, <2>1, RingKept
  <2> QED BY <2>2, <2>3
<1>8. ProverInv'
  BY <1>0, <1>2, <1>5, <1>7 DEF ProverInv, RingDb
<1>9. SavedInv'
  BY <1>0, <1>1 DEF SavedInv, InSwitch
<1> QED BY <1>0, <1>1, <1>8, <1>9 DEF SInv

(* When a block is refused: tables and tree go back together. *)
LEMMA RefuseBlockStored ==
  ASSUME IInv, SInv, RefuseBlock
  PROVE  SInv'
<1>0. /\ pc \in {"written", "checked"} /\ pc' \in {"aborting", "idle"} /\ inner' = None
      /\ db' = inner.db /\ root' = inner.root /\ base' = inner.root
      /\ UNCHANGED <<ring, outer, target, halted>>
  BY DEF RefuseBlock, restoreProver
<1>1. /\ ProverInv /\ SavedInv
      /\ halted \in {"no", "DuplicateStateVersion", "MissingStateVersion", "InconsistentAvlNodeRows"}
      /\ (Deep => halted = "no")
  BY DEF SInv
<1>2. Intact(inner.db) /\ Full(inner.db) /\ inner.root = TreeNow(inner.db)
  BY <1>0, <1>1 DEF SavedInv
<1>3. Ringed(ring, inner.db.chain, Len(inner.db.chain))
  BY <1>0, <1>1 DEF ProverInv, RingDb, IInv, InnerInv
<1>4. ProverInv'
  BY <1>0, <1>2, <1>3 DEF ProverInv, RingDb
<1>5. SavedInv'
  BY <1>0, <1>1 DEF SavedInv, InSwitch
<1> QED BY <1>0, <1>1, <1>2, <1>4, <1>5 DEF SInv

(* When a switch starts: the version at its fork is there. *)
LEMMA StartSwitchStored ==
  ASSUME IInv, SInv, IInv', NEW f, StartSwitch(f)
  PROVE  SInv'
<1>0. /\ pc = "idle" /\ pc' = "reverting"
      /\ outer' = [db |-> db, root |-> root, ring |-> ring] /\ target' = f
      /\ UNCHANGED <<db, root, base, ring, cur, inner, halted>>
  BY DEF StartSwitch, proverVars
<1>1. /\ Intact(db) /\ ProverInv /\ SavedInv
      /\ halted \in {"no", "DuplicateStateVersion", "MissingStateVersion", "InconsistentAvlNodeRows"}
      /\ (Deep => halted = "no")
  BY DEF SInv
<1>2. outer'.db = db /\ outer'.root = root /\ outer'.ring = ring /\ outer' # None
  BY <1>0, NotNone
<1>3. Full(db) /\ root = TreeNow(db) /\ Ringed(ring, db.chain, Len(db.chain))
  BY <1>0, <1>1 DEF ProverInv, RingDb
<1>4. f \in Nat /\ f + 1 \in DOMAIN db.journal
  <2>1. OuterInv' /\ Sound(db)
    BY DEF IInv
  <2>2. f \in Nat /\ f < Len(db.chain) /\ f + 1 .. Tip \subseteq DOMAIN db.journal
    BY <1>0, <1>2, <2>1 DEF OuterInv, InSwitch, Tip
  <2>3. Tip = Len(db.chain) /\ Len(db.chain) \in Nat
    BY <2>1 DEF Tip, Sound
  <2> QED BY <2>2, <2>3
<1>5. Deep => f \in DOMAIN db.versions
  <2>1. Deep => (f + 1) - 1 \in DOMAIN db.versions
    BY <1>1, <1>4 DEF Intact, Linked
  <2>2. (f + 1) - 1 = f
    BY <1>4
  <2> QED BY <2>1, <2>2
<1>6. ProverInv'
  BY <1>0, <1>3 DEF ProverInv, RingDb
<1>7. SavedInv'
  BY <1>0, <1>1, <1>2, <1>3, <1>5 DEF SavedInv, InSwitch, Settled
<1> QED BY <1>0, <1>1, <1>6, <1>7 DEF SInv

(* When a block is reverted: its version, its kept root and its journal row go. *)
LEMMA RevertStored ==
  ASSUME IInv, SInv, Revert
  PROVE  SInv'
<1> DEFINE h == Tip
           untabled == [db EXCEPT !.store = Undone(@, db.journal[h]), !.chain = Front(@),
                                  !.journal = Restrict(@, DOMAIN @ \ {h})]
           store == Undone(db.store, db.journal[h])
           chain == Front(db.chain)
           journal == Restrict(db.journal, DOMAIN db.journal \ {h})
<1>0. /\ pc = "reverting" /\ h > target /\ db' = VersionDeleted(untabled, h)
      /\ ring' = Dropped(ring, h)
      /\ UNCHANGED <<root, base, pc, cur, inner, outer, target, halted>>
  BY DEF Revert
<1>1. /\ Intact(db) /\ ProverInv /\ SavedInv
      /\ halted \in {"no", "DuplicateStateVersion", "MissingStateVersion", "InconsistentAvlNodeRows"}
      /\ (Deep => halted = "no")
  BY DEF SInv
<1>2. /\ Sound(db) /\ DbShape(db) /\ db.chain \in Seq(Menu) /\ h = Len(db.chain) /\ h \in Nat
      /\ target \in Nat /\ h \in DOMAIN db.journal
  <2>1. Sound(db) /\ OuterInv /\ InSwitch
    BY <1>0 DEF IInv, PcInv
  <2>2. target \in Nat /\ target + 1 .. Tip \subseteq DOMAIN db.journal
    BY <1>0, <2>1 DEF OuterInv
  <2>3. db.chain \in Seq(Menu) /\ h = Len(db.chain) /\ h \in Nat /\ DbShape(db)
    BY <2>1 DEF Sound, Tip
  <2>4. h \in target + 1 .. h
    BY <1>0, <2>2, <2>3
  <2> QED BY <2>1, <2>2, <2>3, <2>4
<1>3. untabled = [db EXCEPT !.store = store, !.chain = chain, !.journal = journal]
  OBVIOUS
<1>4. /\ db'.chain = chain /\ db'.store = store /\ db'.journal = journal /\ db'.pool = db.pool
      /\ db'.rows = RowsWithout(db.rows, h)
      /\ DOMAIN db'.versions = DOMAIN db.versions \ {h}
      /\ \A i \in DOMAIN db'.versions : db'.versions[i] = db.versions[i]
  <2>1. db' = Reverted(db, h, store, chain, journal)
    BY <1>0, <1>3 DEF Reverted
  <2> HIDE DEF untabled, store, chain, journal, h
  <2> QED BY <1>2, <2>1, RevertFields
<1>5. /\ Intact(db') /\ h \in Nat \ {0} /\ Len(db'.chain) = h - 1
      /\ \A i \in 0 .. h - 1 : TreeAt(db'.chain, i) = TreeAt(db.chain, i)
  <2>1. IsReverted(db', db, h)
    BY <1>4 DEF IsReverted
  <2> HIDE DEF h, untabled, store, chain, journal
  <2>3. Sound(db) /\ Intact(db) /\ h = Len(db.chain) /\ h \in DOMAIN db.journal
    BY <1>1, <1>2
  <2> QED BY <2>1, <2>3, IntactReverted
<1> HIDE DEF untabled, store, chain, journal
<1>6. Ringed(ring, db.chain, h)
  BY <1>0, <1>1, <1>2 DEF ProverInv, RingDb
<1> HIDE DEF h
<1>7. Ringed(ring', db'.chain, h - 1)
  BY <1>0, <1>5, <1>6, RingDropped
<1>8. Deep => target \in DOMAIN db'.versions
  <2>1. Deep => target \in DOMAIN db.versions
    BY <1>0, <1>1 DEF SavedInv
  <2>2. target # h
    BY <1>0, <1>2
  <2> QED BY <1>4, <2>1, <2>2
<1>9. ProverInv'
  BY <1>0, <1>5, <1>7 DEF ProverInv, RingDb
<1>10. SavedInv'
  BY <1>0, <1>1, <1>8 DEF SavedInv, InSwitch
<1> QED BY <1>0, <1>1, <1>5, <1>9, <1>10 DEF SInv

(* When the prover is placed at the fork.  Its version resolves whenever it is there. *)
LEMMA ResolveForkStored ==
  ASSUME IInv, SInv, NEW returned, ResolveFork(returned)
  PROVE  SInv'
<1> DEFINE known == {i \in DOMAIN db.versions : i <= target}
           byReference == target \in DOMAIN ring /\ ring[target].tree = db.versions[Max(known)]
<1>0. pc = "reverting" /\ Tip = target /\ UNCHANGED <<cur, inner, outer, target>>
  BY DEF ResolveFork
<1>x. Intact(db') /\ db'.chain = db.chain /\ db'.versions = db.versions
  <2>1. Beside(db, db')
    <3>1. db' = db \/ db' = [db EXCEPT !.pool = db.pool \cup returned]
      BY DEF ResolveFork
    <3>2. Sound(db)
      BY DEF IInv
    <3> QED BY <3>1, <3>2 DEF Beside, Sound, DbShape
  <2>2. Intact(db)
    BY DEF SInv
  <2> QED BY <2>1, <2>2, IntactBeside DEF Beside
<1>1. /\ Intact(db) /\ ProverInv /\ SavedInv
      /\ halted \in {"no", "DuplicateStateVersion", "MissingStateVersion", "InconsistentAvlNodeRows"}
      /\ (Deep => halted = "no")
  BY DEF SInv
<1>2. Sound(db) /\ db.chain \in Seq(Menu) /\ Tip = Len(db.chain) /\ Tip \in Nat
  BY DEF IInv, Sound, Tip
<1>3. /\ Stored(db)
      /\ DOMAIN db.versions \subseteq 0 .. Tip
      /\ \A i \in DOMAIN db.versions : i .. Tip \subseteq DOMAIN db.versions
      /\ \A i \in DOMAIN db.versions : db.versions[i] = TreeAt(db.chain, i)
  BY <1>1, <1>2 DEF Intact, Stored
<1>4. Ringed(ring, db.chain, Len(db.chain))
  BY <1>0, <1>1 DEF ProverInv, RingDb
<1>5. CASE known = {}
  <2>1. ~ Deep
    BY <1>0, <1>1, <1>2, <1>5 DEF SavedInv
  <2>2. halted' = "MissingStateVersion" /\ UNCHANGED <<db, root, base, ring, pc>>
    BY <1>5 DEF ResolveFork, proverVars
  <2>3. ProverInv'
    BY <1>0, <1>1, <2>2 DEF ProverInv, RingDb, Tip
  <2>4. SavedInv'
    BY <1>0, <1>1, <2>1, <2>2 DEF SavedInv, InSwitch
  <2> QED BY <1>0, <1>1, <1>x, <2>1, <2>2, <2>3, <2>4 DEF SInv
<1>6. CASE known # {}
  <2>1. Tip \in DOMAIN db.versions
    <3>1. PICK i \in DOMAIN db.versions : i <= target
      BY <1>6
    <3>2. Tip \in i .. Tip
      BY <1>0, <1>2, <1>3, <3>1
    <3> QED BY <1>3, <3>1, <3>2
  <2>2. Max(known) = Tip
    <3>1. known \in SUBSET Int /\ Tip \in known /\ \A y \in known : y <= Tip
      BY <1>0, <1>2, <1>3, <2>1
    <3> HIDE DEF known
    <3> QED BY <3>1, MaxIs
  <2>3. Resolves(db, Tip)
    BY <1>2, <1>3, <2>1, ResolvesStored
  <2>4. /\ root' = db.versions[Tip] /\ base' = db.versions[Tip]
        /\ ring' \in {ring, NoRing} /\ pc' = "switching" /\ UNCHANGED halted
    <3> HIDE DEF known
    <3>1. ResolveFork(returned) =>
            \/ known = {}
            \/ ~ Resolves(db, Max(known))
            \/ /\ root' = db.versions[Max(known)] /\ base' = db.versions[Max(known)]
               /\ ring' \in {ring, NoRing} /\ pc' = "switching" /\ UNCHANGED halted
      BY DEF ResolveFork, known
    <3> QED BY <1>6, <2>2, <2>3, <3>1
  <2>5. Full(db) /\ db.versions[Tip] = TreeNow(db)
    BY <1>2, <1>3, <2>1 DEF Full, TreeNow
  <2>6. Ringed(ring', db.chain, Len(db.chain))
    BY <1>4, <2>4, RingNone
  <2>7. ProverInv'
    BY <1>0, <1>x, <2>4, <2>5, <2>6 DEF ProverInv, RingDb, Full, TreeNow
  <2>8. SavedInv'
    BY <1>0, <1>1, <2>4 DEF SavedInv, InSwitch
  <2> QED BY <1>0, <1>1, <1>x, <2>4, <2>7, <2>8 DEF SInv
<1> QED BY <1>5, <1>6

(* When a switch ends: nothing of the prover changes. *)
LEMMA EndSwitchStored ==
  ASSUME IInv, SInv, EndSwitch
  PROVE  SInv'
<1>0. /\ pc = "switching" /\ outer' = None /\ pc' = "idle"
      /\ UNCHANGED <<db, root, base, ring, cur, inner, halted>>
  BY DEF EndSwitch, proverVars
<1>1. /\ Intact(db) /\ ProverInv /\ SavedInv
      /\ halted \in {"no", "DuplicateStateVersion", "MissingStateVersion", "InconsistentAvlNodeRows"}
      /\ (Deep => halted = "no")
  BY DEF SInv
<1>2. ProverInv'
  BY <1>0, <1>1 DEF ProverInv, RingDb
<1>3. SavedInv'
  BY <1>0, <1>1 DEF SavedInv, InSwitch
<1> QED BY <1>0, <1>1, <1>2, <1>3 DEF SInv

(* When a switch is undone: tables, tree and kept roots go back together. *)
LEMMA AbortSwitchStored ==
  ASSUME IInv, SInv, AbortSwitch
  PROVE  SInv'
<1>0. /\ pc = "aborting" /\ outer' = None /\ pc' = "idle"
      /\ db' = outer.db /\ root' = outer.root /\ base' = outer.root /\ ring' = outer.ring
      /\ UNCHANGED <<cur, inner, halted>>
  BY DEF AbortSwitch, restoreSwitch
<1>1. /\ SavedInv
      /\ halted \in {"no", "DuplicateStateVersion", "MissingStateVersion", "InconsistentAvlNodeRows"}
      /\ (Deep => halted = "no")
  BY DEF SInv
<1>2. InSwitch
  BY <1>0 DEF IInv, PcInv
<1>3. /\ Intact(outer.db) /\ Full(outer.db) /\ outer.root = TreeNow(outer.db)
      /\ Ringed(outer.ring, outer.db.chain, Len(outer.db.chain))
  BY <1>1, <1>2 DEF SavedInv, Settled
<1>4. ProverInv'
  BY <1>0, <1>3 DEF ProverInv, RingDb
<1>5. SavedInv'
  BY <1>0, <1>1 DEF SavedInv, InSwitch
<1> QED BY <1>0, <1>1, <1>3, <1>4, <1>5 DEF SInv

(* When something is written beside the ledger, between blocks. *)
LEMMA BesideStored ==
  ASSUME IInv, SInv, pc = "idle", UNCHANGED <<root, base, ring, pc, inner, outer, target, halted>>,
         Beside(db, db')
  PROVE  SInv'
<1>1. /\ Intact(db) /\ ProverInv /\ SavedInv
      /\ halted \in {"no", "DuplicateStateVersion", "MissingStateVersion", "InconsistentAvlNodeRows"}
      /\ (Deep => halted = "no")
  BY DEF SInv
<1>2. ~ InSwitch
  BY DEF IInv, PcInv
<1>3. db'.chain = db.chain /\ db'.versions = db.versions
  BY DEF Beside
<1>4. Intact(db')
  BY <1>1, IntactBeside
<1>5. ProverInv'
  BY <1>1, <1>3 DEF ProverInv, RingDb, Full, TreeNow
<1>6. SavedInv'
  BY <1>1, <1>2 DEF SavedInv, InSwitch
<1> QED BY <1>1, <1>4, <1>5, <1>6 DEF SInv

(* When the node is killed and starts again: the newest version resolves. *)
LEMMA CrashStored ==
  ASSUME IInv, SInv, Crash
  PROVE  SInv'
<1> DEFINE d == Committed
           newest == Max(DOMAIN d.versions)
<1>0. /\ db' = d /\ pc' = "idle" /\ inner' = None /\ outer' = None
  BY DEF Crash
<1>1. /\ Intact(db) /\ ProverInv /\ SavedInv
      /\ halted \in {"no", "DuplicateStateVersion", "MissingStateVersion", "InconsistentAvlNodeRows"}
      /\ (Deep => halted = "no")
  BY DEF SInv
<1>2. Intact(d) /\ Full(d) /\ Sound(d)
  <2>1. Sound(db) /\ PcInv /\ InnerInv /\ OuterInv
    BY DEF IInv
  <2>2. CASE InSwitch
    BY <1>1, <2>1, <2>2 DEF Committed, SavedInv, Settled, OuterInv
  <2>3. CASE ~ InSwitch /\ pc \in {"written", "checked"}
    BY <1>1, <2>1, <2>3 DEF Committed, SavedInv, InnerInv
  <2>4. CASE ~ InSwitch /\ pc \notin {"written", "checked"}
    BY <1>1, <2>1, <2>4 DEF Committed, ProverInv, PcInv
  <2> QED BY <2>2, <2>3, <2>4
<1> HIDE DEF d
<1> DEFINE n == Len(d.chain)
<1>3. n \in Nat /\ Stored(d) /\ n \in DOMAIN d.versions /\ DOMAIN d.versions \subseteq 0 .. n
      /\ d.versions[n] = TreeNow(d)
  BY <1>2 DEF Sound, Intact, Stored, Full, TreeNow
<1>4. newest = n
  <2>1. DOMAIN d.versions \in SUBSET Int /\ \A y \in DOMAIN d.versions : y <= n
    BY <1>3
  <2> HIDE DEF n
  <2> QED BY <1>3, <2>1, MaxIs
<1>5. Resolves(d, n)
  BY <1>3, ResolvesStored
<1>6. /\ root' = TreeNow(d) /\ base' = TreeNow(d) /\ UNCHANGED halted
      /\ ring' = Kept(NoRing, n, TreeNow(d), 0)
  <2>1. Resolves(d, newest)
    BY <1>4, <1>5
  <2>2. /\ root' = d.versions[newest] /\ base' = d.versions[newest] /\ UNCHANGED halted
        /\ ring' = Kept(NoRing, newest, d.versions[newest], 0)
    BY <2>1 DEF Crash, d
  <2> HIDE DEF n, newest
  <2> QED BY <1>3, <1>4, <2>2
<1>7. Ringed(ring', d.chain, n)
  <2>1. DOMAIN NoRing = {} /\ Cardinality(DOMAIN NoRing) <= ProofWindow
    BY RingNone DEF Ringed
  <2>2. Ringed(Kept(NoRing, n, TreeAt(d.chain, n), 0), d.chain, n)
    <3> HIDE DEF n
    <3> QED BY <1>3, <2>1, RingKept
  <2> QED BY <1>6, <2>2 DEF TreeNow
<1>8. ProverInv'
  BY <1>0, <1>2, <1>6, <1>7 DEF ProverInv, RingDb
<1>9. SavedInv'
  BY <1>0 DEF SavedInv, InSwitch
<1> QED BY <1>0, <1>1, <1>2, <1>6, <1>8, <1>9 DEF SInv

(* Every step keeps both invariants. *)
THEOREM StepStored ==
  IInv /\ SInv /\ [Next]_vars => (IInv /\ SInv)'
<1> SUFFICES ASSUME IInv, SInv, [Next]_vars PROVE (IInv /\ SInv)'
  OBVIOUS
<1>0. IInv'
  BY StepImplements
<1>1. ASSUME NEW e \in Menu, ApplyBlock(e) PROVE SInv'
  BY <1>1, BeginStored DEF ApplyBlock
<1>2. ASSUME NEW e \in Menu, NextBlock(e) PROVE SInv'
  BY <1>2, BeginStored DEF NextBlock
<1>3. ASSUME NEW e \in Menu, Speculate(e) PROVE SInv'
  BY <1>3, CycleStored DEF Speculate
<1>4. ASSUME NEW some \in SUBSET Txs, Checkpoint(some) PROVE SInv'
  BY <1>0, <1>4, CheckpointStored
<1>5. ASSUME Finish PROVE SInv'
  BY <1>5, FinishStored
<1>6. ASSUME RefuseBlock PROVE SInv'
  BY <1>6, RefuseBlockStored
<1>7. ASSUME NEW f \in 0 .. MaxHeight, StartSwitch(f) PROVE SInv'
  BY <1>0, <1>7, StartSwitchStored
<1>8. ASSUME NEW f \in 0 .. MaxHeight, ProveAt(f) PROVE SInv'
  BY <1>8, CycleStored DEF ProveAt
<1>9. ASSUME Revert PROVE SInv'
  BY <1>9, RevertStored
<1>10. ASSUME NEW some \in SUBSET Txs, ResolveFork(some) PROVE SInv'
  BY <1>10, ResolveForkStored
<1>11. ASSUME EndSwitch PROVE SInv'
  BY <1>11, EndSwitchStored
<1>12. ASSUME AbortSwitch PROVE SInv'
  BY <1>12, AbortSwitchStored
<1>13. ASSUME EndCycle PROVE SInv'
  BY <1>13, EndCycleStored
<1>14. ASSUME Crash PROVE SInv'
  BY <1>14, CrashStored
<1>x. Sound(db)
  BY DEF IInv
<1>15. ASSUME NEW p \in Posts, BodyArrives(p) PROVE SInv'
  <2>1. Beside(db, db')
    BY <1>x, <1>15, BodyBeside
  <2> QED BY <1>15, <2>1, BesideStored DEF BodyArrives, proverVars
<1>18. ASSUME NEW t \in Txs, NEW body \in BOOLEAN, Submit(t, body) PROVE SInv'
  <2>1. Beside(db, db')
    BY <1>x, <1>18, SubmitBeside
  <2> QED BY <1>18, <2>1, BesideStored DEF Submit, proverVars
<1>19. ASSUME NEW some \in SUBSET Txs, Evict(some) PROVE SInv'
  <2>1. Beside(db, db')
    BY <1>x, <1>19, EvictBeside
  <2> QED BY <1>19, <2>1, BesideStored DEF Evict, proverVars
<1>16. ASSUME UNCHANGED vars PROVE SInv'
  BY <1>16, StutterStored
<1>17. SInv'
  BY <1>1, <1>2, <1>3, <1>4, <1>5, <1>6, <1>7, <1>8, <1>9, <1>10, <1>11, <1>12, <1>13,
     <1>14, <1>15, <1>16, <1>18, <1>19 DEF Next
<1> QED BY <1>0, <1>17

-----------------------------------------------------------------------------
(* What a block and its undoing do to the posts. *)

(* What writeBlockEffects does to the posts, and the bodies it keeps in the journal. *)
LEMMA EffectsBodies ==
  ASSUME NEW store \in Stores, NEW e \in Menu, NEW h \in Nat
  PROVE  LET r == writeBlockEffects(store, e, h)
         IN /\ r.journal.muts \in Seq(Entries)
            /\ DOMAIN r.journal.bodies = e.gone /\ e.gone \subseteq Posts
            /\ \A p \in e.gone : r.journal.bodies[p] = store.post[p].body
            /\ \A p \in Posts : r.store.post[p].gone = IF p \in e.gone THEN h ELSE store.post[p].gone
            /\ \A p \in Posts \ e.gone : r.store.post[p].body = store.post[p].body
            /\ \A p \in Posts : r.store.post[p].row => p \in e.posts \/ store.post[p].row
            /\ \A p \in Posts : store.post[p].row => r.store.post[p].row
<1> DEFINE c == Confirmed(store, e, h)
           cpost == [p \in Posts |->
                      IF p \in e.posts THEN [store.post[p] EXCEPT !.row = TRUE, !.at = h] ELSE store.post[p]]
           w == Writes(c, e.muts)[Len(e.muts)]
           post == [p \in Posts |->
                      IF p \in e.gone THEN [w.store.post[p] EXCEPT !.body = FALSE, !.gone = h]
                                      ELSE w.store.post[p]]
           r == writeBlockEffects(store, e, h)
<1>0. \A p \in Posts : store.post[p] \in Rows
  BY DEF Stores
<1>1. c \in Stores /\ c.post = cpost
  <2>1. c \in Stores
    BY ConfirmedType
  <2>2. c = [store EXCEPT !.post = cpost]
    BY DEF Confirmed
  <2> HIDE DEF cpost
  <2> QED BY <2>1, <2>2 DEF Stores
<1>2. \A p \in Posts : /\ cpost[p] \in Rows /\ cpost[p].body = store.post[p].body
                       /\ cpost[p].row <=> p \in e.posts \/ store.post[p].row
  BY <1>0 DEF Rows
<1>3. e.muts \in Seq(RowMutations) /\ Len(e.muts) \in 0 .. Len(e.muts) /\ e.gone \subseteq Posts
  BY MenuTypes
<1>4. w \in Written /\ w.store \in Stores /\ w.store.post = cpost /\ w.muts \in Seq(Entries)
  <2>1. w \in Written /\ w.store.post = c.post
    <3> HIDE DEF c
    <3> QED BY <1>1, <1>3, WritesIs
  <2> HIDE DEF w, c, cpost
  <2> QED BY <1>1, <2>1 DEF Written
<1>5. r = [store |-> [w.store EXCEPT !.post = post],
           journal |-> [muts |-> w.muts, posts |-> e.posts, bodies |-> [p \in e.gone |-> w.store.post[p].body]]]
  BY DEF writeBlockEffects, Confirmed
<1> HIDE DEF w, c, r, cpost
<1>6. \A p \in Posts : /\ post[p].body = IF p \in e.gone THEN FALSE ELSE w.store.post[p].body
                       /\ post[p].row = w.store.post[p].row
  BY <1>2, <1>4 DEF Rows
<1> HIDE DEF post
<1>7. r.store.post = post
  BY <1>4, <1>5 DEF Stores
<1>8. /\ r.journal.muts = w.muts
      /\ DOMAIN r.journal.bodies = e.gone
      /\ \A p \in e.gone : r.journal.bodies[p] = w.store.post[p].body
  BY <1>5
<1>9. \A p \in Posts : r.store.post[p].gone = IF p \in e.gone THEN h ELSE store.post[p].gone
  BY EffectsAre DEF r
<1>10. \A p \in e.gone : r.journal.bodies[p] = store.post[p].body
  BY <1>2, <1>3, <1>4, <1>8
<1>11. \A p \in Posts \ e.gone : r.store.post[p].body = store.post[p].body
  BY <1>2, <1>4, <1>6, <1>7
<1>12. \A p \in Posts : /\ r.store.post[p].row => p \in e.posts \/ store.post[p].row
                        /\ store.post[p].row => r.store.post[p].row
  BY <1>0, <1>2, <1>4, <1>6, <1>7
<1> QED BY <1>3, <1>4, <1>8, <1>9, <1>10, <1>11, <1>12 DEF r

(* What revertBlock does to the posts. *)
LEMMA UndoneBodies ==
  ASSUME NEW store \in Stores, NEW j, j.muts \in Seq(Entries)
  PROVE  LET r == Undone(store, j)
         IN \A p \in Posts :
              /\ r.post[p].gone = IF p \in DOMAIN j.bodies THEN 0 ELSE store.post[p].gone
              /\ r.post[p].body = IF p \in DOMAIN j.bodies THEN j.bodies[p] ELSE store.post[p].body
              /\ r.post[p].row = store.post[p].row
<1> DEFINE rows == UndoneRows(store, j.muts)
           posts == UndonePosts(store.post, j)
<1>1. rows \in Stores /\ rows.post = store.post
  <2>1. PICK u : Walk(u, store, j.muts) /\ rows = u[Len(j.muts)]
    BY UndoneRowsIs
  <2>2. Len(j.muts) \in 0 .. Len(j.muts)
    OBVIOUS
  <2> HIDE DEF rows
  <2> QED BY <2>1, <2>2 DEF Walk
<1>2. Undone(store, j) = [rows EXCEPT !.post = posts]
  BY <1>1 DEF Undone
<1>3. \A p \in Posts : store.post[p] \in Rows
  BY DEF Stores
<1>4. ASSUME NEW p \in Posts
      PROVE  /\ posts[p].gone = IF p \in DOMAIN j.bodies THEN 0 ELSE store.post[p].gone
             /\ posts[p].body = IF p \in DOMAIN j.bodies THEN j.bodies[p] ELSE store.post[p].body
             /\ posts[p].row = store.post[p].row
  <2> DEFINE un == IF p \in j.posts THEN [store.post[p] EXCEPT !.at = 0] ELSE store.post[p]
             last == IF p \in DOMAIN j.bodies THEN [un EXCEPT !.gone = 0, !.body = j.bodies[p]] ELSE un
  <2>1. posts[p] = last
    BY DEF UndonePosts
  <2>2. un \in Rows /\ un.body = store.post[p].body /\ un.gone = store.post[p].gone /\ un.row = store.post[p].row
    BY <1>3 DEF Rows
  <2> HIDE DEF un
  <2>3. /\ last.gone = IF p \in DOMAIN j.bodies THEN 0 ELSE un.gone
        /\ last.body = IF p \in DOMAIN j.bodies THEN j.bodies[p] ELSE un.body
        /\ last.row = un.row
    BY <2>2 DEF Rows
  <2> HIDE DEF last, posts
  <2> QED BY <2>1, <2>2, <2>3
<1> HIDE DEF rows, posts
<1>5. Undone(store, j).post = posts
  BY <1>1, <1>2 DEF Stores
<1> QED BY <1>4, <1>5

(* A post is confirmed by a block of the chain, and withdrawn by the height of one. *)
LEMMA ReplayPosts ==
  ASSUME NEW c \in Seq(Menu), NEW n \in 0 .. Len(c), NEW p \in Posts
  PROVE  LET l == Abstract!Replay(c, n)
         IN l.gone[p] \in 0 .. n /\ (l.at[p] # 0 => \E i \in 1 .. n : p \in c[i].posts)
<1>1. PICK g : IsReplay(g, c, n) /\ Abstract!Replay(c, n) = g[n]
  BY ReplayIs
<1> DEFINE T == {i \in 0 .. n : /\ g[i].gone[p] \in 0 .. i
                                /\ g[i].at[p] # 0 => \E k \in 1 .. i : p \in c[k].posts}
<1>2. n \in Nat /\ 0 \in T
  BY <1>1 DEF IsReplay, Abstract!Genesis
<1>3. \A i \in 1 .. n : i - 1 \in T => i \in T
  <2> TAKE i \in 1 .. n
  <2> HAVE i - 1 \in T
  <2>1. i \in Nat /\ i \in 0 .. n /\ i - 1 \in 0 .. n /\ c[i] \in Menu /\ g[i - 1] \in Ledgers
        /\ g[i] = Abstract!Effected(g[i - 1], c[i], i)
    BY <1>1, <1>2 DEF IsReplay
  <2>2. /\ g[i].at[p] = IF p \in c[i].posts THEN i ELSE g[i - 1].at[p]
        /\ g[i].gone[p] = IF p \in c[i].gone THEN i ELSE g[i - 1].gone[p]
    <3> DEFINE l == g[i - 1]
               e == c[i]
               r == Abstract!Effected(l, e, i)
    <3>1. l \in Ledgers /\ e \in Menu /\ i \in Nat /\ g[i] = r
      BY <2>1
    <3> HIDE DEF T, l, e
    <3>2. /\ r.at[p] = IF p \in e.posts THEN i ELSE l.at[p]
          /\ r.gone[p] = IF p \in e.gone THEN i ELSE l.gone[p]
      BY <3>1, EffectedIs
    <3> HIDE DEF r
    <3> QED BY <3>1, <3>2 DEF l, e
  <2>3. g[i - 1].gone[p] \in 0 .. i - 1 /\ (g[i - 1].at[p] # 0 => \E k \in 1 .. i - 1 : p \in c[k].posts)
    OBVIOUS
  <2>4. g[i].gone[p] \in 0 .. i
    BY <2>1, <2>2, <2>3
  <2>5. g[i].at[p] # 0 => \E k \in 1 .. i : p \in c[k].posts
    BY <2>1, <2>2, <2>3
  <2> QED BY <2>1, <2>4, <2>5
<1>4. 0 .. n \subseteq T
  <2> HIDE DEF T
  <2> QED BY <1>2, <1>3, Upto
<1>5. n \in T
  BY <1>2, <1>4
<1> QED BY <1>1, <1>5

-----------------------------------------------------------------------------
(* The bodies. *)

\* A journal row holds the bodies of the posts its block withdrew.
Bodied(d) ==
  \A h \in DOMAIN d.journal :
    /\ d.journal[h].muts \in Seq(Entries)
    /\ \A p \in DOMAIN d.journal[h].bodies : p \in Posts /\ d.store.post[p].gone = h

\* Every body of d is in f too, where the post's row is still there.
Keeps(d, f) ==
  \A p \in Posts : d.store.post[p].row /\ HasBody(d, p) /\ f.store.post[p].row => HasBody(f, p)

(* The withdrawals of a sound database are at heights of its chain, and what it has
   confirmed a block of the chain confirms. *)
LEMMA SoundPosts ==
  ASSUME NEW d, Sound(d), NEW p \in Posts
  PROVE  /\ Len(d.chain) \in Nat /\ d.store.post[p].gone \in 0 .. Len(d.chain)
         /\ d.store.post[p].at # 0 => \E i \in 1 .. Len(d.chain) : p \in d.chain[i].posts
<1>1. d.chain \in Seq(Menu) /\ LedgerOf(d.store) = Abstract!Replay(d.chain, Len(d.chain))
  BY DEF Sound
<1>2. Len(d.chain) \in Nat /\ Len(d.chain) \in 0 .. Len(d.chain)
  BY <1>1
<1>3. LET l == LedgerOf(d.store)
      IN /\ l.gone[p] \in 0 .. Len(d.chain)
         /\ l.at[p] # 0 => \E i \in 1 .. Len(d.chain) : p \in d.chain[i].posts
  BY <1>1, <1>2, ReplayPosts
<1>4. LedgerOf(d.store).gone[p] = d.store.post[p].gone /\ LedgerOf(d.store).at[p] = d.store.post[p].at
  BY DEF LedgerOf
<1> QED BY <1>2, <1>3, <1>4

(* The journal a block leaves. *)
LEMMA JournalledIs ==
  ASSUME NEW d, NEW e, NEW low
  PROVE  LET J == Journalled(d, e, low)
             h == Len(d.chain) + 1
         IN /\ DOMAIN J \subseteq DOMAIN d.journal \cup {h}
            /\ \A i \in DOMAIN J :
                 J[i] = IF i = h THEN writeBlockEffects(d.store, e, h).journal ELSE d.journal[i]
<1> DEFINE h == Len(d.chain) + 1
           j == [i \in DOMAIN d.journal \cup {h} |->
                   IF i = h THEN writeBlockEffects(d.store, e, h).journal ELSE d.journal[i]]
<1>1. Journalled(d, e, low) = Restrict(j, {i \in DOMAIN j : i >= low})
  BY DEF Journalled
<1>2. /\ DOMAIN j = DOMAIN d.journal \cup {h}
      /\ \A i \in DOMAIN j : j[i] = IF i = h THEN writeBlockEffects(d.store, e, h).journal ELSE d.journal[i]
  OBVIOUS
<1> HIDE DEF j
<1> QED BY <1>1, <1>2 DEF Restrict

\* One of these transactions makes the post.
PostOf(left, p) == \E t \in left : p \in Tx[t].posts

(* A checkpointed block keeps every body whose row the pool does not drop: a withdrawn one
   goes to the journal.  A row appears with its confirmation and goes with a pool entry. *)
LEMMA BodiesWritten ==
  ASSUME NEW d, Sound(d), Bodied(d), NEW e \in Menu, Valid(d.store, e),
         NEW h, h = Len(d.chain) + 1, NEW f, NEW expired, IsCheckpointed(f, d, e, h, expired)
  PROVE  /\ Bodied(f) /\ Keeps(d, f)
         /\ \A p \in Posts :
              /\ f.store.post[p].row => d.store.post[p].row \/ p \in e.posts
              /\ d.store.post[p].row /\ ~ f.store.post[p].row => PostOf(LeftBy(d.pool, e, expired), p)
<1> DEFINE w == writeBlockEffects(d.store, e, h)
           left == LeftBy(d.pool, e, expired)
<1>1. d.store \in Stores /\ Len(d.chain) \in Nat /\ h \in Nat /\ DOMAIN d.journal \subseteq 1 .. Len(d.chain)
  BY DEF Sound
<1>2. /\ w.journal.muts \in Seq(Entries)
      /\ DOMAIN w.journal.bodies = e.gone /\ e.gone \subseteq Posts
      /\ \A p \in e.gone : w.journal.bodies[p] = d.store.post[p].body
      /\ \A p \in Posts : w.store.post[p].gone = IF p \in e.gone THEN h ELSE d.store.post[p].gone
      /\ \A p \in Posts \ e.gone : w.store.post[p].body = d.store.post[p].body
  <2> DEFINE s == d.store
  <2>1. s \in Stores /\ h \in Nat
    BY <1>1
  <2> HIDE DEF left, s
  <2>2. LET r == writeBlockEffects(s, e, h)
        IN /\ r.journal.muts \in Seq(Entries)
           /\ DOMAIN r.journal.bodies = e.gone /\ e.gone \subseteq Posts
           /\ \A p \in e.gone : r.journal.bodies[p] = s.post[p].body
           /\ \A p \in Posts : r.store.post[p].gone = IF p \in e.gone THEN h ELSE s.post[p].gone
           /\ \A p \in Posts \ e.gone : r.store.post[p].body = s.post[p].body
    BY <2>1, EffectsBodies
  <2> QED BY <2>2 DEF s
<1>2a. \A p \in Posts : w.store.post[p].row => p \in e.posts \/ d.store.post[p].row
  <2> HIDE DEF left
  <2> QED BY <1>1, EffectsBodies
<1>2b. \A p \in Posts : d.store.post[p].row => w.store.post[p].row
  <2> HIDE DEF left
  <2> QED BY <1>1, EffectsBodies
<1>3. w.store \in Stores
  BY <1>1, EffectsAre
<1>4. /\ DOMAIN f.journal \subseteq DOMAIN d.journal \cup {h}
      /\ \A i \in DOMAIN f.journal : f.journal[i] = IF i = h THEN w.journal ELSE d.journal[i]
  <2>1. f.journal = Journalled(d, e, h - MaxReorgDepth)
    BY DEF IsCheckpointed
  <2> QED BY <2>1, JournalledIs
<1>5. \A p \in e.gone : d.store.post[p].gone = 0
  BY DEF Valid
<1>6. f.store.post = PostsWithout(w.store, left)
  BY DEF IsCheckpointed
<1> HIDE DEF w, left
<1>7. ASSUME NEW p \in Posts
      PROVE  /\ f.store.post[p].gone = w.store.post[p].gone
             /\ \/ f.store.post[p] = w.store.post[p]
                \/ ~ f.store.post[p].row /\ \E t \in left : p \in Tx[t].posts
  <2>1. w.store.post[p] \in Rows
    BY <1>3 DEF Stores
  <2> QED BY <1>6, <2>1 DEF PostsWithout, Rows
<1>8. \A p \in Posts : d.store.post[p].gone \in 0 .. Len(d.chain)
  BY SoundPosts
<1>9. Bodied(f)
  <2> SUFFICES ASSUME NEW i \in DOMAIN f.journal
               PROVE  /\ f.journal[i].muts \in Seq(Entries)
                      /\ \A p \in DOMAIN f.journal[i].bodies : p \in Posts /\ f.store.post[p].gone = i
    BY DEF Bodied
  <2>1. CASE i = h
    BY <1>2, <1>4, <1>7, <2>1
  <2>2. CASE i # h
    <3>1. /\ i \in DOMAIN d.journal /\ i # 0 /\ f.journal[i] = d.journal[i]
          /\ d.journal[i].muts \in Seq(Entries)
          /\ \A p \in DOMAIN d.journal[i].bodies : p \in Posts /\ d.store.post[p].gone = i
      BY <1>1, <1>4, <2>2 DEF Bodied
    <3>2. \A p \in DOMAIN d.journal[i].bodies : p \in Posts \ e.gone
      BY <1>5, <3>1
    <3> QED BY <1>2, <1>7, <3>1, <3>2
  <2> QED BY <2>1, <2>2
<1>10. ASSUME NEW p \in Posts, d.store.post[p].row, HasBody(d, p), f.store.post[p].row
       PROVE  HasBody(f, p)
  <2>1. f.store.post[p] = w.store.post[p]
    BY <1>7, <1>10
  <2>2. CASE p \in e.gone
    <3>1. d.store.post[p].body /\ w.store.post[p].gone = h /\ h # 0
      BY <1>1, <1>2, <1>5, <1>10, <2>2 DEF HasBody
    <3>2. h \in DOMAIN f.journal => f.journal[h].bodies[p]
      BY <1>2, <1>4, <2>2, <3>1
    <3> QED BY <2>1, <3>1, <3>2 DEF HasBody
  <2>3. CASE p \notin e.gone
    <3> DEFINE g == d.store.post[p].gone
    <3>1. f.store.post[p].gone = g /\ f.store.post[p].body = d.store.post[p].body /\ g # h
      BY <1>1, <1>2, <1>8, <2>1, <2>3
    <3> HIDE DEF g
    <3>2. CASE g = 0
      BY <1>10, <3>1, <3>2 DEF HasBody, g
    <3>3. CASE g # 0
      <4>1. g \in DOMAIN d.journal => d.journal[g].bodies[p]
        BY <1>10, <3>3 DEF HasBody, g
      <4>2. g \in DOMAIN f.journal => f.journal[g].bodies[p]
        BY <1>4, <3>1, <4>1
      <4> QED BY <3>1, <3>3, <4>2 DEF HasBody
    <3> QED BY <3>2, <3>3
  <2> QED BY <2>2, <2>3
<1>11. ASSUME NEW p \in Posts
       PROVE  /\ f.store.post[p].row => d.store.post[p].row \/ p \in e.posts
              /\ d.store.post[p].row /\ ~ f.store.post[p].row => PostOf(left, p)
  BY <1>7, <1>2a, <1>2b DEF PostOf
<1> QED BY <1>9, <1>10, <1>11 DEF Keeps, left

(* A revert keeps every row and gives back the bodies its block's withdrawals took. *)
LEMMA BodiesReverted ==
  ASSUME NEW d, Sound(d), Bodied(d), NEW h, h = Len(d.chain), h \in DOMAIN d.journal,
         NEW f, IsReverted(f, d, h)
  PROVE  /\ Bodied(f)
         /\ \A p \in Posts : /\ f.store.post[p].row = d.store.post[p].row
                             /\ HasBody(d, p) => HasBody(f, p)
<1> DEFINE j == d.journal[h]
<1>1. d.store \in Stores /\ h \in Nat /\ h # 0
  BY DEF Sound
<1>2. j.muts \in Seq(Entries) /\ \A p \in DOMAIN j.bodies : p \in Posts /\ d.store.post[p].gone = h
  BY DEF Bodied
<1>3. f.store = Undone(d.store, j) /\ f.journal = Restrict(d.journal, DOMAIN d.journal \ {h})
  BY DEF IsReverted
<1> HIDE DEF j
<1>4. \A p \in Posts :
        /\ f.store.post[p].gone = IF p \in DOMAIN j.bodies THEN 0 ELSE d.store.post[p].gone
        /\ f.store.post[p].body = IF p \in DOMAIN j.bodies THEN j.bodies[p] ELSE d.store.post[p].body
        /\ f.store.post[p].row = d.store.post[p].row
  BY <1>1, <1>2, <1>3, UndoneBodies
<1>5. DOMAIN f.journal = DOMAIN d.journal \ {h} /\ \A i \in DOMAIN f.journal : f.journal[i] = d.journal[i]
  BY <1>3 DEF Restrict
<1>6. Bodied(f)
  <2> SUFFICES ASSUME NEW i \in DOMAIN f.journal
               PROVE  /\ f.journal[i].muts \in Seq(Entries)
                      /\ \A p \in DOMAIN f.journal[i].bodies : p \in Posts /\ f.store.post[p].gone = i
    BY DEF Bodied
  <2>1. /\ i # h /\ f.journal[i] = d.journal[i] /\ d.journal[i].muts \in Seq(Entries)
        /\ \A p \in DOMAIN d.journal[i].bodies : p \in Posts /\ d.store.post[p].gone = i
    BY <1>5 DEF Bodied
  <2>2. \A p \in DOMAIN d.journal[i].bodies : p \notin DOMAIN j.bodies
    BY <1>2, <2>1
  <2> QED BY <1>4, <2>1, <2>2
<1>7. ASSUME NEW p \in Posts, HasBody(d, p) PROVE HasBody(f, p)
  <2>1. CASE p \in DOMAIN j.bodies
    <3>1. d.store.post[p].gone = h /\ j.bodies[p]
      BY <1>1, <1>2, <1>7, <2>1 DEF HasBody, j
    <3> QED BY <1>4, <2>1, <3>1 DEF HasBody
  <2>2. CASE p \notin DOMAIN j.bodies
    <3>1. f.store.post[p].gone = d.store.post[p].gone /\ f.store.post[p].body = d.store.post[p].body
      BY <1>4, <2>2
    <3> QED BY <1>5, <1>7, <3>1 DEF HasBody
  <2> QED BY <2>1, <2>2
<1> QED BY <1>4, <1>6, <1>7

(* Between blocks no body goes while its row is there. *)
LEMMA BodiesBeside ==
  ASSUME NEW d, Sound(d), Bodied(d), NEW f, Beside(d, f),
         \A p \in Posts : d.store.post[p].row /\ f.store.post[p].row /\ d.store.post[p].body
                            => f.store.post[p].body
  PROVE  Bodied(f) /\ Keeps(d, f)
<1>1. f.journal = d.journal /\ LedgerOf(f.store) = LedgerOf(d.store)
  BY DEF Beside
<1>2. \A p \in Posts : f.store.post[p].gone = d.store.post[p].gone
  <2> TAKE p \in Posts
  <2>1. LedgerOf(f.store).gone[p] = f.store.post[p].gone /\ LedgerOf(d.store).gone[p] = d.store.post[p].gone
    BY DEF LedgerOf
  <2> QED BY <1>1, <2>1
<1>3. Bodied(f)
  BY <1>1, <1>2 DEF Bodied
<1>4. Keeps(d, f)
  BY <1>1, <1>2 DEF Keeps, HasBody
<1> QED BY <1>3, <1>4

-----------------------------------------------------------------------------
(* The pool. *)

\* What a chain's transactions need is on it, by their own block at the latest.
Rooted(c) ==
  \A i \in 1 .. Len(c) : \A t \in c[i].txs : \A u \in Needs(t) : \E k \in 1 .. i : u \in c[k].txs

\* The pool holds no rivals and nothing the chain has.
Pooled(d) ==
  /\ d.pool \subseteq Txs /\ ConflictFree(d.pool)
  /\ d.pool \cap TxsOf(d.chain) = {}
  /\ Rooted(d.chain)

\* A transaction no block on this chain can have: one of its inputs is spent, or it needs
\* one that no block can have.
Dead(c, t) ==
  \A D \in SUBSET Txs :
    (\A u \in Txs \ TxsOf(c) : Tx[u].ins \cap SpentOf(c) # {} \/ Needs(u) \cap D # {} => u \in D) => t \in D

(* The transactions of a chain, and what it spends. *)
LEMMA TxsAre ==
  ASSUME NEW c \in Seq(Menu)
  PROVE  /\ \A t : t \in TxsOf(c) <=> \E i \in 1 .. Len(c) : t \in c[i].txs
         /\ TxsOf(c) \subseteq Txs
         /\ \A t \in TxsOf(c) : Tx[t].ins \subseteq SpentOf(c) /\ Tx[t].ins # {}
<1>1. \A i \in 1 .. Len(c) : c[i] \in Menu
  OBVIOUS
<1>2. \A e \in Menu : e.txs \subseteq Txs /\ \A t \in e.txs : Tx[t].ins \subseteq Consumed(e)
  BY MenuAssumption
<1>3. \A t \in Txs : Tx[t].ins # {}
  BY TxAssumption
<1> QED BY <1>1, <1>2, <1>3 DEF TxsOf, SpentOf

(* One more block adds its own. *)
LEMMA TxsAppend ==
  ASSUME NEW c \in Seq(Menu), NEW e \in Menu
  PROVE  TxsOf(Append(c, e)) = TxsOf(c) \cup e.txs /\ SpentOf(Append(c, e)) = SpentOf(c) \cup Consumed(e)
<1> DEFINE f == Append(c, e)
           n == Len(c)
<1>1. n \in Nat /\ Len(f) = n + 1 /\ f[n + 1] = e /\ \A i \in 1 .. n : f[i] = c[i]
  OBVIOUS
<1> HIDE DEF f, n
<1>3. 1 .. n + 1 = 1 .. n \cup {n + 1}
  BY <1>1
<1>4. \A t : t \in TxsOf(f) <=> t \in TxsOf(c) \cup e.txs
  <2> TAKE t
  <2>1. t \in TxsOf(f) <=> \E i \in 1 .. n + 1 : t \in f[i].txs
    BY <1>1 DEF TxsOf
  <2>2. t \in TxsOf(c) <=> \E i \in 1 .. n : t \in c[i].txs
    BY DEF TxsOf, n
  <2>3. (\E i \in 1 .. n + 1 : t \in f[i].txs) <=> (\E i \in 1 .. n : t \in f[i].txs) \/ t \in f[n + 1].txs
    BY <1>3
  <2> QED BY <1>1, <2>1, <2>2, <2>3
<1>5. \A b : b \in SpentOf(f) <=> b \in SpentOf(c) \cup Consumed(e)
  <2> TAKE b
  <2>1. b \in SpentOf(f) <=> \E i \in 1 .. n + 1 : b \in Consumed(f[i])
    BY <1>1 DEF SpentOf
  <2>2. b \in SpentOf(c) <=> \E i \in 1 .. n : b \in Consumed(c[i])
    BY DEF SpentOf, n
  <2>3. (\E i \in 1 .. n + 1 : b \in Consumed(f[i])) <=>
          (\E i \in 1 .. n : b \in Consumed(f[i])) \/ b \in Consumed(f[n + 1])
    BY <1>3
  <2> QED BY <1>1, <2>1, <2>2, <2>3
<1>6. TxsOf(f) = TxsOf(c) \cup e.txs /\ SpentOf(f) = SpentOf(c) \cup Consumed(e)
  BY <1>4, <1>5
<1> QED BY <1>6 DEF f

(* A block that is funded has no dead transaction. *)
LEMMA DeadNever ==
  ASSUME NEW c \in Seq(Menu), NEW e \in Menu, Funded(c, e), NEW t, Dead(c, t)
  PROVE  t \notin e.txs
<1> DEFINE D == Txs \ (TxsOf(c) \cup e.txs)
<1>1. ASSUME NEW u \in Txs \ TxsOf(c), Tx[u].ins \cap SpentOf(c) # {} \/ Needs(u) \cap D # {}
      PROVE  u \in D
  <2>1. u \notin e.txs
    BY <1>1 DEF Funded
  <2> QED BY <2>1
<1>2. D \in SUBSET Txs
  OBVIOUS
<1>3. t \in D
  <2> HIDE DEF D
  <2> QED BY <1>1, <1>2 DEF Dead
<1> QED BY <1>3

(* The dead stay so while the chain grows. *)
LEMMA DeadStays ==
  ASSUME NEW c \in Seq(Menu), NEW e \in Menu, Funded(c, e), NEW t, Dead(c, t)
  PROVE  Dead(Append(c, e), t)
<1> DEFINE f == Append(c, e)
<1>1. TxsOf(f) = TxsOf(c) \cup e.txs /\ SpentOf(f) = SpentOf(c) \cup Consumed(e)
  BY TxsAppend
<1> HIDE DEF f
<1> SUFFICES ASSUME NEW D \in SUBSET Txs,
                    \A u \in Txs \ TxsOf(f) : Tx[u].ins \cap SpentOf(f) # {} \/ Needs(u) \cap D # {} => u \in D
             PROVE  t \in D
  BY DEF Dead, f
<1> DEFINE B == D \ TxsOf(f)
<1>2. ASSUME NEW u \in Txs \ TxsOf(c), Tx[u].ins \cap SpentOf(c) # {} \/ Needs(u) \cap B # {}
      PROVE  u \in B
  <2>1. u \notin e.txs
    BY <1>1, <1>2 DEF Funded
  <2>2. u \in Txs \ TxsOf(f) /\ (Tx[u].ins \cap SpentOf(f) # {} \/ Needs(u) \cap D # {})
    BY <1>1, <1>2, <2>1
  <2> QED BY <2>2
<1>3. B \in SUBSET Txs
  OBVIOUS
<1>4. t \in B
  <2> HIDE DEF B
  <2> QED BY <1>2, <1>3 DEF Dead
<1> QED BY <1>4

(* What leaves the pool after a block, and was not among what may expire, is dead: the
   returned transactions lean on one another and on what the chain spends only. *)
LEMMA LeavingDead ==
  ASSUME NEW c \in Seq(Menu), NEW e \in Menu, NEW pool \in SUBSET Txs, pool \cap TxsOf(c) = {},
         NEW o \in Seq(Menu), Rooted(o), NEW expired, expired \cap TxsOf(o) = {},
         NEW t \in TxsOf(o), t \in LeftBy(pool, e, expired)
  PROVE  Dead(Append(c, e), t)
<1> DEFINE f == Append(c, e)
           rest == pool \ e.txs
           seeds == expired \cup {u \in Txs : Tx[u].ins \cap Consumed(e) # {}}
<1>1. TxsOf(f) = TxsOf(c) \cup e.txs /\ SpentOf(f) = SpentOf(c) \cup Consumed(e)
  BY TxsAppend
<1>2. t \in Closure(rest, seeds)
  BY DEF LeftBy
<1>3. \A u \in TxsOf(o) : Needs(u) \subseteq TxsOf(o)
  <2> SUFFICES ASSUME NEW u \in TxsOf(o), NEW v \in Needs(u) PROVE v \in TxsOf(o)
    OBVIOUS
  <2>1. PICK i \in 1 .. Len(o) : u \in o[i].txs
    BY TxsAre
  <2>2. PICK k \in 1 .. i : v \in o[k].txs
    BY <2>1 DEF Rooted
  <2>3. k \in 1 .. Len(o)
    OBVIOUS
  <2> QED BY <2>2, <2>3, TxsAre
<1> HIDE DEF f
<1> SUFFICES ASSUME NEW D \in SUBSET Txs,
                    \A u \in Txs \ TxsOf(f) : Tx[u].ins \cap SpentOf(f) # {} \/ Needs(u) \cap D # {} => u \in D
             PROVE  t \in D
  BY DEF Dead, f
<1> DEFINE E == {u \in rest : u \in D \/ u \notin TxsOf(o)}
<1>4. ASSUME NEW u \in rest, u \in seeds \/ Needs(u) \cap E # {}
      PROVE  u \in E
  <2>1. u \in Txs \ TxsOf(f)
    BY <1>1
  <2>2. CASE u \in expired
    BY <2>2
  <2>3. CASE u \in seeds \ expired
    BY <1>1, <2>1, <2>3
  <2>4. CASE Needs(u) \cap E # {}
    <3>1. PICK v \in Needs(u) : v \in E
      BY <2>4
    <3>2. v \in D \/ v \notin TxsOf(o)
      BY <3>1
    <3>3. CASE v \in D
      BY <2>1, <3>3
    <3>4. CASE v \notin TxsOf(o)
      BY <1>3, <3>4
    <3> QED BY <3>2, <3>3, <3>4
  <2> QED BY <1>4, <2>2, <2>3, <2>4
<1>5. E \in SUBSET rest
  OBVIOUS
<1>6. t \in E
  <2> HIDE DEF E, rest, seeds
  <2> QED BY <1>2, <1>4, <1>5 DEF Closure
<1> QED BY <1>6

(* A funded block leaves the chain rooted. *)
LEMMA RootedAppend ==
  ASSUME NEW c \in Seq(Menu), Rooted(c), NEW e \in Menu, Funded(c, e)
  PROVE  Rooted(Append(c, e))
<1> DEFINE f == Append(c, e)
           n == Len(c)
<1>1. n \in Nat /\ Len(f) = n + 1 /\ f[n + 1] = e /\ \A i \in 1 .. n : f[i] = c[i]
  OBVIOUS
<1> HIDE DEF f, n
<1>2. ASSUME NEW i \in 1 .. n + 1, NEW t \in f[i].txs, NEW u \in Needs(t)
      PROVE  \E k \in 1 .. i : u \in f[k].txs
  <2>1. CASE i \in 1 .. n
    <3>1. PICK k \in 1 .. i : u \in c[k].txs
      BY <1>1, <2>1 DEF Rooted, n
    <3>2. k \in 1 .. n
      BY <1>1, <2>1
    <3> QED BY <1>1, <3>1, <3>2
  <2>2. CASE i = n + 1
    <3>1. u \in TxsOf(c) \cup e.txs
      BY <1>1, <2>2 DEF Funded
    <3>2. CASE u \in e.txs
      <4>1. i \in 1 .. i /\ u \in f[i].txs
        BY <1>1, <2>2, <3>2
      <4> QED BY <4>1
    <3>3. CASE u \in TxsOf(c)
      <4>1. PICK k \in 1 .. n : u \in c[k].txs
        BY <3>3, TxsAre DEF n
      <4>2. k \in 1 .. i /\ u \in f[k].txs
        BY <1>1, <2>2, <4>1
      <4> QED BY <4>2
    <3> QED BY <3>1, <3>2, <3>3
  <2> QED BY <1>1, <2>1, <2>2
<1> QED BY <1>1, <1>2 DEF Rooted, f

(* A prefix is rooted as well. *)
LEMMA RootedPrefix ==
  ASSUME NEW c \in Seq(Menu), Rooted(c), NEW f \in Seq(Menu), Len(f) <= Len(c),
         \A i \in 1 .. Len(f) : f[i] = c[i]
  PROVE  Rooted(f) /\ TxsOf(f) \subseteq TxsOf(c)
<1>1. \A i \in 1 .. Len(f) : i \in 1 .. Len(c) /\ \A k \in 1 .. i : k \in 1 .. Len(f)
  OBVIOUS
<1>2. Rooted(f)
  BY <1>1 DEF Rooted
<1>3. TxsOf(f) \subseteq TxsOf(c)
  BY <1>1, TxsAre
<1> QED BY <1>2, <1>3

(* What of the pool a block leaves. *)
LEMMA PoolFollows ==
  ASSUME NEW d, Sound(d), Pooled(d), NEW e \in Menu, Funded(d.chain, e),
         NEW f, NEW h, NEW expired, IsCheckpointed(f, d, e, h, expired)
  PROVE  Pooled(f)
<1>1. d.chain \in Seq(Menu)
  BY DEF Sound
<1>2. /\ d.pool \subseteq Txs /\ ConflictFree(d.pool) /\ d.pool \cap TxsOf(d.chain) = {} /\ Rooted(d.chain)
  BY DEF Pooled
<1>3. f.chain = Append(d.chain, e) /\ f.pool \subseteq d.pool \ e.txs
  BY DEF IsCheckpointed
<1>4. Rooted(f.chain) /\ TxsOf(f.chain) = TxsOf(d.chain) \cup e.txs
  BY <1>1, <1>2, <1>3, RootedAppend, TxsAppend
<1>5. ConflictFree(f.pool)
  BY <1>2, <1>3 DEF ConflictFree
<1> QED BY <1>2, <1>3, <1>4, <1>5 DEF Pooled

(* A revert leaves the pool, with less on the chain. *)
LEMMA PoolReverted ==
  ASSUME NEW d, Sound(d), Pooled(d), NEW h, h = Len(d.chain), h \in DOMAIN d.journal,
         NEW f, IsReverted(f, d, h)
  PROVE  Pooled(f)
<1>1. d.chain \in Seq(Menu) /\ h \in Nat \ {0}
  BY DEF Sound
<1>2. /\ f.chain \in Seq(Menu) /\ Len(f.chain) = h - 1 /\ \A i \in 1 .. h - 1 : f.chain[i] = d.chain[i]
  BY <1>1 DEF IsReverted, Front
<1>3. Rooted(f.chain) /\ TxsOf(f.chain) \subseteq TxsOf(d.chain)
  <2>1. Len(f.chain) <= Len(d.chain) /\ \A i \in 1 .. Len(f.chain) : f.chain[i] = d.chain[i]
    BY <1>1, <1>2
  <2> QED BY <1>1, <1>2, <2>1, RootedPrefix DEF Pooled
<1>4. f.pool = d.pool
  BY DEF IsReverted
<1> QED BY <1>3, <1>4 DEF Pooled

-----------------------------------------------------------------------------
(* The third invariant: no body goes while its post's row stands. *)

\* Bodies, pool and chain agree.
Whole(d) == Bodied(d) /\ Pooled(d)

\* The post's transaction is dead on this chain.
DeadPost(c, p) == \E t \in Txs : p \in Tx[t].posts /\ Dead(c, t)

\* The confirmed posts whose bodies d has.
Had(d) == {p \in Posts : d.store.post[p].row /\ d.store.post[p].at # 0 /\ HasBody(d, p)}

\* A post a switch began with is there with its body, or is gone and dead.
Survives(d, p) ==
  \/ d.store.post[p].row /\ HasBody(d, p)
  \/ ~ d.store.post[p].row /\ DeadPost(d.chain, p)

\* The inductive invariant, beside IInv: what a block has still to keep until it stands,
\* and a switch until it ends.
BInv ==
  /\ Whole(db)
  /\ pc \in {"written", "checked"} => Whole(inner.db)
  /\ InSwitch => Whole(outer.db)
  /\ pc = "written" => Funded(db.chain, cur)
  /\ pc = "checked" => Keeps(inner.db, db)
  /\ InSwitch /\ pc = "reverting" =>
       \A p \in Had(outer.db) : db.store.post[p].row /\ HasBody(db, p)
  /\ InSwitch /\ pc \in {"switching", "written", "checked"} =>
       \A p \in Had(outer.db) : Survives(db, p)

\* What a step may do to the committed bodies.
KeepsBodies ==
  \A p \in Posts :
    LET was == Committed.store.post[p]
    IN was.row /\ (InSwitch => was.at # 0) /\ HasBody(Committed, p) /\ Committed'.store.post[p].row
         => HasBody(Committed', p)

(* A step that commits nothing loses no body. *)
LEMMA SameKeeps ==
  ASSUME Committed' = Committed
  PROVE  KeepsBodies
<1> DEFINE d == Committed
<1>1. Committed = d /\ Committed' = d
  OBVIOUS
<1> HIDE DEF d
<1> QED BY <1>1 DEF KeepsBodies, HasBody

(* Nor does one that keeps the bodies it commits. *)
LEMMA KeepsCommitted ==
  ASSUME NEW d, NEW f, Keeps(d, f), Committed = d, Committed' = f
  PROVE  KeepsBodies
BY DEF KeepsBodies, Keeps

(* At genesis there is no post. *)
LEMMA InitWhole == Init => BInv
<1> SUFFICES ASSUME Init PROVE BInv
  OBVIOUS
<1>1. /\ db.chain = <<>> /\ DOMAIN db.journal = {} /\ db.pool = {} /\ pc = "idle" /\ outer = None
  BY DEF Init
<1>2. Rooted(<<>>) /\ ConflictFree({})
  BY DEF Rooted, ConflictFree
<1>3. Whole(db)
  BY <1>1, <1>2 DEF Whole, Bodied, Pooled
<1> QED BY <1>1, <1>3 DEF BInv, InSwitch

(* A step that leaves databases and switch alone, and keeps to where no block is written. *)
LEMMA QuietWhole ==
  ASSUME BInv, IInv, pc \in {"idle", "cycle"}, pc' \in {"idle", "cycle"}, db' = db, outer' = outer
  PROVE  BInv' /\ KeepsBodies
<1>1. ~ InSwitch /\ ~ InSwitch'
  BY DEF IInv, PcInv, InSwitch
<1>2. Committed' = Committed
  BY <1>1 DEF Committed
<1>3. BInv'
  BY <1>1 DEF BInv
<1> QED BY <1>2, <1>3, SameKeeps

(* When a block begins. *)
LEMMA BeginWhole ==
  ASSUME BInv, IInv, NEW e \in Menu, pc \in {"idle", "switching"}, Begin(e)
  PROVE  BInv' /\ KeepsBodies
<1>1. /\ Funded(db.chain, e) /\ inner'.db = db /\ cur' = e /\ pc' = "written" /\ UNCHANGED <<db, outer>>
  BY DEF Begin
<1>2. PcInv
  BY DEF IInv
<1>3. Committed' = Committed
  BY <1>1, <1>2 DEF Committed, InSwitch, PcInv
<1>4. BInv'
  BY <1>1, <1>2 DEF BInv, InSwitch, PcInv
<1> QED BY <1>3, <1>4, SameKeeps

(* A post has one transaction. *)
LEMMA PostHasOne ==
  ASSUME NEW t \in Txs, NEW u \in Txs, NEW p, p \in Tx[t].posts, p \in Tx[u].posts
  PROVE  t = u
BY TxAssumption

(* A block of the branch leaves every post the switch began with there, or gone and dead:
   its row goes only with its own transaction, which the switch put back in the pool. *)
LEMMA SurvivesWritten ==
  ASSUME NEW o, Sound(o), Pooled(o), NEW d, Sound(d), Whole(d), NEW e \in Menu, Valid(d.store, e),
         Funded(d.chain, e), NEW h, h = Len(d.chain) + 1, NEW f, NEW expired,
         expired \cap TxsOf(o.chain) = {}, IsCheckpointed(f, d, e, h, expired),
         NEW p \in Had(o), Survives(d, p)
  PROVE  Survives(f, p)
<1>1. p \in Posts /\ o.store.post[p].at # 0 /\ d.chain \in Seq(Menu) /\ o.chain \in Seq(Menu)
  BY DEF Had, Sound
<1>2. f.chain = Append(d.chain, e)
  BY DEF IsCheckpointed
<1>3. /\ Keeps(d, f)
      /\ f.store.post[p].row => d.store.post[p].row \/ p \in e.posts
      /\ d.store.post[p].row /\ ~ f.store.post[p].row => PostOf(LeftBy(d.pool, e, expired), p)
  <2>1. Bodied(d)
    BY DEF Whole
  <2> QED BY <1>1, <2>1, BodiesWritten
<1>4. \A b \in Menu : b.posts = UNION {Tx[t].posts : t \in b.txs} /\ b.txs \subseteq Txs
  BY MenuAssumption
<1>5. CASE d.store.post[p].row /\ HasBody(d, p)
  <2>1. CASE f.store.post[p].row
    BY <1>1, <1>3, <1>5, <2>1 DEF Keeps, Survives
  <2>2. CASE ~ f.store.post[p].row
    <3>1. PICK t \in LeftBy(d.pool, e, expired) : p \in Tx[t].posts
      BY <1>3, <1>5, <2>2 DEF PostOf
    <3>2. PICK i \in 1 .. Len(o.chain) : p \in o.chain[i].posts
      BY <1>1, SoundPosts
    <3>3. PICK u \in o.chain[i].txs : p \in Tx[u].posts
      BY <1>1, <1>4, <3>2
    <3>4. u \in TxsOf(o.chain) /\ u \in Txs
      BY <1>1, <3>3, TxsAre
    <3>5. /\ d.pool \in SUBSET Txs /\ d.pool \cap TxsOf(d.chain) = {} /\ Rooted(o.chain)
      BY DEF Whole, Pooled
    <3>6. t \in Txs
      BY <3>1, <3>5 DEF LeftBy, Closure
    <3>7. t = u
      BY <3>1, <3>3, <3>4, <3>6, PostHasOne
    <3>8. Dead(f.chain, t)
      BY <1>1, <1>2, <3>1, <3>4, <3>5, <3>7, LeavingDead
    <3> QED BY <2>2, <3>1, <3>6, <3>8 DEF Survives, DeadPost
  <2> QED BY <2>1, <2>2
<1>6. CASE ~ d.store.post[p].row /\ DeadPost(d.chain, p)
  <2>1. PICK t \in Txs : p \in Tx[t].posts /\ Dead(d.chain, t)
    BY <1>6 DEF DeadPost
  <2>2. t \notin e.txs
    BY <1>1, <2>1, DeadNever
  <2>3. p \notin e.posts
    <3> SUFFICES ASSUME p \in e.posts PROVE FALSE
      OBVIOUS
    <3>1. PICK u \in e.txs : p \in Tx[u].posts
      BY <1>4
    <3>2. u \in Txs
      BY <1>4
    <3> QED BY <2>1, <2>2, <3>1, <3>2, PostHasOne
  <2>4. Dead(f.chain, t)
    BY <1>1, <1>2, <2>1, DeadStays
  <2>5. ~ f.store.post[p].row
    BY <1>3, <1>6, <2>3
  <2> QED BY <2>1, <2>4, <2>5 DEF Survives, DeadPost
<1> QED BY <1>5, <1>6 DEF Survives

(* When a block's effects are written and the pool has followed it. *)
LEMMA CheckpointWhole ==
  ASSUME BInv, IInv, NEW expired, Checkpoint(expired)
  PROVE  BInv' /\ KeepsBodies
<1>0. /\ pc = "written" /\ inner' = inner /\ outer' = outer /\ expired \subseteq Expirable
      /\ pc' \in {"written", "checked"}
  BY DEF Checkpoint
<1>1. /\ Sound(db) /\ db = inner.db /\ cur \in Menu /\ Valid(db.store, cur) /\ Funded(db.chain, cur)
      /\ Whole(db) /\ (InSwitch => Sound(outer.db) /\ Whole(outer.db))
  BY <1>0 DEF IInv, InnerInv, OuterInv, BInv
<1>2. Committed' = Committed
  BY <1>0 DEF Committed, InSwitch
<1>3. KeepsBodies
  BY <1>2, SameKeeps
<1>4. CASE Tip + 1 \in DOMAIN db.versions
  <2>1. UNCHANGED <<db, pc, cur>>
    BY <1>4 DEF Checkpoint
  <2>2. BInv'
    BY <1>0, <2>1 DEF BInv, InSwitch
  <2> QED BY <1>3, <2>2
<1>5. CASE Tip + 1 \notin DOMAIN db.versions
  <2> DEFINE h == Tip + 1
  <2>1. IsCheckpointed(db', db, cur, h, expired) /\ pc' = "checked"
    BY <1>1, <1>5, CheckpointWrites
  <2>2. h = Len(db.chain) + 1
    BY DEF Tip
  <2> HIDE DEF h
  <2>3. Whole(db') /\ Keeps(db, db')
    BY <1>1, <2>1, <2>2, BodiesWritten, PoolFollows DEF Whole
  <2>4. ASSUME InSwitch, NEW p \in Had(outer.db) PROVE Survives(db', p)
    <3>1. expired \cap TxsOf(outer.db.chain) = {}
      BY <1>0, <2>4 DEF Expirable
    <3>2. Survives(db, p)
      BY <1>0, <2>4 DEF BInv
    <3>3. Sound(outer.db) /\ Pooled(outer.db)
      BY <1>1, <2>4 DEF Whole
    <3> QED BY <1>1, <2>1, <2>2, <3>1, <3>2, <3>3, SurvivesWritten
  <2>5. BInv'
    BY <1>0, <1>1, <2>1, <2>3, <2>4 DEF BInv, InSwitch
  <2> QED BY <1>3, <2>5
<1> QED BY <1>4, <1>5

(* When it stands: outside a switch its bodies are committed. *)
LEMMA FinishWhole ==
  ASSUME BInv, IInv, Finish
  PROVE  BInv' /\ KeepsBodies
<1>0. /\ pc = "checked" /\ pc' = IF InSwitch THEN "switching" ELSE "idle"
      /\ db' = db /\ outer' = outer
  BY DEF Finish
<1>1. BInv'
  BY <1>0 DEF BInv, InSwitch
<1>2. CASE InSwitch
  BY <1>0, <1>1, <1>2, SameKeeps DEF Committed, InSwitch
<1>3. CASE ~ InSwitch
  <2>1. Committed = inner.db /\ Committed' = db
    BY <1>0, <1>3 DEF Committed, InSwitch
  <2>2. Keeps(inner.db, db)
    BY <1>0 DEF BInv
  <2> QED BY <1>1, <2>1, <2>2, KeepsCommitted
<1> QED BY <1>2, <1>3

(* When it is refused. *)
LEMMA RefuseBlockWhole ==
  ASSUME BInv, IInv, RefuseBlock
  PROVE  BInv' /\ KeepsBodies
<1>0. /\ pc \in {"written", "checked"} /\ pc' = IF InSwitch THEN "aborting" ELSE "idle"
      /\ db' = inner.db /\ outer' = outer
  BY DEF RefuseBlock
<1>1. BInv'
  BY <1>0 DEF BInv, InSwitch
<1>2. Committed' = Committed
  BY <1>0 DEF Committed, InSwitch
<1> QED BY <1>1, <1>2, SameKeeps

(* When a switch starts. *)
LEMMA StartSwitchWhole ==
  ASSUME BInv, IInv, NEW f, StartSwitch(f)
  PROVE  BInv' /\ KeepsBodies
<1>0. /\ pc = "idle" /\ pc' = "reverting" /\ db' = db
      /\ outer' = [db |-> db, root |-> root, ring |-> ring]
  BY DEF StartSwitch
<1>1. outer'.db = db /\ outer' # None /\ ~ InSwitch
  BY <1>0, NotNone DEF IInv, PcInv
<1>2. BInv'
  BY <1>0, <1>1 DEF BInv, InSwitch, Had
<1>3. Committed' = Committed
  BY <1>0, <1>1 DEF Committed, InSwitch
<1> QED BY <1>2, <1>3, SameKeeps

(* When a block is reverted. *)
LEMMA RevertWhole ==
  ASSUME BInv, IInv, Revert
  PROVE  BInv' /\ KeepsBodies
<1> DEFINE h == Tip
           store == Undone(db.store, db.journal[h])
           chain == Front(db.chain)
           journal == Restrict(db.journal, DOMAIN db.journal \ {h})
<1>0. pc = "reverting" /\ h > target /\ UNCHANGED <<pc, cur, inner, outer, target>>
  BY DEF Revert
<1>1. /\ Sound(db) /\ DbShape(db) /\ h = Len(db.chain) /\ h \in DOMAIN db.journal /\ InSwitch
  <2>1. Sound(db) /\ OuterInv /\ InSwitch
    BY <1>0 DEF IInv, PcInv
  <2>2. target \in Nat /\ target + 1 .. Tip \subseteq DOMAIN db.journal
    BY <1>0, <2>1 DEF OuterInv
  <2>3. h = Len(db.chain) /\ h \in Nat /\ DbShape(db)
    BY <2>1 DEF Sound, Tip
  <2>4. h \in target + 1 .. h
    BY <1>0, <2>2, <2>3
  <2> QED BY <2>1, <2>2, <2>3, <2>4
<1>2. IsReverted(db', db, h)
  <2>1. db' = Reverted(db, h, store, chain, journal)
    BY DEF Revert, Reverted
  <2> HIDE DEF store, chain, journal, h
  <2>2. /\ db'.chain = chain /\ db'.store = store /\ db'.journal = journal
        /\ db'.pool = db.pool /\ db'.rows = RowsWithout(db.rows, h)
        /\ DOMAIN db'.versions = DOMAIN db.versions \ {h}
        /\ \A i \in DOMAIN db'.versions : db'.versions[i] = db.versions[i]
    BY <1>1, <2>1, RevertFields
  <2> QED BY <2>2 DEF IsReverted, store, chain, journal
<1> HIDE DEF h
<1>3. /\ Whole(db')
      /\ \A p \in Posts : db'.store.post[p].row = db.store.post[p].row /\ (HasBody(db, p) => HasBody(db', p))
  <2>1. Bodied(db) /\ Pooled(db)
    BY DEF BInv, Whole
  <2> QED BY <1>1, <1>2, <2>1, BodiesReverted, PoolReverted DEF Whole
<1>4. ASSUME NEW p \in Had(outer.db) PROVE db'.store.post[p].row /\ HasBody(db', p)
  <2>1. p \in Posts /\ db.store.post[p].row /\ HasBody(db, p)
    BY <1>0, <1>1, <1>4 DEF BInv, Had
  <2> QED BY <1>3, <2>1
<1>5. BInv'
  BY <1>0, <1>1, <1>3, <1>4 DEF BInv, InSwitch
<1>6. Committed' = Committed
  BY <1>0, <1>1 DEF Committed, InSwitch
<1> QED BY <1>5, <1>6, SameKeeps

(* When the prover is placed and what was reverted returns to the pool. *)
LEMMA ResolveForkWhole ==
  ASSUME BInv, IInv, NEW returned, ResolveFork(returned)
  PROVE  BInv' /\ KeepsBodies
<1>0. /\ pc = "reverting" /\ pc' \in {"reverting", "switching"} /\ UNCHANGED <<cur, inner, outer, target>>
      /\ returned \subseteq TxsOf(outer.db.chain) \ TxsOf(db.chain)
      /\ ConflictFree(db.pool \cup returned)
      /\ db' = db \/ db' = [db EXCEPT !.pool = db.pool \cup returned]
  BY DEF ResolveFork
<1>1. InSwitch /\ Sound(db) /\ Sound(outer.db) /\ Whole(db) /\ Whole(outer.db)
  BY <1>0 DEF IInv, PcInv, OuterInv, BInv
<1>2. /\ db'.chain = db.chain /\ db'.store = db.store /\ db'.journal = db.journal
      /\ db'.pool = db.pool \/ db'.pool = db.pool \cup returned
  BY <1>0, <1>1 DEF Sound, DbShape
<1>3. returned \subseteq Txs
  BY <1>0, <1>1, TxsAre DEF Sound
<1>4. Whole(db')
  <2>1. Bodied(db')
    BY <1>1, <1>2 DEF Whole, Bodied
  <2>2. db'.pool \subseteq Txs /\ ConflictFree(db'.pool) /\ db'.pool \cap TxsOf(db.chain) = {}
    <3>1. /\ db.pool \subseteq Txs /\ ConflictFree(db.pool) /\ db.pool \cap TxsOf(db.chain) = {}
      BY <1>1 DEF Whole, Pooled
    <3>2. CASE db'.pool = db.pool
      BY <3>1, <3>2
    <3>3. CASE db'.pool = db.pool \cup returned
      BY <1>0, <1>3, <3>1, <3>3
    <3> QED BY <1>2, <3>2, <3>3
  <2>3. Rooted(db'.chain) /\ db'.chain = db.chain
    BY <1>1, <1>2 DEF Whole, Pooled
  <2> QED BY <2>1, <2>2, <2>3 DEF Whole, Pooled
<1>5. \A p : HasBody(db, p) => HasBody(db', p)
  BY <1>2 DEF HasBody
<1>6. \A p \in Had(outer.db) : db'.store.post[p].row /\ HasBody(db', p)
  BY <1>0, <1>1, <1>2, <1>5 DEF BInv
<1>7. BInv'
  BY <1>0, <1>1, <1>4, <1>6 DEF BInv, InSwitch, Survives
<1>8. Committed' = Committed
  BY <1>0, <1>1 DEF Committed, InSwitch
<1> QED BY <1>7, <1>8, SameKeeps

(* When a switch ends: the posts it began with are there with their bodies, or gone. *)
LEMMA EndSwitchWhole ==
  ASSUME BInv, IInv, EndSwitch
  PROVE  BInv' /\ KeepsBodies
<1>0. pc = "switching" /\ outer' = None /\ pc' = "idle" /\ db' = db
  BY DEF EndSwitch
<1>1. InSwitch
  BY <1>0 DEF IInv, PcInv
<1>2. Committed = outer.db /\ Committed' = db
  BY <1>0, <1>1 DEF Committed, InSwitch
<1>3. BInv'
  BY <1>0 DEF BInv, InSwitch
<1>4. \A p \in Had(outer.db) : Survives(db, p)
  BY <1>0, <1>1 DEF BInv
<1>5. KeepsBodies
  <2> SUFFICES ASSUME NEW p \in Posts, Committed.store.post[p].row, Committed.store.post[p].at # 0,
                      HasBody(Committed, p), Committed'.store.post[p].row
               PROVE  HasBody(Committed', p)
    BY <1>1 DEF KeepsBodies
  <2>1. p \in Had(outer.db) /\ db.store.post[p].row
    BY <1>2 DEF Had
  <2>2. HasBody(db, p)
    BY <1>4, <2>1 DEF Survives
  <2> QED BY <1>2, <2>2
<1> QED BY <1>3, <1>5

(* When it is undone. *)
LEMMA AbortSwitchWhole ==
  ASSUME BInv, IInv, AbortSwitch
  PROVE  BInv' /\ KeepsBodies
<1>0. pc = "aborting" /\ db' = outer.db /\ outer' = None /\ pc' = "idle"
  BY DEF AbortSwitch
<1>1. InSwitch
  BY <1>0 DEF IInv, PcInv
<1>2. BInv'
  BY <1>0, <1>1 DEF BInv, InSwitch
<1>3. Committed' = Committed
  BY <1>0, <1>1 DEF Committed, InSwitch
<1> QED BY <1>2, <1>3, SameKeeps

(* When the node is killed. *)
LEMMA CrashWhole ==
  ASSUME BInv, IInv, Crash
  PROVE  BInv' /\ KeepsBodies
<1>0. db' = Committed /\ pc' = "idle" /\ outer' = None
  BY DEF Crash
<1>1. Whole(Committed)
  BY DEF BInv, Committed
<1>2. Committed' = db'
  BY <1>0 DEF Committed, InSwitch
<1>3. BInv'
  BY <1>0, <1>1 DEF BInv, InSwitch
<1> QED BY <1>0, <1>2, <1>3, SameKeeps

(* Between blocks: what is written beside the ledger. *)
LEMMA BesideWhole ==
  ASSUME BInv, IInv, pc = "idle", pc' = pc, outer' = outer, Beside(db, db'),
         \A p \in Posts : db.store.post[p].row /\ db'.store.post[p].row /\ db.store.post[p].body
                            => db'.store.post[p].body,
         db'.pool \subseteq Txs, ConflictFree(db'.pool), db'.pool \cap TxsOf(db.chain) = {}
  PROVE  BInv' /\ KeepsBodies
<1>1. Sound(db) /\ ~ InSwitch /\ Whole(db)
  BY DEF IInv, PcInv, BInv
<1>2. Bodied(db') /\ Keeps(db, db')
  BY <1>1, BodiesBeside DEF Whole
<1>3. Pooled(db')
  BY <1>1 DEF Whole, Pooled, Beside
<1>4. BInv'
  BY <1>1, <1>2, <1>3 DEF BInv, InSwitch, Whole
<1>5. Committed = db /\ Committed' = db'
  BY <1>1 DEF Committed, InSwitch
<1> QED BY <1>2, <1>4, <1>5, KeepsCommitted

(* A body that arrives. *)
LEMMA BodyArrivesWhole ==
  ASSUME BInv, IInv, NEW p \in Posts, BodyArrives(p)
  PROVE  BInv' /\ KeepsBodies
<1>0. pc = "idle" /\ pc' = pc /\ outer' = outer /\ db' = [db EXCEPT !.store.post[p].body = TRUE]
  BY DEF BodyArrives
<1>1. Sound(db) /\ Whole(db)
  BY DEF IInv, BInv
<1>2. /\ Beside(db, db') /\ db'.pool = db.pool
      /\ db'.store.post = [db.store.post EXCEPT ![p].body = TRUE]
  BY <1>1, BodyBeside
<1>3. \A q \in Posts : db.store.post[q] \in Rows
  BY <1>1 DEF Sound, Stores
<1>4. db.store.post \in [Posts -> Rows]
  BY <1>1 DEF Sound, Stores
<1>5. \A q \in Posts : db.store.post[q].body => db'.store.post[q].body
  <2> DEFINE post == db.store.post
  <2> HIDE DEF post
  <2>1. \A q \in Posts : post[q] \in Rows
    BY <1>3 DEF post
  <2>2. post \in [Posts -> Rows] /\ db'.store.post = [post EXCEPT ![p].body = TRUE]
    BY <1>2, <1>4 DEF post
  <2>3. \A q \in Posts : post[q].body => [post EXCEPT ![p].body = TRUE][q].body
    BY <2>1, <2>2 DEF Rows
  <2> QED BY <2>2, <2>3 DEF post
<1>6. /\ db'.pool \subseteq Txs /\ ConflictFree(db'.pool) /\ db'.pool \cap TxsOf(db.chain) = {}
  BY <1>1, <1>2 DEF Whole, Pooled
<1> QED BY <1>0, <1>2, <1>5, <1>6, BesideWhole

(* A transaction that is admitted: it spends what no block spent, so it is on no block. *)
LEMMA SubmitWhole ==
  ASSUME BInv, IInv, NEW t \in Txs, NEW body \in BOOLEAN, Submit(t, body)
  PROVE  BInv' /\ KeepsBodies
<1>0. /\ pc = "idle" /\ pc' = pc /\ outer' = outer
      /\ Tx[t].ins \cap SpentOf(db.chain) = {} /\ ConflictFree(db.pool \cup {t})
      /\ \A p \in Tx[t].posts : ~ db.store.post[p].row
  BY DEF Submit
<1>1. Sound(db) /\ Whole(db) /\ db.chain \in Seq(Menu)
  BY DEF IInv, BInv, Sound
<1>2. /\ Beside(db, db') /\ db'.pool = db.pool \cup {t}
      /\ db'.store.post = PostsWith(db.store, t, body)
  BY <1>1, SubmitBeside
<1>3. \A p \in Posts : db.store.post[p].row /\ db.store.post[p].body => db'.store.post[p].body
  BY <1>0, <1>2 DEF PostsWith
<1>4. t \notin TxsOf(db.chain)
  BY <1>0, <1>1, TxsAre
<1>5. /\ db'.pool \subseteq Txs /\ ConflictFree(db'.pool) /\ db'.pool \cap TxsOf(db.chain) = {}
  BY <1>0, <1>1, <1>2, <1>4 DEF Whole, Pooled
<1> QED BY <1>0, <1>2, <1>3, <1>5, BesideWhole

(* Entries the creator drops. *)
LEMMA EvictWhole ==
  ASSUME BInv, IInv, NEW seeds, Evict(seeds)
  PROVE  BInv' /\ KeepsBodies
<1> DEFINE left == Closure(db.pool, seeds)
<1>0. pc = "idle" /\ pc' = pc /\ outer' = outer
  BY DEF Evict
<1>1. Sound(db) /\ Whole(db)
  BY DEF IInv, BInv
<1>2. Beside(db, db') /\ db'.pool = db.pool \ left /\ db'.store.post = PostsWithout(db.store, left)
  BY <1>1, EvictBeside
<1> HIDE DEF left
<1>3. \A p \in Posts : db.store.post[p] \in Rows
  BY <1>1 DEF Sound, Stores
<1>4. ASSUME NEW p \in Posts, db.store.post[p].body, db'.store.post[p].row
      PROVE  db'.store.post[p].body
  <2>1. db'.store.post[p] = db.store.post[p] \/ ~ db'.store.post[p].row
    BY <1>2, <1>3 DEF PostsWithout, Rows
  <2> QED BY <1>4, <2>1
<1>5. /\ db'.pool \subseteq Txs /\ ConflictFree(db'.pool) /\ db'.pool \cap TxsOf(db.chain) = {}
  BY <1>1, <1>2 DEF Whole, Pooled, ConflictFree
<1> QED BY <1>0, <1>2, <1>4, <1>5, BesideWhole

(* Every step keeps the third invariant, and every committed body whose row stands. *)
THEOREM StepKeeps ==
  IInv /\ BInv /\ [Next]_vars => BInv' /\ KeepsBodies
<1> SUFFICES ASSUME IInv, BInv, [Next]_vars PROVE BInv' /\ KeepsBodies
  OBVIOUS
<1> DEFINE Goal == BInv' /\ KeepsBodies
<1>1. ASSUME NEW e \in Menu, ApplyBlock(e) PROVE Goal
  BY <1>1, BeginWhole DEF ApplyBlock
<1>2. ASSUME NEW e \in Menu, NextBlock(e) PROVE Goal
  BY <1>2, BeginWhole DEF NextBlock
<1>3. ASSUME NEW e \in Menu, Speculate(e) PROVE Goal
  BY <1>3, QuietWhole DEF Speculate
<1>4. ASSUME NEW some \in SUBSET Txs, Checkpoint(some) PROVE Goal
  BY <1>4, CheckpointWhole
<1>5. ASSUME Finish PROVE Goal
  BY <1>5, FinishWhole
<1>6. ASSUME RefuseBlock PROVE Goal
  BY <1>6, RefuseBlockWhole
<1>7. ASSUME NEW f \in 0 .. MaxHeight, StartSwitch(f) PROVE Goal
  BY <1>7, StartSwitchWhole
<1>8. ASSUME NEW f \in 0 .. MaxHeight, ProveAt(f) PROVE Goal
  BY <1>8, QuietWhole DEF ProveAt
<1>9. ASSUME Revert PROVE Goal
  BY <1>9, RevertWhole
<1>10. ASSUME NEW some \in SUBSET Txs, ResolveFork(some) PROVE Goal
  BY <1>10, ResolveForkWhole
<1>11. ASSUME EndSwitch PROVE Goal
  BY <1>11, EndSwitchWhole
<1>12. ASSUME AbortSwitch PROVE Goal
  BY <1>12, AbortSwitchWhole
<1>13. ASSUME EndCycle PROVE Goal
  BY <1>13, QuietWhole DEF EndCycle
<1>14. ASSUME Crash PROVE Goal
  BY <1>14, CrashWhole
<1>15. ASSUME NEW p \in Posts, BodyArrives(p) PROVE Goal
  BY <1>15, BodyArrivesWhole
<1>16. ASSUME NEW t \in Txs, NEW body \in BOOLEAN, Submit(t, body) PROVE Goal
  BY <1>16, SubmitWhole
<1>17. ASSUME NEW some \in SUBSET Txs, Evict(some) PROVE Goal
  BY <1>17, EvictWhole
<1>18. ASSUME UNCHANGED vars PROVE Goal
  <2>1. Committed' = Committed
    BY <1>18 DEF vars, Committed, InSwitch
  <2>2. BInv'
    BY <1>18 DEF vars, BInv, InSwitch
  <2> QED BY <2>1, <2>2, SameKeeps
<1> QED
  BY <1>1, <1>2, <1>3, <1>4, <1>5, <1>6, <1>7, <1>8, <1>9, <1>10, <1>11, <1>12, <1>13,
     <1>14, <1>15, <1>16, <1>17, <1>18 DEF Next

-----------------------------------------------------------------------------
(* The theorems. *)

(* What the invariants say of the properties. *)
LEMMA StoredIsExact ==
  ASSUME IInv, SInv, BInv
  PROVE  StorageExact
<1>1. /\ Intact(db) /\ ProverInv /\ SavedInv
      /\ halted \in {"no", "DuplicateStateVersion", "MissingStateVersion", "InconsistentAvlNodeRows"}
  BY DEF SInv
<1>2. Sound(db) /\ PcInv /\ Tip = Len(db.chain)
  BY DEF IInv, Tip
<1>3. db.chain \in Seq(Menu) /\ Tip \in Nat /\ DOMAIN db.journal \subseteq 1 .. Tip
  BY <1>2 DEF Sound
<1>4. /\ Tip <= MaxHeight /\ DOMAIN db.versions \subseteq 0 .. Tip /\ Stored(db)
      /\ \A h \in DOMAIN db.versions : db.versions[h] = TreeAt(db.chain, h)
  BY <1>1, <1>2 DEF Intact, Stored
<1>5. TypeOK
  <2>1. db.pool \subseteq Txs /\ ConflictFree(db.pool)
    BY DEF BInv, Whole, Pooled
  <2> QED BY <1>1, <1>2, <1>3, <1>4, <2>1 DEF TypeOK, PcInv, SavedInv
<1>6. TreeIsStore
  <2>1. TreeOf(db.store, Tip) = TreeNow(db)
    BY <1>2, TreeOfSound
  <2> QED BY <1>1, <2>1 DEF TreeIsStore, ProverInv
<1>7. RowsExact
  BY <1>2, <1>3, <1>4, ResolvesStored DEF RowsExact
<1>8. RingSound
  <2> SUFFICES ASSUME pc = "idle" PROVE RingSound
    BY DEF RingSound
  <2>1. Ringed(ring, db.chain, Tip)
    BY <1>1, <1>2 DEF ProverInv, RingDb
  <2>2. DOMAIN ring = {} \/ DOMAIN ring = Min(DOMAIN ring) .. Tip
    <3> SUFFICES ASSUME DOMAIN ring # {} PROVE DOMAIN ring = Min(DOMAIN ring) .. Tip
      OBVIOUS
    <3>1. PICK low \in 0 .. Tip : DOMAIN ring = low .. Tip
      BY <2>1 DEF Ringed, Interval
    <3>2. DOMAIN ring \subseteq Nat /\ low \in DOMAIN ring /\ \A y \in DOMAIN ring : low <= y
      BY <1>3, <3>1
    <3>3. Min(DOMAIN ring) \in DOMAIN ring /\ \A y \in DOMAIN ring : Min(DOMAIN ring) <= y
      BY <3>2, MinOf
    <3> DEFINE m == Min(DOMAIN ring)
    <3>4. m \in Nat /\ m <= low /\ low <= m /\ low \in Nat
      BY <3>2, <3>3
    <3> HIDE DEF m
    <3>5. m = low
      BY <3>4
    <3> QED BY <3>1, <3>5 DEF m
  <2> QED BY <2>1, <2>2 DEF RingSound, Ringed
<1> QED BY <1>5, <1>6, <1>7, <1>8 DEF StorageExact

(* Tree, version rows, node rows and kept roots agree with the tables in every state: after
   refusals, aborted switches, template trials, proofs, kills and restarts. *)
THEOREM StorageHolds == Spec => []StorageExact
<1>1. Init => IInv /\ SInv /\ BInv
  BY InitInv, InitStored, InitWhole
<1>2. (IInv /\ SInv /\ BInv) /\ [Next]_vars => (IInv /\ SInv /\ BInv)'
  BY StepStored, StepKeeps
<1>3. IInv /\ SInv /\ BInv => StorageExact
  BY StoredIsExact
<1> QED BY <1>1, <1>2, <1>3, PTL DEF Spec

(* With more versions kept than blocks can be reverted, neither a switch nor a restart nor
   a checkpoint stops the node. *)
THEOREM NeverStops == MaxProofHistory > MaxReorgDepth => (Spec => []NeverFailStops)
<1> SUFFICES ASSUME MaxProofHistory > MaxReorgDepth PROVE Spec => []NeverFailStops
  OBVIOUS
<1>1. Init => IInv /\ SInv
  BY InitInv, InitStored
<1>2. (IInv /\ SInv) /\ [Next]_vars => (IInv /\ SInv)'
  BY StepStored
<1>3. IInv /\ SInv => NeverFailStops
  BY DEF SInv, Deep, NeverFailStops
<1> QED BY <1>1, <1>2, <1>3, PTL DEF Spec

(* No block, switch, refusal or kill costs the node a body it stored, unless the post's row
   leaves with its pool entry; what a switch reverts and the pool then loses is not confirmed
   again by that switch. *)
THEOREM BodiesHold == Spec => BodiesKept
<1>1. Init => IInv /\ BInv
  BY InitInv, InitWhole
<1>2. (IInv /\ BInv) /\ [Next]_vars => (IInv /\ BInv)'
  BY StepImplements, StepKeeps
<1>3. (IInv /\ BInv) /\ [Next]_vars => [KeepsBodies]_vars
  BY StepKeeps
<1>4. [][KeepsBodies]_vars => BodiesKept
  BY PTL DEF BodiesKept, KeepsBodies
<1> QED BY <1>1, <1>2, <1>3, <1>4, PTL DEF Spec
=============================================================================
