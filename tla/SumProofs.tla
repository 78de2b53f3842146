------------------------------ MODULE SumProofs ------------------------------
(***************************************************************************)
(* What a sum over a finite set obeys: the facts the ledger's conservation *)
(* laws are proved from.  Every proof by induction over the set is one of  *)
(* a least counterexample (SmallestSubset): where a formula fails for some *)
(* subset, it fails for one that has no smaller failing subset inside it.  *)
(* The last lemmas do the same for the naturals up to a bound: induction   *)
(* (Upto) and the value of a recursive function (Recursion); and from      *)
(* those, what picking the elements of a list gives (AmongIs).             *)
(***************************************************************************)
EXTENDS Sums, Lists, FiniteSetTheorems, WellFoundedInduction, NaturalsInduction, TLAPS

\* The element the recursion of MapThenSumSet takes from a set.
pick(s) == CHOOSE x \in s : TRUE

\* g is a value of that recursion on the subsets of S.
IsIter(g, f, S) ==
  g = [s \in SUBSET S |-> IF s = {} THEN 0 ELSE f[pick(s)] + g[s \ {pick(s)}]]

\* The value the community module chooses.
Iter(f, S) == CHOOSE g : IsIter(g, f, S)

(* A sum is the value of the recursion at the whole set. *)
LEMMA SumIsIter ==
  ASSUME NEW f, NEW S
  PROVE  SumOver(f, S) = Iter(f, S)[S]
  BY DEF SumOver, MapThenSumSet, MapThenFoldSet, Iter, IsIter, pick

(* Induction over a finite set, as a least counterexample: a family of subsets
   of a finite set that is not empty has a member with no other one inside it. *)
LEMMA SmallestSubset ==
  ASSUME NEW S, IsFiniteSet(S), NEW C \in SUBSET (SUBSET S), C # {}
  PROVE  \E T \in C : \A U \in C : U \subseteq T => U = T
<1>1. IsWellFoundedOn(StrictSubsetOrdering(S), FiniteSubsetsOf(S))
  BY FS_StrictSubsetOrderingWellFounded
<1>2. C \subseteq FiniteSubsetsOf(S)
  BY FS_Subset DEF FiniteSubsetsOf
<1>3. PICK T \in C : \A U \in C : ~(<<U, T>> \in StrictSubsetOrdering(S))
  BY <1>1, <1>2, WFMin
<1>4. QED
  BY <1>3 DEF StrictSubsetOrdering

\* The recursion has a value at every subset, whatever the set it is taken in.
LEMMA IterAgree ==
  ASSUME NEW f, NEW S, NEW T, IsFiniteSet(S), NEW g, NEW h,
         IsIter(g, f, S), IsIter(h, f, T), NEW s, s \subseteq S, s \subseteq T
  PROVE  g[s] = h[s]
<1> DEFINE C == {u \in SUBSET S : u \subseteq T /\ g[u] # h[u]}
<1> SUFFICES ASSUME C # {} PROVE FALSE
  OBVIOUS
<1>0. C \in SUBSET (SUBSET S)
  OBVIOUS
<1>1. PICK u \in C : \A w \in C : w \subseteq u => w = u
  <2> HIDE DEF C
  <2> QED BY <1>0, SmallestSubset
<1> DEFINE v == u \ {pick(u)}
<1>2. u # {} => pick(u) \in u
  BY DEF pick
<1>3. u # {} => v \notin C
  BY <1>1, <1>2
<1>4. u # {} => g[v] = h[v]
  BY <1>1, <1>3
<1>5. g[u] = IF u = {} THEN 0 ELSE f[pick(u)] + g[v]
  BY <1>1 DEF IsIter
<1>6. h[u] = IF u = {} THEN 0 ELSE f[pick(u)] + h[v]
  BY <1>1 DEF IsIter
<1>7. QED
  BY <1>1, <1>4, <1>5, <1>6

(* The recursion has a value on the subsets of every finite set. *)
LEMMA IterExists ==
  ASSUME NEW f, NEW S, IsFiniteSet(S)
  PROVE  IsIter(Iter(f, S), f, S)
<1> DEFINE C == {u \in SUBSET S : ~ IsIter(Iter(f, u), f, u)}
<1> SUFFICES ASSUME C # {} PROVE FALSE
  OBVIOUS
<1>0. C \in SUBSET (SUBSET S)
  OBVIOUS
<1>1. PICK T \in C : \A w \in C : w \subseteq T => w = T
  <2> HIDE DEF C
  <2> QED BY <1>0, SmallestSubset
<1>2. \A w \in SUBSET T : w # T => IsIter(Iter(f, w), f, w)
  BY <1>1
<1> DEFINE rest == T \ {pick(T)}
           sub(s) == IF s = T THEN (IF T = {} THEN 0 ELSE f[pick(T)] + Iter(f, rest)[rest])
                     ELSE Iter(f, s)[s]
           g == [s \in SUBSET T |-> sub(s)]
<1>3. ASSUME NEW s \in SUBSET T
      PROVE  g[s] = IF s = {} THEN 0 ELSE f[pick(s)] + g[s \ {pick(s)}]
  <2> DEFINE r == s \ {pick(s)}
  <2>0. s # {} => pick(s) \in s
    BY DEF pick
  <2>1. CASE s = T
    <3>1. T # {} => rest # T /\ rest \in SUBSET T
      BY <2>0, <2>1
    <3>2. T # {} => g[rest] = Iter(f, rest)[rest]
      BY <3>1
    <3>3. g[s] = IF T = {} THEN 0 ELSE f[pick(T)] + Iter(f, rest)[rest]
      BY <2>1
    <3> QED BY <3>2, <3>3, <2>1
  <2>2. CASE s # T
    <3>1. g[s] = Iter(f, s)[s]
      BY <2>2
    <3>2. IsIter(Iter(f, s), f, s)
      BY <1>2, <2>2
    <3>3. Iter(f, s)[s] = IF s = {} THEN 0 ELSE f[pick(s)] + Iter(f, s)[r]
      BY <3>2 DEF IsIter
    <3>4. CASE s = {}
      BY <3>1, <3>3, <3>4
    <3>5. CASE s # {}
      <4>1. r \in SUBSET T /\ r # T /\ r \subseteq s
        BY <2>0, <3>5, <2>2
      <4>2. IsIter(Iter(f, r), f, r)
        BY <4>1, <1>2
      <4>3. IsFiniteSet(s)
        BY FS_Subset, <1>1
      <4>4. Iter(f, s)[r] = Iter(f, r)[r]
        BY <4>1, <4>2, <4>3, <3>2, IterAgree
      <4>5. g[r] = Iter(f, r)[r]
        BY <4>1
      <4> QED BY <3>1, <3>3, <3>5, <4>4, <4>5
    <3> QED BY <3>4, <3>5
  <2> QED BY <2>1, <2>2
<1>4. IsIter(g, f, T)
  BY <1>3 DEF IsIter
<1>5. IsIter(Iter(f, T), f, T)
  BY <1>4 DEF Iter
<1>6. QED
  BY <1>1, <1>5

(* The empty sum is zero. *)
LEMMA SumEmpty ==
  ASSUME NEW f
  PROVE  SumOver(f, {}) = 0
<1>1. IsIter(Iter(f, {}), f, {})
  BY IterExists, FS_EmptySet
<1>2. Iter(f, {})[{}] = 0
  BY <1>1 DEF IsIter
<1>3. QED
  BY <1>2, SumIsIter

(* A sum is the picked element's value and the sum of the rest. *)
LEMMA SumPick ==
  ASSUME NEW f, NEW S, IsFiniteSet(S), S # {}
  PROVE  /\ pick(S) \in S
         /\ SumOver(f, S) = f[pick(S)] + SumOver(f, S \ {pick(S)})
<1> DEFINE r == S \ {pick(S)}
<1>1. pick(S) \in S
  BY DEF pick
<1>2. IsFiniteSet(r)
  BY FS_RemoveElement
<1>3. IsIter(Iter(f, S), f, S) /\ IsIter(Iter(f, r), f, r)
  BY IterExists, <1>2
<1>4. Iter(f, S)[r] = Iter(f, r)[r]
  <2>1. r \subseteq S /\ r \subseteq r
    OBVIOUS
  <2> HIDE DEF r
  <2> QED BY <2>1, <1>3, IterAgree
<1>5. Iter(f, S)[S] = f[pick(S)] + Iter(f, S)[r]
  BY <1>3 DEF IsIter
<1>6. SumOver(f, S) = Iter(f, S)[S] /\ SumOver(f, r) = Iter(f, r)[r]
  BY SumIsIter
<1>7. QED
  BY <1>1, <1>4, <1>5, <1>6

(* A sum stays in every set that holds zero and is closed under addition. *)
LEMMA SumClosed ==
  ASSUME NEW f, NEW S, IsFiniteSet(S), NEW D, 0 \in D, \A x, y \in D : x + y \in D,
         \A x \in S : f[x] \in D
  PROVE  SumOver(f, S) \in D
<1> DEFINE C == {u \in SUBSET S : SumOver(f, u) \notin D}
<1> SUFFICES ASSUME C # {} PROVE FALSE
  OBVIOUS
<1>0. C \in SUBSET (SUBSET S)
  OBVIOUS
<1>1. PICK u \in C : \A w \in C : w \subseteq u => w = u
  <2> HIDE DEF C
  <2> QED BY <1>0, SmallestSubset
<1>2. SumOver(f, {}) \in D
  BY SumEmpty
<1>3. u # {} /\ IsFiniteSet(u)
  BY <1>1, <1>2, FS_Subset
<1>4. pick(u) \in u /\ SumOver(f, u) = f[pick(u)] + SumOver(f, u \ {pick(u)})
  BY <1>3, SumPick
<1>5. SumOver(f, u \ {pick(u)}) \in D /\ f[pick(u)] \in D
  BY <1>1, <1>4
<1>6. QED
  BY <1>1, <1>4, <1>5

(* A sum of integers is an integer. *)
LEMMA SumInt ==
  ASSUME NEW f, NEW S, IsFiniteSet(S), \A x \in S : f[x] \in Int
  PROVE  SumOver(f, S) \in Int
BY SumClosed

(* A sum of naturals is a natural: no total of karma is negative. *)
LEMMA SumNat ==
  ASSUME NEW f, NEW S, IsFiniteSet(S), \A x \in S : f[x] \in Nat
  PROVE  SumOver(f, S) \in Nat
<1>1. 0 \in Nat /\ \A x, y \in Nat : x + y \in Nat
  OBVIOUS
<1>2. QED
  BY <1>1, SumClosed

(* Any element can be taken out of a sum, not only the picked one. *)
LEMMA SumSplit ==
  ASSUME NEW f, NEW S, IsFiniteSet(S), \A x \in S : f[x] \in Int, NEW a \in S
  PROVE  SumOver(f, S) = f[a] + SumOver(f, S \ {a})
<1> DEFINE C == {u \in SUBSET S : \E x \in u : SumOver(f, u) # f[x] + SumOver(f, u \ {x})}
<1> SUFFICES ASSUME C # {} PROVE FALSE
  OBVIOUS
<1>0. C \in SUBSET (SUBSET S)
  OBVIOUS
<1>1. PICK u \in C : \A w \in C : w \subseteq u => w = u
  <2> HIDE DEF C
  <2> QED BY <1>0, SmallestSubset
<1>2. PICK x \in u : SumOver(f, u) # f[x] + SumOver(f, u \ {x})
  BY <1>1
<1> DEFINE c == pick(u)
<1>3. IsFiniteSet(u) /\ IsFiniteSet(u \ {c}) /\ IsFiniteSet(u \ {x}) /\ IsFiniteSet((u \ {c}) \ {x})
  <2>1. u \subseteq S
    BY <1>1
  <2> HIDE DEF C, c
  <2> QED BY <2>1, FS_Subset
<1>4. c \in u /\ SumOver(f, u) = f[c] + SumOver(f, u \ {c})
  BY <1>2, <1>3, SumPick
<1>5. x # c
  BY <1>2, <1>4
<1>6. u \ {c} \notin C /\ u \ {x} \notin C
  BY <1>1, <1>2, <1>4
<1>7. SumOver(f, u \ {c}) = f[x] + SumOver(f, (u \ {c}) \ {x})
  BY <1>6, <1>5, <1>2, <1>4
<1>8. SumOver(f, u \ {x}) = f[c] + SumOver(f, (u \ {x}) \ {c})
  BY <1>6, <1>5, <1>2, <1>4
<1>9. (u \ {x}) \ {c} = (u \ {c}) \ {x}
  OBVIOUS
<1>10. SumOver(f, (u \ {c}) \ {x}) \in Int
  BY <1>3, SumInt
<1>11. f[c] \in Int /\ f[x] \in Int
  BY <1>1, <1>4
<1> HIDE DEF c
<1>12. QED
  BY <1>2, <1>4, <1>7, <1>8, <1>9, <1>10, <1>11

(* The sum of a pointwise sum. *)
LEMMA SumAdd ==
  ASSUME NEW f, NEW g, NEW h, NEW S, IsFiniteSet(S),
         \A x \in S : f[x] \in Int /\ g[x] \in Int /\ h[x] = f[x] + g[x]
  PROVE  SumOver(h, S) = SumOver(f, S) + SumOver(g, S)
<1> DEFINE C == {u \in SUBSET S : SumOver(h, u) # SumOver(f, u) + SumOver(g, u)}
<1> SUFFICES ASSUME C # {} PROVE FALSE
  OBVIOUS
<1>0. C \in SUBSET (SUBSET S)
  OBVIOUS
<1>1. PICK u \in C : \A w \in C : w \subseteq u => w = u
  <2> HIDE DEF C
  <2> QED BY <1>0, SmallestSubset
<1>2. u # {}
  <2>1. {} \notin C
    BY SumEmpty
  <2> QED BY <1>1, <2>1
<1> DEFINE c == pick(u)
<1>3. u \subseteq S /\ IsFiniteSet(u) /\ IsFiniteSet(u \ {c})
  <2>1. u \subseteq S
    BY <1>1
  <2> HIDE DEF C, c
  <2> QED BY <2>1, FS_Subset
<1>4. /\ c \in u
      /\ SumOver(f, u) = f[c] + SumOver(f, u \ {c})
      /\ SumOver(g, u) = g[c] + SumOver(g, u \ {c})
      /\ SumOver(h, u) = h[c] + SumOver(h, u \ {c})
  BY <1>2, <1>3, SumPick
<1>5. SumOver(h, u \ {c}) = SumOver(f, u \ {c}) + SumOver(g, u \ {c})
  BY <1>1, <1>4
<1>6. SumOver(f, u \ {c}) \in Int /\ SumOver(g, u \ {c}) \in Int
  BY <1>3, SumInt
<1> HIDE DEF c
<1>7. QED
  BY <1>1, <1>3, <1>4, <1>5, <1>6

(* Functions that agree on a set have the same sum over it. *)
LEMMA SumEqual ==
  ASSUME NEW f, NEW g, NEW S, IsFiniteSet(S), \A x \in S : f[x] = g[x]
  PROVE  SumOver(f, S) = SumOver(g, S)
<1> DEFINE C == {u \in SUBSET S : SumOver(f, u) # SumOver(g, u)}
<1> SUFFICES ASSUME C # {} PROVE FALSE
  OBVIOUS
<1>0. C \in SUBSET (SUBSET S)
  OBVIOUS
<1>1. PICK u \in C : \A w \in C : w \subseteq u => w = u
  <2> HIDE DEF C
  <2> QED BY <1>0, SmallestSubset
<1>2. u # {}
  <2>1. {} \notin C
    BY SumEmpty
  <2> QED BY <1>1, <2>1
<1> DEFINE c == pick(u)
<1>3. u \subseteq S /\ IsFiniteSet(u)
  BY <1>1, FS_Subset
<1>4. /\ c \in u
      /\ SumOver(f, u) = f[c] + SumOver(f, u \ {c})
      /\ SumOver(g, u) = g[c] + SumOver(g, u \ {c})
  BY <1>2, <1>3, SumPick
<1>5. SumOver(f, u \ {c}) = SumOver(g, u \ {c})
  BY <1>1, <1>4
<1>7. QED
  BY <1>1, <1>3, <1>4, <1>5

(* A sum of zeros is zero. *)
LEMMA SumZero ==
  ASSUME NEW f, NEW S, IsFiniteSet(S), \A x \in S : f[x] = 0
  PROVE  SumOver(f, S) = 0
<1>1. SumOver(f, S) \in {0}
  <2>1. 0 \in {0} /\ \A x, y \in {0} : x + y \in {0}
    OBVIOUS
  <2>2. \A x \in S : f[x] \in {0}
    OBVIOUS
  <2> QED BY <2>1, <2>2, SumClosed
<1>2. QED
  BY <1>1

(* Changing one value changes the sum by as much. *)
LEMMA SumAt ==
  ASSUME NEW f, NEW g, NEW S, IsFiniteSet(S), NEW a \in S,
         \A x \in S : f[x] \in Int /\ g[x] \in Int,
         \A x \in S \ {a} : g[x] = f[x]
  PROVE  SumOver(g, S) = SumOver(f, S) - f[a] + g[a]
<1>1. IsFiniteSet(S \ {a})
  BY FS_RemoveElement
<1>2. SumOver(f, S) = f[a] + SumOver(f, S \ {a})
  BY SumSplit
<1>3. SumOver(g, S) = g[a] + SumOver(g, S \ {a})
  BY SumSplit
<1>4. SumOver(f, S \ {a}) = SumOver(g, S \ {a})
  BY <1>1, SumEqual
<1>5. SumOver(f, S \ {a}) \in Int
  BY <1>1, SumInt
<1>6. QED
  BY <1>2, <1>3, <1>4, <1>5

(* The sum over two disjoint sets. *)
LEMMA SumUnion ==
  ASSUME NEW f, NEW S, NEW T, IsFiniteSet(S), IsFiniteSet(T), S \cap T = {},
         \A x \in S \cup T : f[x] \in Int
  PROVE  SumOver(f, S \cup T) = SumOver(f, S) + SumOver(f, T)
<1> DEFINE C == {u \in SUBSET T : SumOver(f, S \cup u) # SumOver(f, S) + SumOver(f, u)}
<1> SUFFICES ASSUME C # {} PROVE FALSE
  OBVIOUS
<1>0. C \in SUBSET (SUBSET T)
  OBVIOUS
<1>1. PICK u \in C : \A w \in C : w \subseteq u => w = u
  <2> HIDE DEF C
  <2> QED BY <1>0, SmallestSubset
<1>a. SumOver(f, S) \in Int
  BY SumInt
<1>2. u # {}
  <2>1. {} \notin C
    <3>1. S \cup {} = S
      OBVIOUS
    <3> QED BY <3>1, <1>a, SumEmpty
  <2> QED BY <1>1, <2>1
<1> DEFINE c == pick(u)
<1>3. u \subseteq T /\ c \in u
  BY <1>1, <1>2 DEF pick
<1>4. IsFiniteSet(u) /\ IsFiniteSet(u \ {c}) /\ IsFiniteSet(S \cup u)
  <2> HIDE DEF C, c
  <2> QED BY <1>3, FS_Subset, FS_Union
<1>5. SumOver(f, u) = f[c] + SumOver(f, u \ {c})
  BY <1>3, <1>4, SumSplit
<1>6. SumOver(f, S \cup u) = f[c] + SumOver(f, (S \cup u) \ {c})
  BY <1>3, <1>4, SumSplit
<1>7. (S \cup u) \ {c} = S \cup (u \ {c})
  BY <1>3
<1>8. SumOver(f, S \cup (u \ {c})) = SumOver(f, S) + SumOver(f, u \ {c})
  BY <1>1, <1>3
<1>9. SumOver(f, u \ {c}) \in Int /\ f[c] \in Int
  BY <1>3, <1>4, SumInt
<1> HIDE DEF c
<1>10. QED
  BY <1>1, <1>a, <1>5, <1>6, <1>7, <1>8, <1>9

(* A sum over a set is the sum over a part and over what is left. *)
LEMMA SumSubset ==
  ASSUME NEW f, NEW S, NEW T, IsFiniteSet(S), T \subseteq S, \A x \in S : f[x] \in Int
  PROVE  SumOver(f, S) = SumOver(f, T) + SumOver(f, S \ T)
<1>1. IsFiniteSet(T) /\ IsFiniteSet(S \ T)
  BY FS_Subset, FS_Difference
<1>2. S = T \cup (S \ T) /\ T \cap (S \ T) = {}
  OBVIOUS
<1>3. \A x \in T \cup (S \ T) : f[x] \in Int
  OBVIOUS
<1>4. SumOver(f, T \cup (S \ T)) = SumOver(f, T) + SumOver(f, S \ T)
  BY <1>1, <1>2, <1>3, SumUnion
<1>5. QED
  BY <1>2, <1>4

(* Summing group by group: each element is in the group of its key. *)
LEMMA SumGroups ==
  ASSUME NEW f, NEW S, IsFiniteSet(S), \A x \in S : f[x] \in Int,
         NEW I, IsFiniteSet(I), NEW k, \A x \in S : k[x] \in I,
         NEW G, \A i \in I : G[i] = {x \in S : k[x] = i},
         NEW F, \A i \in I : F[i] = SumOver(f, G[i])
  PROVE  SumOver(F, I) = SumOver(f, S)
<1> DEFINE of(u) == {x \in S : k[x] \in u}
           C == {u \in SUBSET I : SumOver(F, u) # SumOver(f, of(u))}
<1>a. of(I) = S
  OBVIOUS
<1> SUFFICES ASSUME C # {} PROVE FALSE
  BY <1>a
<1>0. C \in SUBSET (SUBSET I)
  OBVIOUS
<1>1. PICK u \in C : \A w \in C : w \subseteq u => w = u
  <2> HIDE DEF C
  <2> QED BY <1>0, SmallestSubset
<1>2. u # {}
  <2>1. {} \notin C
    <3>1. of({}) = {}
      OBVIOUS
    <3> QED BY <3>1, SumEmpty
  <2> QED BY <1>1, <2>1
<1> DEFINE c == pick(u)
<1>3. u \subseteq I /\ c \in u
  BY <1>1, <1>2 DEF pick
<1>4. IsFiniteSet(u) /\ IsFiniteSet(of({c})) /\ IsFiniteSet(of(u \ {c}))
  <2> HIDE DEF C, c
  <2> QED BY <1>3, FS_Subset
<1>5. SumOver(F, u) = F[c] + SumOver(F, u \ {c})
  <2>1. pick(u) \in u /\ SumOver(F, u) = F[pick(u)] + SumOver(F, u \ {pick(u)})
    BY <1>2, <1>4, SumPick
  <2> QED BY <2>1
<1>6. F[c] = SumOver(f, of({c}))
  <2>1. G[c] = of({c})
    <3> HIDE DEF c
    <3>1. c \in I
      BY <1>3
    <3>2. G[c] = {x \in S : k[x] = c}
      BY <3>1
    <3> QED BY <3>2
  <2> HIDE DEF of, C, c
  <2> QED BY <1>3, <2>1
<1>7. SumOver(F, u \ {c}) = SumOver(f, of(u \ {c}))
  BY <1>1, <1>3
<1>8. of(u) = of({c}) \cup of(u \ {c}) /\ of({c}) \cap of(u \ {c}) = {}
  BY <1>3
<1>9. SumOver(f, of(u)) = SumOver(f, of({c})) + SumOver(f, of(u \ {c}))
  <2> DEFINE A == of({c})
             B == of(u \ {c})
  <2>1. \A x \in A \cup B : f[x] \in Int
    OBVIOUS
  <2>2. A \cap B = {} /\ IsFiniteSet(A) /\ IsFiniteSet(B) /\ of(u) = A \cup B
    BY <1>4, <1>8
  <2> HIDE DEF of, c, C, A, B
  <2>3. SumOver(f, A \cup B) = SumOver(f, A) + SumOver(f, B)
    BY <2>1, <2>2, SumUnion
  <2> QED BY <2>2, <2>3 DEF A, B
<1>10. QED
  BY <1>1, <1>5, <1>6, <1>7, <1>9

(* A sum of ones counts the set. *)
LEMMA SumOnes ==
  ASSUME NEW f, NEW S, IsFiniteSet(S), \A x \in S : f[x] = 1
  PROVE  SumOver(f, S) = Cardinality(S)
<1> DEFINE C == {u \in SUBSET S : SumOver(f, u) # Cardinality(u)}
<1> SUFFICES ASSUME C # {} PROVE FALSE
  OBVIOUS
<1>0. C \in SUBSET (SUBSET S)
  OBVIOUS
<1>1. PICK u \in C : \A w \in C : w \subseteq u => w = u
  <2> HIDE DEF C
  <2> QED BY <1>0, SmallestSubset
<1>2. u # {}
  <2>1. {} \notin C
    BY SumEmpty, FS_EmptySet
  <2> QED BY <1>1, <2>1
<1> DEFINE c == pick(u)
<1>3. u \subseteq S /\ IsFiniteSet(u)
  BY <1>1, FS_Subset
<1>4. c \in u /\ SumOver(f, u) = f[c] + SumOver(f, u \ {c})
  BY <1>2, <1>3, SumPick
<1>5. SumOver(f, u \ {c}) = Cardinality(u \ {c}) /\ f[c] = 1
  BY <1>1, <1>3, <1>4
<1>6. Cardinality(u \ {c}) = Cardinality(u) - 1 /\ Cardinality(u) \in Nat
  <2> HIDE DEF C, c
  <2> QED BY <1>3, <1>4, FS_RemoveElement, FS_CardinalityType
<1> HIDE DEF c
<1>7. QED
  BY <1>1, <1>4, <1>5, <1>6

(* A sum is monotone in its function. *)
LEMMA SumLeq ==
  ASSUME NEW f, NEW g, NEW S, IsFiniteSet(S),
         \A x \in S : f[x] \in Int /\ g[x] \in Int /\ f[x] <= g[x]
  PROVE  SumOver(f, S) <= SumOver(g, S)
<1> DEFINE d == [x \in S |-> g[x] - f[x]]
<1>1. \A x \in S : d[x] \in Nat
  OBVIOUS
<1>2. SumOver(d, S) \in Nat
  <2> HIDE DEF d
  <2> QED BY <1>1, SumNat
<1>3. \A x \in S : f[x] \in Int /\ d[x] \in Int /\ g[x] = f[x] + d[x]
  OBVIOUS
<1>4. SumOver(g, S) = SumOver(f, S) + SumOver(d, S)
  <2> HIDE DEF d
  <2> QED BY <1>3, SumAdd
<1>5. SumOver(f, S) \in Int
  BY SumInt
<1> HIDE DEF d
<1>6. QED
  BY <1>2, <1>4, <1>5

(* A sum of multiples is the multiple of the sum. *)
LEMMA SumScale ==
  ASSUME NEW f, NEW g, NEW S, IsFiniteSet(S), NEW k \in Int,
         \A x \in S : f[x] \in Int /\ g[x] = k * f[x]
  PROVE  SumOver(g, S) = k * SumOver(f, S)
<1> DEFINE C == {u \in SUBSET S : SumOver(g, u) # k * SumOver(f, u)}
<1> SUFFICES ASSUME C # {} PROVE FALSE
  OBVIOUS
<1>0. C \in SUBSET (SUBSET S)
  OBVIOUS
<1>1. PICK u \in C : \A w \in C : w \subseteq u => w = u
  <2> HIDE DEF C
  <2> QED BY <1>0, SmallestSubset
<1>2. u # {}
  <2>1. {} \notin C
    BY SumEmpty
  <2> QED BY <1>1, <2>1
<1> DEFINE c == pick(u)
<1>3. u \subseteq S /\ IsFiniteSet(u) /\ IsFiniteSet(u \ {c})
  <2>1. u \subseteq S
    BY <1>1
  <2> HIDE DEF C, c
  <2> QED BY <2>1, FS_Subset
<1>4. /\ c \in u
      /\ SumOver(f, u) = f[c] + SumOver(f, u \ {c})
      /\ SumOver(g, u) = g[c] + SumOver(g, u \ {c})
  BY <1>2, <1>3, SumPick
<1>5. SumOver(g, u \ {c}) = k * SumOver(f, u \ {c})
  BY <1>1, <1>4
<1>6. SumOver(f, u \ {c}) \in Int
  BY <1>3, SumInt
<1>7. f[c] \in Int /\ g[c] = k * f[c]
  BY <1>3, <1>4
<1>8. \A p, q \in Int : k * p + k * q = k * (p + q)
  OBVIOUS
<1> HIDE DEF c
<1>9. QED
  BY <1>1, <1>4, <1>5, <1>6, <1>7, <1>8

(* A set of naturals below a bound has a greatest element. *)
LEMMA GreatestBelow ==
  ASSUME NEW n \in Nat, NEW S, S \subseteq 0 .. n, S # {}
  PROVE  \E m \in S : \A y \in S : m >= y
<1> DEFINE C == {u \in SUBSET (0 .. n) : S \subseteq u /\ \E m \in 0 .. n : u = 0 .. m}
<1>0. C \in SUBSET (SUBSET (0 .. n)) /\ IsFiniteSet(0 .. n)
  BY FS_Interval
<1>1. 0 .. n \in C
  OBVIOUS
<1>2. PICK u \in C : \A w \in C : w \subseteq u => w = u
  <2>1. C # {}
    BY <1>1
  <2> DEFINE N == 0 .. n
  <2>2. IsFiniteSet(N) /\ C \in SUBSET (SUBSET N)
    BY <1>0
  <2> HIDE DEF C, N
  <2> QED BY <2>1, <2>2, SmallestSubset
<1>3. PICK m \in 0 .. n : u = 0 .. m
  BY <1>2
<1>4. m \in S
  <2> SUFFICES ASSUME m \notin S PROVE FALSE
    OBVIOUS
  <2>1. m # 0
    <3>1. S \subseteq 0 .. m
      BY <1>2, <1>3
    <3>2. PICK y \in S : TRUE
      OBVIOUS
    <3>3. y \in 0 .. m /\ y # m
      BY <3>1, <3>2
    <3> QED BY <3>3
  <2>2. 0 .. (m - 1) \in C
    <3>1. S \subseteq 0 .. (m - 1)
      BY <1>2, <1>3
    <3>2. 0 .. (m - 1) \in SUBSET (0 .. n) /\ m - 1 \in 0 .. n
      BY <2>1
    <3> QED BY <3>1, <3>2
  <2>3. 0 .. (m - 1) \subseteq u /\ m \in u /\ m \notin 0 .. (m - 1)
    BY <1>3
  <2> QED BY <2>2, <2>3, <1>2
<1>5. \A y \in S : m >= y
  BY <1>2, <1>3
<1>6. QED
  BY <1>4, <1>5

(* A map that keeps elements apart keeps the number of them. *)
LEMMA ImageCardinality ==
  ASSUME NEW S, IsFiniteSet(S), NEW f, NEW T,
         T = {f[x] : x \in S}, \A x, y \in S : f[x] = f[y] => x = y
  PROVE  IsFiniteSet(T) /\ Cardinality(T) = Cardinality(S)
<1> DEFINE g == [x \in S |-> f[x]]
<1>1. g \in Bijection(S, T)
  BY DEF Bijection, Injection, Surjection, IsInjective
<1>2. ExistsBijection(S, T)
  BY <1>1 DEF ExistsBijection
<1>3. QED
  BY <1>2, FS_Bijection

-----------------------------------------------------------------------------
(* The naturals up to a bound. *)

(* A set of naturals that is not empty has a least element, which Min returns. *)
LEMMA MinOf ==
  ASSUME NEW T, T \subseteq Nat, T # {}
  PROVE  Min(T) \in T /\ \A y \in T : Min(T) <= y
<1> DEFINE R == {p \in Nat \X Nat : p[1] < p[2]}
<1>1. IsWellFoundedOn(R, Nat)
  BY NatLessThanWellFounded, Zenon DEF OpToRel
<1>2. PICK x \in T : \A y \in T : ~(<<y, x>> \in R)
  <2> HIDE DEF R
  <2> QED BY <1>1, WFMin
<1>3. \A y \in T : x <= y
  <2>1. TAKE y \in T
  <2>2. x \in Nat /\ y \in Nat
    OBVIOUS
  <2>3. <<y, x>> \in R <=> y < x
    BY <2>2
  <2> QED BY <1>2, <2>2, <2>3
<1> QED BY <1>3 DEF Min

(* Induction up to n, over the set of the numbers at which a formula holds. *)
LEMMA Upto ==
  ASSUME NEW n \in Nat, NEW T, 0 \in T, \A i \in 1 .. n : i - 1 \in T => i \in T
  PROVE  0 .. n \subseteq T
<1> DEFINE bad == (0 .. n) \ T
<1> SUFFICES ASSUME bad # {} PROVE FALSE
  OBVIOUS
<1>1. bad \subseteq Nat
  OBVIOUS
<1>2. Min(bad) \in bad /\ \A y \in bad : Min(bad) <= y
  <2> HIDE DEF bad
  <2> QED BY <1>1, MinOf
<1> DEFINE k == Min(bad)
<1>3. k \in 0 .. n /\ k \notin T /\ k # 0
  BY <1>2
<1>4. k - 1 \notin bad
  BY <1>2, <1>3
<1> HIDE DEF k
<1>5. k \in 1 .. n /\ k - 1 \in 0 .. n
  BY <1>3
<1> QED BY <1>3, <1>4, <1>5

\* A function from 0 .. n into S that starts at x and takes step i by F[i].
Defined(n, S, x, F) ==
  \E g \in [0 .. n -> S] : g[0] = x /\ \A i \in 1 .. n : g[i] = F[i][g[i - 1]]

(* A recursive function up to n has a value. *)
LEMMA Recursion ==
  ASSUME NEW n \in Nat, NEW S, NEW x \in S, NEW F \in [1 .. n -> [S -> S]]
  PROVE  Defined(n, S, x, F)
<1> DEFINE T == {k \in 0 .. n : \E g \in [0 .. k -> S] : g[0] = x /\ \A i \in 1 .. k : g[i] = F[i][g[i - 1]]}
<1>1. 0 \in T
  <2> DEFINE g == [i \in 0 .. 0 |-> x]
  <2>1. g \in [0 .. 0 -> S] /\ g[0] = x /\ 1 .. 0 = {} /\ 0 \in 0 .. n
    OBVIOUS
  <2> HIDE DEF g
  <2> QED BY <2>1
<1>2. ASSUME NEW k \in 1 .. n, k - 1 \in T PROVE k \in T
  <2>1. PICK g \in [0 .. k - 1 -> S] : g[0] = x /\ \A i \in 1 .. k - 1 : g[i] = F[i][g[i - 1]]
    BY <1>2
  <2> DEFINE h == [i \in 0 .. k |-> IF i = k THEN F[k][g[k - 1]] ELSE g[i]]
  <2>2. k \in Nat /\ k # 0 /\ k - 1 \in 0 .. k - 1
    OBVIOUS
  <2>3. F[k][g[k - 1]] \in S
    <3>1. g[k - 1] \in S
      BY <2>2
    <3> QED BY <3>1
  <2>4. h \in [0 .. k -> S]
    BY <2>2, <2>3
  <2>5. h[0] = x
    BY <2>1, <2>2
  <2>6. ASSUME NEW i \in 1 .. k PROVE h[i] = F[i][h[i - 1]]
    <3>1. h[i - 1] = g[i - 1]
      BY <2>2
    <3>2. CASE i = k
      BY <3>1, <3>2
    <3>3. CASE i # k
      <4>1. i \in 1 .. k - 1 /\ h[i] = g[i]
        BY <3>3
      <4> QED BY <2>1, <3>1, <4>1
    <3> QED BY <3>2, <3>3
  <2> HIDE DEF h
  <2>7. k \in 0 .. n
    OBVIOUS
  <2> QED BY <2>4, <2>5, <2>6, <2>7
<1> HIDE DEF T
<1>3. 0 .. n \subseteq T
  BY <1>1, <1>2, Upto
<1>4. n \in T
  BY <1>3
<1> QED BY <1>4 DEF T, Defined
-----------------------------------------------------------------------------
(* What of a sequence is in a set. *)

\* r has the elements of s that are in S, and no other, in their order.
Picks(r, s, S) ==
  /\ \A i \in DOMAIN r : r[i] \in S /\ \E j \in DOMAIN s : s[j] = r[i]
  /\ \A j \in DOMAIN s : s[j] \in S => \E i \in DOMAIN r : r[i] = s[j]
  /\ \A i, k \in DOMAIN r : i < k => \E j, l \in DOMAIN s : j < l /\ s[j] = r[i] /\ s[l] = r[k]

(* Appending to the recursion of Among either adds s[i] or adds nothing. *)
LEMMA AmongIs ==
  ASSUME NEW T, NEW s \in Seq(T), NEW S
  PROVE  Among(s, S) \in Seq(T) /\ Picks(Among(s, S), s, S)
<1> DEFINE n == Len(s)
           D == Seq(T)
           F == [i \in 1 .. n |-> [r \in D |-> IF s[i] \in S THEN Append(r, s[i]) ELSE r]]
           Is(g) == g = [i \in 0 .. n |-> IF i = 0 THEN <<>>
                                          ELSE IF s[i] \in S THEN Append(g[i - 1], s[i]) ELSE g[i - 1]]
           kept == CHOOSE g : Is(g)
<1>0. n \in Nat /\ \A i \in 1 .. n : s[i] \in T
  OBVIOUS
<1>1. <<>> \in D
  OBVIOUS
<1>2. F \in [1 .. n -> [D -> D]] /\ \A i \in 1 .. n : \A r \in D :
        F[i][r] = IF s[i] \in S THEN Append(r, s[i]) ELSE r
  <2>1. \A i \in 1 .. n : \A r \in D : (IF s[i] \in S THEN Append(r, s[i]) ELSE r) \in D
    BY <1>0
  <2> HIDE DEF D, n
  <2> QED BY <2>1
<1> HIDE DEF F, D, n
<1>3. PICK g \in [0 .. n -> D] : g[0] = <<>> /\ \A i \in 1 .. n : g[i] = F[i][g[i - 1]]
  <2>1. Defined(n, D, <<>>, F)
    BY <1>0, <1>1, <1>2, Recursion
  <2> QED BY <2>1 DEF Defined
<1>4. Is(g)
  <2>1. \A i \in 0 .. n : g[i] = IF i = 0 THEN <<>>
                                 ELSE IF s[i] \in S THEN Append(g[i - 1], s[i]) ELSE g[i - 1]
    <3> TAKE i \in 0 .. n
    <3>1. CASE i = 0
      BY <1>3, <3>1
    <3>2. CASE i # 0
      <4>1. i \in 1 .. n /\ i - 1 \in 0 .. n
        BY <1>0, <3>2
      <4>2. g[i] = F[i][g[i - 1]] /\ g[i - 1] \in D
        BY <1>3, <4>1
      <4> QED BY <1>2, <3>2, <4>1, <4>2
    <3> QED BY <3>1, <3>2
  <2> QED BY <1>3, <2>1
<1>5. Among(s, S) = kept[n]
  BY DEF Among, n
<1> HIDE DEF Is
<1>6. Is(kept)
  BY <1>4
<1>7. Is(kept) => \A i \in 0 .. n : kept[i] = IF i = 0 THEN <<>>
                    ELSE IF s[i] \in S THEN Append(kept[i - 1], s[i]) ELSE kept[i - 1]
  <2> HIDE DEF kept
  <2> QED BY DEF Is
<1> HIDE DEF kept
<1>8. \A i \in 0 .. n : kept[i] = IF i = 0 THEN <<>>
        ELSE IF s[i] \in S THEN Append(kept[i - 1], s[i]) ELSE kept[i - 1]
  BY <1>6, <1>7
<1> DEFINE Right(i) == /\ kept[i] \in D
                       /\ \A a \in DOMAIN kept[i] : kept[i][a] \in S /\ \E j \in 1 .. i : s[j] = kept[i][a]
                       /\ \A j \in 1 .. i : s[j] \in S => \E a \in DOMAIN kept[i] : kept[i][a] = s[j]
                       /\ \A a, b \in DOMAIN kept[i] : a < b =>
                            \E j, l \in 1 .. i : j < l /\ s[j] = kept[i][a] /\ s[l] = kept[i][b]
           G == {i \in 0 .. n : Right(i)}
<1>9. 0 \in G
  BY <1>0, <1>1, <1>8
<1>10. ASSUME NEW i \in 1 .. n, i - 1 \in G PROVE i \in G
  <2>0. Right(i - 1) /\ i \in 0 .. n /\ i - 1 \in 0 .. n /\ i # 0
    BY <1>0, <1>10
  <2> DEFINE r == kept[i - 1]
             t == kept[i]
  <2>1. r \in Seq(T)
    BY <2>0 DEF D
  <2>2. t = IF s[i] \in S THEN Append(r, s[i]) ELSE r
    BY <1>8, <2>0
  <2>3. \A j \in 1 .. i : j = i \/ j \in 1 .. i - 1
    BY <1>0
  <2>4. \A j \in 1 .. i - 1 : j \in 1 .. i
    BY <1>0
  <2>7. i \in 1 .. i
    BY <1>0
  <2>8. /\ \A a \in DOMAIN r : r[a] \in S /\ \E j \in 1 .. i - 1 : s[j] = r[a]
        /\ \A j \in 1 .. i - 1 : s[j] \in S => \E a \in DOMAIN r : r[a] = s[j]
        /\ \A a, b \in DOMAIN r : a < b =>
             \E j, l \in 1 .. i - 1 : j < l /\ s[j] = r[a] /\ s[l] = r[b]
    BY <2>0
  <2> HIDE DEF r, t
  <2>5. CASE s[i] \in S
    <3>1. t = Append(r, s[i]) /\ t \in Seq(T) /\ Len(t) = Len(r) + 1
      BY <1>0, <2>1, <2>2, <2>5
    <3>2. \A a \in DOMAIN r : a \in DOMAIN t /\ t[a] = r[a]
      BY <2>1, <3>1
    <3>3. Len(t) \in DOMAIN t /\ t[Len(t)] = s[i]
      BY <2>1, <3>1
    <3>4. \A a \in DOMAIN t : a = Len(t) \/ a \in DOMAIN r
      BY <2>1, <3>1
    <3>5. \A a \in DOMAIN t : t[a] \in S /\ \E j \in 1 .. i : s[j] = t[a]
      BY <2>4, <2>5, <2>7, <2>8, <3>2, <3>3, <3>4
    <3>6. \A j \in 1 .. i : s[j] \in S => \E a \in DOMAIN t : t[a] = s[j]
      BY <2>3, <2>8, <3>2, <3>3
    <3>7. ASSUME NEW a \in DOMAIN t, NEW b \in DOMAIN t, a < b
          PROVE  \E j, l \in 1 .. i : j < l /\ s[j] = t[a] /\ s[l] = t[b]
      <4>1. a \in DOMAIN r
        BY <2>1, <3>1, <3>7
      <4>2. CASE b \in DOMAIN r
        BY <2>4, <2>8, <3>2, <3>7, <4>1, <4>2
      <4>3. CASE b = Len(t)
        <5>1. PICK j \in 1 .. i - 1 : s[j] = r[a]
          BY <2>8, <4>1
        <5>2. j < i /\ j \in 1 .. i
          BY <1>0
        <5> QED BY <2>7, <3>2, <3>3, <4>1, <4>3, <5>1, <5>2
      <4> QED BY <3>4, <4>2, <4>3
    <3> QED BY <2>0, <3>1, <3>5, <3>6, <3>7 DEF D, t
  <2>6. CASE s[i] \notin S
    <3>1. t = r
      BY <2>2, <2>6
    <3>2. \A a \in DOMAIN t : t[a] \in S /\ \E j \in 1 .. i : s[j] = t[a]
      BY <2>4, <2>8, <3>1
    <3>3. \A j \in 1 .. i : s[j] \in S => \E a \in DOMAIN t : t[a] = s[j]
      BY <2>3, <2>6, <2>8, <3>1
    <3>4. \A a, b \in DOMAIN t : a < b => \E j, l \in 1 .. i : j < l /\ s[j] = t[a] /\ s[l] = t[b]
      BY <2>4, <2>8, <3>1
    <3> QED BY <2>0, <2>1, <3>1, <3>2, <3>3, <3>4 DEF D, t
  <2> QED BY <2>5, <2>6
<1>11. 0 .. n \subseteq G
  <2> HIDE DEF G
  <2> QED BY <1>0, <1>9, <1>10, Upto
<1>12. Right(n)
  BY <1>0, <1>11
<1> DEFINE r == kept[n]
<1>13. /\ r \in Seq(T)
       /\ \A a \in DOMAIN r : r[a] \in S /\ \E j \in 1 .. n : s[j] = r[a]
       /\ \A j \in 1 .. n : s[j] \in S => \E a \in DOMAIN r : r[a] = s[j]
       /\ \A a, b \in DOMAIN r : a < b => \E j, l \in 1 .. n : j < l /\ s[j] = r[a] /\ s[l] = r[b]
  BY <1>12 DEF D
<1>14. DOMAIN s = 1 .. n
  BY DEF n
<1>15. Among(s, S) = r
  BY <1>5
<1> HIDE DEF r, Right, G
<1>16. \A a \in DOMAIN r : r[a] \in S /\ \E j \in DOMAIN s : s[j] = r[a]
  BY <1>13, <1>14
<1>17. \A j \in DOMAIN s : s[j] \in S => \E a \in DOMAIN r : r[a] = s[j]
  BY <1>13, <1>14
<1>18. ASSUME NEW a \in DOMAIN r, NEW b \in DOMAIN r, a < b
       PROVE  \E j, l \in DOMAIN s : j < l /\ s[j] = r[a] /\ s[l] = r[b]
  <2>1. PICK j \in 1 .. n, l \in 1 .. n : j < l /\ s[j] = r[a] /\ s[l] = r[b]
    BY <1>13, <1>18
  <2> QED BY <1>14, <2>1
<1>19. Picks(r, s, S)
  BY <1>16, <1>17, <1>18 DEF Picks
<1> QED BY <1>13, <1>15, <1>19
=============================================================================
