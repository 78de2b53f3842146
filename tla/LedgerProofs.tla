---------------------------- MODULE LedgerProofs ----------------------------
(***************************************************************************)
(* The ledger of the UTXO engine, over every sequence of blocks, in two    *)
(* parts.                                                                  *)
(*                                                                         *)
(* Karma: the counters of the records agree with the boxes, no block       *)
(* creates or destroys karma, a body spends no more of an identity's karma *)
(* than was effective before it, and a lapsed voucher's stakes leave at    *)
(* the next block's end.  The order is that of the actions: transactions   *)
(* that move no stake, casts, withdrawals, invites, the start of a block,  *)
(* its end.                                                                *)
(*                                                                         *)
(* Credits, for every emission curve, coinbase split and backer table:     *)
(* they are conserved, the backers' pool is solvent, and the miner gets    *)
(* its floor.  Bags come first, since two credit boxes may agree in every  *)
(* field; then the bounds of each rounded share of the coinbase; then the  *)
(* actions one by one.                                                     *)
(***************************************************************************)
EXTENDS KarmaInvariant, SumProofs, TLAPS

(* What KarmaAssumption gives, and the types of the constants. *)
LEMMA Constants ==
  /\ IsFiniteSet(Ids) /\ Committee \subseteq Ids
  /\ GenesisKarma \in Nat /\ Supply \in Nat /\ KarmaMinimum \in Nat /\ DecayAmount \in Nat
  /\ StaleThreshold \in Nat /\ LikeCost \in Nat /\ ReplyShare \in Nat /\ Probation \in Nat
  /\ Cooldown \in Nat /\ CastWindow \in Nat /\ BarMultiplier \in Nat /\ LikesMultiplier \in Nat
  /\ BondMin \in Nat /\ MaxHeight \in Nat /\ MaxBody \in Nat /\ MaxTxs \in Nat
  /\ DecayInterval \in Nat \ {0} /\ LikesPerPayout \in Nat \ {0} /\ VestPerLikes \in Nat \ {0}
  /\ ThreadPrice \in Nat \ {0} /\ BurnPrice \in Nat \ {0} /\ VouchAmount \in Nat \ {0}
  /\ MaxEscrowReturns \in Nat \ {0} /\ MaxLapses \in Nat \ {0} /\ MaxBondSettlements \in Nat \ {0}
  /\ ReplyPrice \in Nat /\ ReplyShare <= ReplyPrice
  /\ BondMax \in Nat /\ BondMin <= BondMax /\ BondAmounts \subseteq Nat
  /\ Cardinality(Committee) \in Nat /\ Cardinality(Committee) * GenesisKarma <= Supply
<1>1. IsFiniteSet(Committee)
  BY KarmaAssumption, FS_Subset DEF KarmaAssumption
<1>2. QED
  BY <1>1, KarmaAssumption, FS_CardinalityType DEF KarmaAssumption

(* The decay clock of a record is a height, and settling moves it to one. *)
LEMMA Clock ==
  ASSUME NEW r \in Records, NEW h \in Nat
  PROVE  /\ clockStart(r) \in Nat /\ owedPeriods(r, h) \in Int
         /\ owedPeriods(r, h) > 0 => decaySettledThrough(r, h) \in Nat
<1>1. clockStart(r) \in Nat
  BY Constants DEF clockStart, Greater, Records
<1>2. owedPeriods(r, h) \in Int
  BY <1>1, Constants DEF owedPeriods
<1>3. \A a, b \in Nat : a * b \in Nat
  OBVIOUS
<1>4. QED
  BY <1>1, <1>2, <1>3, Constants DEF decaySettledThrough

(* Decay takes some of an identity's karma, never more than all of it. *)
LEMMA Effective ==
  ASSUME NEW face \in Nat, NEW r \in Records, NEW h \in Nat
  PROVE  /\ effectiveKarma(face, r, h) \in 0 .. face
         /\ karmaOwed(face, r, h) = face - effectiveKarma(face, r, h)
         /\ karmaOwed(face, r, h) \in 0 .. face
<1>1. owedPeriods(r, h) \in Int
  BY Clock
<1>2. owedPeriods(r, h) > 0 => owedPeriods(r, h) * DecayAmount \in Nat
  <2>1. \A a, b \in Nat : a * b \in Nat
    OBVIOUS
  <2> QED BY <1>1, <2>1, Constants
<1>3. Lesser(face, KarmaMinimum) \in 0 .. face
  BY Constants DEF Lesser
<1>4. effectiveKarma(face, r, h) \in 0 .. face
  BY <1>1, <1>2, <1>3 DEF effectiveKarma, Greater
<1>5. QED
  BY <1>4 DEF karmaOwed

(* The membership bar is a count of at least one vouch. *)
LEMMA Bars ==
  ASSUME NEW n \in Nat
  PROVE  membershipBar(n) \in Nat /\ membershipBar(n) >= 1 /\ memberLikesBar(n) \in Nat
<1> DEFINE k == n * BarMultiplier
           S == {m \in 0 .. k : m * m * m <= k}
<1>1. k \in Nat
  BY Constants
<1> HIDE DEF k
<1>2. 0 \in S
  BY <1>1
<1>3. PICK m \in S : \A y \in S : m >= y
  BY <1>1, <1>2, GreatestBelow
<1>4. icbrt(k) \in S
  BY <1>3 DEF icbrt, Max
<1>5. membershipBar(n) \in Nat /\ membershipBar(n) >= 1
  BY <1>1, <1>4 DEF membershipBar, Greater, k
<1>6. \A a, b \in Nat : a * b \in Nat
  OBVIOUS
<1>7. QED
  BY <1>5, <1>6, Constants DEF memberLikesBar

(* A total of amounts is an amount. *)
LEMMA Totals ==
  ASSUME NEW f \in [Ids -> Nat]
  PROVE  Total(f) \in Nat
BY Constants, SumNat DEF Total

(* Changing one identity's amount changes the total by as much. *)
LEMMA TotalAt ==
  ASSUME NEW f \in [Ids -> Nat], NEW g \in [Ids -> Nat], NEW i \in Ids,
         \A k \in Ids \ {i} : g[k] = f[k]
  PROVE  Total(g) = Total(f) - f[i] + g[i]
<1>1. SumOver(g, Ids) = SumOver(f, Ids) - f[i] + g[i]
  <2>1. \A x \in Ids : f[x] \in Int /\ g[x] \in Int
    OBVIOUS
  <2> QED BY <2>1, Constants, SumAt
<1>2. QED
  BY <1>1 DEF Total

(* A karma transaction takes its spend, and nothing else, out of its signer's boxes. *)
LEMMA Spend ==
  ASSUME own \in [Ids -> Nat], inc \in [Ids -> Nat], NEW i \in Ids, NEW w \in BOOLEAN,
         NEW spend \in Nat, NEW isPost \in BOOLEAN, KarmaSpend(i, w, spend, isPost)
  PROVE  /\ own' \in [Ids -> Nat] /\ inc' \in [Ids -> Nat]
         /\ \A k \in Ids \ {i} : own'[k] = own[k] /\ inc'[k] = inc[k]
         /\ own'[i] + inc'[i] = own[i] + inc[i] - spend
         /\ own[i] + inc[i] > 0
         /\ Total(own') + Total(inc') = Total(own) + Total(inc) - spend
<1> DEFINE inputs == own[i] + (IF w THEN inc[i] ELSE 0)
<1>1. inputs \in Nat /\ inputs > 0 /\ inputs >= spend /\ inputs - spend \in Nat
  BY DEF KarmaSpend
<1>2. own' = [own EXCEPT ![i] = inputs - spend]
  BY DEF KarmaSpend
<1>3. inc' = IF w THEN [inc EXCEPT ![i] = 0] ELSE inc
  BY DEF KarmaSpend
<1>4. own' \in [Ids -> Nat] /\ inc' \in [Ids -> Nat]
  BY <1>1, <1>2, <1>3
<1>5. \A k \in Ids \ {i} : own'[k] = own[k] /\ inc'[k] = inc[k]
  BY <1>2, <1>3
<1>6. own'[i] = inputs - spend /\ inc'[i] = IF w THEN 0 ELSE inc[i]
  BY <1>2, <1>3
<1> HIDE DEF inputs
<1>7. Total(own') = Total(own) - own[i] + own'[i]
  BY <1>4, <1>5, TotalAt
<1>8. Total(inc') = Total(inc) - inc[i] + inc'[i]
  BY <1>4, <1>5, TotalAt
<1>9. Total(own) \in Nat /\ Total(inc) \in Nat /\ own[i] \in Nat /\ inc[i] \in Nat
  BY Totals
<1> USE DEF inputs
<1>10. QED
  BY <1>1, <1>4, <1>5, <1>6, <1>7, <1>8, <1>9

-----------------------------------------------------------------------------
(* A transaction that moves no standing *)

\* What a transaction that moves no stake leaves of the body's captures.
Kept(b, c) ==
  /\ c.pre = b.pre /\ c.escrows = b.escrows /\ c.lapsed = b.lapsed
  /\ c.invited = b.invited /\ c.touched = b.touched /\ c.was = b.was

\* Two records of an identity with the same standing.
SameStanding(r, s) ==
  s.since = r.since /\ s.bar = r.bar /\ s.vouched = r.vouched /\ s.invited = r.invited

\* A transaction that moves no stake and nobody's standing; an identity that gets a record
\* by it held karma to spend.
Quiet ==
  /\ body \in OpenBodies /\ body' \in OpenBodies /\ Kept(body, body')
  /\ UNCHANGED <<height, vouches, escrows, bonds, carry, pool, members>>
  /\ own' \in [Ids -> Nat] /\ inc' \in [Ids -> Nat]
  /\ \A i \in Ids : own[i] + inc[i] = 0 => own'[i] + inc'[i] = 0
  /\ known' \in SUBSET Ids /\ known \subseteq known'
  /\ \A i \in known' \ known : own[i] + inc[i] > 0
  /\ rec' \in [Ids -> Records] /\ \A i \in Ids : SameStanding(rec[i], rec'[i])

\* The price boxes and the markers of the body grew by a spend.
Priced(b, c, spend) == c.price + Total(c.marks) = b.price + Total(b.marks) + spend

\* What left the signer's boxes is in the price boxes and the markers.
Balanced ==
  body'.price + Total(body'.marks) + Total(own') + Total(inc')
    = body.price + Total(body.marks) + Total(own) + Total(inc)

(* An open body is one of the typed ones. *)
LEMMA OpenBody ==
  ASSUME BodyOK, body.open
  PROVE  body \in OpenBodies
BY DEF BodyOK, NoBody

(* Recording a karma transaction changes neither captures nor amounts. *)
LEMMA RecordedBody ==
  ASSUME body \in OpenBodies, NEW i \in Ids
  PROVE  /\ Recorded(body, i) \in OpenBodies /\ Kept(body, Recorded(body, i))
         /\ Recorded(body, i).price = body.price /\ Recorded(body, i).marks = body.marks
         /\ Recorded(body, i).likes = body.likes /\ Recorded(body, i).mlikes = body.mlikes
         /\ Recorded(body, i).withdrawn = body.withdrawn
<1>1. body.size + 1 \in Nat
  BY DEF OpenBodies
<1>2. Recorded(body, i) \in OpenBodies
  BY <1>1, Zenon DEF Recorded, OpenBodies
<1>3. QED
  BY <1>2 DEF Recorded, OpenBodies, Kept

(* A spend that goes to the price box (Thread, Burn). *)
LEMMA PriceAlone ==
  ASSUME NEW b \in OpenBodies, NEW c \in OpenBodies, NEW x \in Nat,
         c.price = b.price + x, c.marks = b.marks
  PROVE  Priced(b, c, x)
<1>1. b.price \in Nat /\ Total(b.marks) \in Nat
  BY Totals DEF OpenBodies
<1>2. QED
  BY <1>1 DEF Priced

(* A spend split between the price box and an author's marker (Reply, Like). *)
LEMMA PriceAndMark ==
  ASSUME NEW b \in OpenBodies, NEW c \in OpenBodies, NEW x \in Nat, NEW a \in Ids, NEW q \in Nat,
         c.price = b.price + x, c.marks = [b.marks EXCEPT ![a] = b.marks[a] + q]
  PROVE  Priced(b, c, x + q)
<1>1. b.price \in Nat /\ Total(b.marks) \in Nat /\ b.marks[a] \in Nat
      /\ b.marks \in [Ids -> Nat] /\ c.marks \in [Ids -> Nat]
  BY Totals DEF OpenBodies
<1>2. (\A k \in Ids \ {a} : c.marks[k] = b.marks[k]) /\ c.marks[a] = b.marks[a] + q
  BY <1>1
<1>3. Total(c.marks) = Total(b.marks) - b.marks[a] + c.marks[a]
  BY <1>1, <1>2, TotalAt
<1>4. QED
  BY <1>1, <1>2, <1>3 DEF Priced

(* A transaction that spends its signer's karma into price and markers is quiet. *)
LEMMA SpendStep ==
  ASSUME TypeOK, body \in OpenBodies, NEW i \in Ids, NEW w \in BOOLEAN, NEW spend \in Nat,
         NEW isPost \in BOOLEAN, KarmaSpend(i, w, spend, isPost),
         body' \in OpenBodies, Kept(body, body'), Priced(body, body', spend),
         UNCHANGED <<height, vouches, escrows, bonds, carry, pool, members>>,
         liked' \in SUBSET (Posts \X Ids), names' \in SUBSET (Names \X Ids),
         known' \in {known, known \cup {i}},
         rec' \in [Ids -> Records], \A k \in Ids : SameStanding(rec[k], rec'[k]),
         txs' = txs + 1, txs < MaxTxs
  PROVE  Quiet /\ TypeOK' /\ Balanced
<1>1. /\ own' \in [Ids -> Nat] /\ inc' \in [Ids -> Nat]
      /\ \A k \in Ids \ {i} : own'[k] = own[k] /\ inc'[k] = inc[k]
      /\ own[i] + inc[i] > 0
      /\ Total(own') + Total(inc') = Total(own) + Total(inc) - spend
  BY Spend DEF TypeOK
<1>2. Quiet
  BY <1>1 DEF Quiet, TypeOK
<1>3. TypeOK'
  <2>1. txs' \in 0 .. MaxTxs
    BY Constants DEF TypeOK
  <2>2. body'.open \in BOOLEAN
    BY DEF OpenBodies
  <2>3. known' \subseteq Ids
    BY DEF TypeOK
  <2> QED BY <1>1, <2>1, <2>2, <2>3 DEF TypeOK
<1>4. Balanced
  <2>1. Total(own) \in Nat /\ Total(inc) \in Nat /\ Total(own') \in Nat /\ Total(inc') \in Nat
    BY <1>1, Totals DEF TypeOK
  <2>2. body.price \in Nat /\ Total(body.marks) \in Nat /\ body'.price \in Nat /\ Total(body'.marks) \in Nat
    BY Totals DEF OpenBodies
  <2> QED BY <1>1, <2>1, <2>2 DEF Balanced, Priced
<1>5. QED
  BY <1>2, <1>3, <1>4

(* A thread is quiet: its price goes to the pool. *)
LEMMA ThreadStep ==
  ASSUME TypeOK, BodyOK, PostsOK, NEW i \in Ids, NEW w \in BOOLEAN, NEW p \in Posts,
         Thread(i, w, p)
  PROVE  Quiet /\ TypeOK' /\ PostsOK' /\ Balanced
<1>1. body \in OpenBodies
  BY OpenBody DEF Thread, InBody
<1> DEFINE b == Recorded(body, i)
<1>2. b \in OpenBodies /\ Kept(body, b) /\ b.price = body.price /\ b.marks = body.marks
  BY <1>1, RecordedBody
<1>3. body' = [b EXCEPT !.price = b.price + ThreadPrice]
  BY DEF Thread
<1>4. b.price + ThreadPrice \in Nat
  BY <1>1, <1>2, Constants DEF OpenBodies
<1> HIDE DEF b
<1>5. body' \in OpenBodies
  BY <1>2, <1>3, <1>4, Zenon DEF OpenBodies
<1>6. Kept(body, body') /\ body'.price = body.price + ThreadPrice /\ body'.marks = body.marks
  BY <1>2, <1>3 DEF OpenBodies, Kept
<1>7. Priced(body, body', ThreadPrice)
  BY <1>1, <1>5, <1>6, PriceAlone, Constants
<1>8. KarmaSpend(i, w, ThreadPrice, TRUE) /\ ThreadPrice \in Nat /\ height \in Nat
  <2>1. KarmaSpend(i, w, ThreadPrice, TRUE)
    BY DEF Thread
  <2>2. ThreadPrice \in Nat /\ height \in Nat
    BY Constants DEF TypeOK
  <2> QED BY <2>1, <2>2
<1>9. /\ UNCHANGED <<height, vouches, escrows, bonds, carry, pool, members, liked, names>>
      /\ posts' = [posts EXCEPT ![p] = [author |-> i, at |-> height, live |-> TRUE]]
      /\ rec' = [rec EXCEPT ![i].act = height] /\ known' = known \cup {i}
      /\ txs' = txs + 1 /\ txs < MaxTxs
  BY DEF Thread, InBody
<1>10. rec' \in [Ids -> Records] /\ \A k \in Ids : SameStanding(rec[k], rec'[k])
  BY <1>8, <1>9 DEF TypeOK, Records, SameStanding
<1>11. Quiet /\ TypeOK' /\ Balanced
  <2>1. liked' \in SUBSET (Posts \X Ids) /\ names' \in SUBSET (Names \X Ids)
    BY <1>9 DEF TypeOK
  <2> QED BY <1>1, <1>5, <1>6, <1>7, <1>8, <1>9, <1>10, <2>1, SpendStep
<1>12. PostsOK'
  BY <1>8, <1>9 DEF PostsOK
<1>13. QED
  BY <1>11, <1>12

(* A reply is quiet: its price is shared between the pool and the parent's author. *)
LEMMA ReplyStep ==
  ASSUME TypeOK, BodyOK, PostsOK, NEW i \in Ids, NEW w \in BOOLEAN, NEW p \in Posts,
         NEW parent \in Posts, Reply(i, w, p, parent)
  PROVE  Quiet /\ TypeOK' /\ PostsOK' /\ Balanced
<1>1. body \in OpenBodies
  BY OpenBody DEF Reply, InBody
<1> DEFINE b == Recorded(body, i)
           a == posts[parent].author
           x == ReplyPrice - ReplyShare
<1>2. b \in OpenBodies /\ Kept(body, b) /\ b.price = body.price /\ b.marks = body.marks
  BY <1>1, RecordedBody
<1>3. a \in Ids
  BY DEF Reply, PostsOK
<1>4. body' = [b EXCEPT !.price = b.price + x, !.marks[a] = b.marks[a] + ReplyShare]
  BY DEF Reply
<1>5. x \in Nat /\ b.price + x \in Nat /\ b.marks[a] + ReplyShare \in Nat
  <2> HIDE DEF b, a
  <2> QED BY <1>2, <1>3, Constants DEF OpenBodies
<1> HIDE DEF b, a, x
<1>6. body' \in OpenBodies
  BY <1>2, <1>3, <1>4, <1>5, Zenon DEF OpenBodies
<1>7. /\ Kept(body, body') /\ body'.price = body.price + x
      /\ body'.marks = [body.marks EXCEPT ![a] = body.marks[a] + ReplyShare]
  BY <1>2, <1>4 DEF OpenBodies, Kept
<1>8. Priced(body, body', x + ReplyShare)
  BY <1>1, <1>3, <1>5, <1>6, <1>7, PriceAndMark, Constants
<1>9. Priced(body, body', ReplyPrice)
  <2>1. x + ReplyShare = ReplyPrice
    BY Constants DEF x
  <2> QED BY <1>8, <2>1
<1>10. KarmaSpend(i, w, ReplyPrice, TRUE) /\ ReplyPrice \in Nat /\ height \in Nat
  <2>1. KarmaSpend(i, w, ReplyPrice, TRUE)
    BY DEF Reply
  <2>2. ReplyPrice \in Nat /\ height \in Nat
    BY Constants DEF TypeOK
  <2> QED BY <2>1, <2>2
<1>11. /\ UNCHANGED <<height, vouches, escrows, bonds, carry, pool, members, liked, names>>
       /\ posts' = [posts EXCEPT ![p] = [author |-> i, at |-> height, live |-> TRUE]]
       /\ rec' = [rec EXCEPT ![i].act = height] /\ known' = known \cup {i}
       /\ txs' = txs + 1 /\ txs < MaxTxs
  BY DEF Reply, InBody
<1>12. rec' \in [Ids -> Records] /\ \A k \in Ids : SameStanding(rec[k], rec'[k])
  BY <1>10, <1>11 DEF TypeOK, Records, SameStanding
<1>13. Quiet /\ TypeOK' /\ Balanced
  <2>1. liked' \in SUBSET (Posts \X Ids) /\ names' \in SUBSET (Names \X Ids)
    BY <1>11 DEF TypeOK
  <2> QED BY <1>1, <1>6, <1>7, <1>9, <1>10, <1>11, <1>12, <2>1, SpendStep
<1>14. PostsOK'
  BY <1>10, <1>11 DEF PostsOK
<1>15. QED
  BY <1>13, <1>14

(* A like is quiet: its cost goes to the author's marker. *)
LEMMA LikeStep ==
  ASSUME TypeOK, BodyOK, PostsOK, NEW i \in Ids, NEW w \in BOOLEAN, NEW p \in Posts,
         Like(i, w, p)
  PROVE  Quiet /\ TypeOK' /\ PostsOK' /\ Balanced
<1>1. body \in OpenBodies
  BY OpenBody DEF Like, InBody
<1> DEFINE b == Recorded(body, i)
           a == posts[p].author
           c == [b EXCEPT !.marks[a] = b.marks[a] + LikeCost, !.likes[a] = b.likes[a] + 1]
           d == [c EXCEPT !.mlikes[a] = c.mlikes[a] + 1]
<1>2. /\ b \in OpenBodies /\ Kept(body, b) /\ b.price = body.price /\ b.marks = body.marks
  BY <1>1, RecordedBody
<1>3. a \in Ids
  BY DEF Like, PostsOK, NoPost
<1>4. body' = d \/ body' = c
  BY DEF Like
<1>5. b.marks[a] + LikeCost \in Nat /\ b.likes[a] + 1 \in Nat
  <2> HIDE DEF b, a
  <2> QED BY <1>2, <1>3, Constants DEF OpenBodies
<1>6. /\ c \in OpenBodies /\ Kept(body, c) /\ c.price = body.price
      /\ c.marks = [body.marks EXCEPT ![a] = body.marks[a] + LikeCost]
  <2> HIDE DEF b, a
  <2>1. c \in OpenBodies
    BY <1>2, <1>3, <1>5, Zenon DEF OpenBodies
  <2> QED BY <1>2, <2>1 DEF OpenBodies, Kept
<1>7. /\ d \in OpenBodies /\ Kept(body, d) /\ d.price = body.price
      /\ d.marks = [body.marks EXCEPT ![a] = body.marks[a] + LikeCost]
  <2> HIDE DEF b, a, c
  <2>0. c.mlikes[a] + 1 \in Nat
    BY <1>3, <1>6 DEF OpenBodies
  <2>1. d \in OpenBodies
    BY <1>3, <1>6, <2>0, Zenon DEF OpenBodies
  <2> QED BY <1>6, <2>1 DEF OpenBodies, Kept
<1> HIDE DEF b, a, c, d
<1>8. /\ body' \in OpenBodies /\ Kept(body, body') /\ body'.price = body.price
      /\ body'.marks = [body.marks EXCEPT ![a] = body.marks[a] + LikeCost]
  BY <1>4, <1>6, <1>7
<1>9. Priced(body, body', LikeCost)
  <2>1. body'.price = body.price + 0 /\ 0 + LikeCost = LikeCost /\ 0 \in Nat
    BY <1>1, <1>8, Constants DEF OpenBodies
  <2>2. Priced(body, body', 0 + LikeCost)
    BY <1>1, <1>3, <1>8, <2>1, PriceAndMark, Constants
  <2> QED BY <2>1, <2>2
<1>10. KarmaSpend(i, w, LikeCost, FALSE) /\ LikeCost \in Nat
  <2>1. KarmaSpend(i, w, LikeCost, FALSE)
    BY DEF Like
  <2> QED BY <2>1, Constants
<1>11. /\ UNCHANGED <<height, vouches, escrows, bonds, carry, pool, members, names, posts, rec, known>>
       /\ liked' = liked \cup {<<p, i>>}
       /\ txs' = txs + 1 /\ txs < MaxTxs
  BY DEF Like, InBody
<1>12. rec' \in [Ids -> Records] /\ \A k \in Ids : SameStanding(rec[k], rec'[k])
  BY <1>11 DEF TypeOK, SameStanding
<1>13. Quiet /\ TypeOK' /\ Balanced
  <2>1. liked' \in SUBSET (Posts \X Ids) /\ names' \in SUBSET (Names \X Ids)
    BY <1>11 DEF TypeOK
  <2> QED BY <1>1, <1>8, <1>9, <1>10, <1>11, <1>12, <2>1, SpendStep
<1>14. PostsOK'
  BY <1>11 DEF PostsOK
<1>15. QED
  BY <1>13, <1>14

(* Withdrawals, name claims and burns, and consolidations are quiet. *)
LEMMA PlainStep ==
  ASSUME TypeOK, BodyOK, PostsOK, NEW i \in Ids, NEW w \in BOOLEAN,
         \/ \E p \in Posts : Withdraw(i, w, p)
         \/ \E n \in Names : Claim(i, w, n) \/ Burn(i, w, n)
         \/ Merge(i, w)
  PROVE  Quiet /\ TypeOK' /\ PostsOK' /\ Balanced
<1>1. body \in OpenBodies
  BY OpenBody DEF Withdraw, Claim, Burn, Merge, InBody
<1> DEFINE b == Recorded(body, i)
<1>2. /\ b \in OpenBodies /\ Kept(body, b) /\ b.price = body.price /\ b.marks = body.marks
      /\ b.withdrawn = body.withdrawn
  BY <1>1, RecordedBody
<1>3. PICK x \in {0, BurnPrice} :
         /\ KarmaSpend(i, w, x, FALSE)
         /\ body' \in OpenBodies /\ Kept(body, body')
         /\ body'.price = body.price + x /\ body'.marks = body.marks
  <2>0. body.price + 0 = body.price /\ body.price + BurnPrice \in Nat
    BY <1>1, Constants DEF OpenBodies
  <2>1. ASSUME NEW p \in Posts, Withdraw(i, w, p)
        PROVE  /\ KarmaSpend(i, w, 0, FALSE) /\ body' \in OpenBodies /\ Kept(body, body')
               /\ body'.price = body.price /\ body'.marks = body.marks
    <3>1. body' = [b EXCEPT !.withdrawn = b.withdrawn \cup {p}]
      BY <2>1 DEF Withdraw
    <3>2. KarmaSpend(i, w, 0, FALSE)
      BY <2>1 DEF Withdraw
    <3> HIDE DEF b
    <3>3. body' \in OpenBodies
      BY <1>2, <3>1, Zenon DEF OpenBodies
    <3> QED BY <1>2, <3>1, <3>2, <3>3 DEF OpenBodies, Kept
  <2>2. ASSUME NEW n \in Names, Claim(i, w, n)
        PROVE  /\ KarmaSpend(i, w, 0, FALSE) /\ body' \in OpenBodies /\ Kept(body, body')
               /\ body'.price = body.price /\ body'.marks = body.marks
    BY <1>2, <2>2 DEF Claim
  <2>3. ASSUME NEW n \in Names, Burn(i, w, n)
        PROVE  /\ KarmaSpend(i, w, BurnPrice, FALSE) /\ body' \in OpenBodies /\ Kept(body, body')
               /\ body'.price = body.price + BurnPrice /\ body'.marks = body.marks
    <3>1. body' = [b EXCEPT !.price = b.price + BurnPrice]
      BY <2>3 DEF Burn
    <3>2. KarmaSpend(i, w, BurnPrice, FALSE)
      BY <2>3 DEF Burn
    <3> HIDE DEF b
    <3>3. body' \in OpenBodies
      BY <1>2, <2>0, <3>1, Zenon DEF OpenBodies
    <3> QED BY <1>2, <3>1, <3>2, <3>3 DEF OpenBodies, Kept
  <2>4. ASSUME Merge(i, w)
        PROVE  /\ KarmaSpend(i, w, 0, FALSE) /\ body' \in OpenBodies /\ Kept(body, body')
               /\ body'.price = body.price /\ body'.marks = body.marks
    <3>1. body' = [b EXCEPT !.actors = body.actors]
      BY <2>4 DEF Merge
    <3>2. KarmaSpend(i, w, 0, FALSE)
      BY <2>4 DEF Merge
    <3>4. body.actors \in SUBSET Ids
      BY <1>1 DEF OpenBodies
    <3> HIDE DEF b
    <3>3. body' \in OpenBodies
      BY <1>2, <3>1, <3>4, Zenon DEF OpenBodies
    <3> QED BY <1>2, <3>1, <3>2, <3>3 DEF OpenBodies, Kept
  <2> QED BY <2>0, <2>1, <2>2, <2>3, <2>4
<1>4. x \in Nat /\ Priced(body, body', x)
  BY <1>1, <1>3, PriceAlone, Constants
<1>5. /\ UNCHANGED <<height, vouches, escrows, bonds, carry, pool, members, posts, rec, known, liked>>
      /\ names' \in SUBSET (Names \X Ids)
      /\ txs' = txs + 1 /\ txs < MaxTxs
  <2>0. names \in SUBSET (Names \X Ids)
    BY DEF TypeOK
  <2>1. CASE \E p \in Posts : Withdraw(i, w, p)
    BY <2>0, <2>1 DEF Withdraw, InBody, recordVars
  <2>2. CASE \E n \in Names : Claim(i, w, n)
    BY <2>0, <2>2 DEF Claim, InBody
  <2>3. CASE \E n \in Names : Burn(i, w, n)
    BY <2>0, <2>3 DEF Burn, InBody
  <2>4. CASE Merge(i, w)
    BY <2>0, <2>4 DEF Merge, InBody, recordVars
  <2> QED BY <2>1, <2>2, <2>3, <2>4
<1>6. rec' \in [Ids -> Records] /\ \A k \in Ids : SameStanding(rec[k], rec'[k])
  BY <1>5 DEF TypeOK, SameStanding
<1>7. Quiet /\ TypeOK' /\ Balanced
  <2>1. liked' \in SUBSET (Posts \X Ids)
    BY <1>5 DEF TypeOK
  <2> QED BY <1>1, <1>3, <1>4, <1>5, <1>6, <2>1, SpendStep
<1>8. PostsOK'
  BY <1>5 DEF PostsOK
<1>9. QED
  BY <1>7, <1>8

(* A quiet transaction keeps every fact about standing and stakes. *)
LEMMA QuietStanding ==
  ASSUME TypeOK, Standing, Quiet
  PROVE  Standing'
<1> USE DEF Quiet, Kept
<1>0. body.open /\ body'.open
  BY DEF OpenBodies
<1>1. BoxesFinite' /\ StakesApart'
  BY DEF Standing, BoxesFinite, StakesApart
<1>2. InvitedBonds'
  BY DEF Standing, InvitedBonds
<1>3. VouchersStand'
  BY DEF Standing, VouchersStand, SameStanding, TypeOK
<1>4. SinceBounded'
  BY <1>0 DEF Standing, SinceBounded, SameStanding
<1>5. Young'
  <2> SUFFICES ASSUME height' = 0 \/ (height' = 1 /\ body'.open)
               PROVE  /\ known' = Committee
                      /\ \A i \in Ids \ Committee : own'[i] = 0 /\ inc'[i] = 0
                      /\ \A i \in Committee : rec'[i].since > 0
    BY DEF Young
  <2>1. /\ known = Committee
        /\ \A i \in Ids \ Committee : own[i] = 0 /\ inc[i] = 0
        /\ \A i \in Committee : rec[i].since > 0
    BY <1>0 DEF Standing, Young
  <2>2. \A i \in Ids \ Committee : own'[i] = 0 /\ inc'[i] = 0
    BY <2>1
  <2>3. known' = Committee
    <3>1. ASSUME NEW k \in known' \ known
          PROVE  k \in Committee
      <4>1. k \in Ids /\ own[k] + inc[k] > 0
        OBVIOUS
      <4> QED BY <2>1, <4>1
    <3> QED BY <2>1, <3>1
  <2>4. \A i \in Committee : rec'[i].since > 0
    BY <2>1, Constants DEF SameStanding
  <2> QED BY <2>2, <2>3, <2>4
<1>6. UnknownStandNot'
  BY DEF Standing, UnknownStandNot, SameStanding
<1>7. StandingKept'
  BY <1>0 DEF Standing, StandingKept, SameStanding
<1>8. MembersCounted'
  BY <1>0 DEF Standing, MembersCounted
<1>9. LapsesTaken'
  BY <1>0 DEF Standing, LapsesTaken
<1>10. VouchCountsExact'
  <2>1. ASSUME NEW t \in Ids
        PROVE  Counted(vouches', rec', t) = Counted(vouches, rec, t)
    BY DEF Counted, isVouchCounted, SameStanding, TypeOK
  <2>2. \A t \in Ids : rec'[t].vouched = rec[t].vouched
    BY DEF SameStanding
  <2> QED BY <2>1, <2>2 DEF Standing, VouchCountsExact
<1>11. BondsHaveInvitees'
  BY DEF Standing, BondsHaveInvitees, SameStanding, TypeOK
<1>12. QED
  BY <1>1, <1>2, <1>3, <1>4, <1>5, <1>6, <1>7, <1>8, <1>9, <1>10, <1>11 DEF Standing

-----------------------------------------------------------------------------
(* The transactions that move standing *)

(* Touching a target notes, the first time, whether it was a member. *)
LEMMA TouchedBody ==
  ASSUME NEW b \in OpenBodies, NEW t \in Ids
  PROVE  /\ Touch(b, {t}) \in OpenBodies
         /\ Touch(b, {t}).pre = b.pre /\ Touch(b, {t}).escrows = b.escrows
         /\ Touch(b, {t}).lapsed = b.lapsed /\ Touch(b, {t}).invited = b.invited
         /\ Touch(b, {t}).price = b.price /\ Touch(b, {t}).marks = b.marks
         /\ Touch(b, {t}).touched = b.touched \cup {t}
         /\ \A k \in Ids : k \in Touch(b, {t}).was
                             <=> k \in b.was \/ (k = t /\ t \notin b.touched /\ isMember(rec[t]))
<1> DEFINE new == {x \in {t} \ b.touched : isMember(rec[x])}
<1>1. new \subseteq Ids
  OBVIOUS
<1>2. Touch(b, {t}) = [b EXCEPT !.touched = b.touched \cup {t}, !.was = b.was \cup new]
  BY DEF Touch
<1> HIDE DEF new
<1>3. Touch(b, {t}) \in OpenBodies
  <2>1. b.touched \cup {t} \in SUBSET Ids /\ b.was \cup new \in SUBSET Ids
    BY <1>1 DEF OpenBodies
  <2> QED BY <1>2, <2>1, Zenon DEF OpenBodies
<1>4. /\ Touch(b, {t}).pre = b.pre /\ Touch(b, {t}).escrows = b.escrows
      /\ Touch(b, {t}).lapsed = b.lapsed /\ Touch(b, {t}).invited = b.invited
      /\ Touch(b, {t}).price = b.price /\ Touch(b, {t}).marks = b.marks
      /\ Touch(b, {t}).touched = b.touched \cup {t}
      /\ Touch(b, {t}).was = b.was \cup new
  BY <1>2 DEF OpenBodies
<1>5. \A k \in Ids : k \in new <=> k = t /\ t \notin b.touched /\ isMember(rec[t])
  BY DEF new
<1>6. QED
  BY <1>3, <1>4, <1>5

\* The target's vouch count moves by delta where the vouch counts; no other count moves.
Moved(v, delta) ==
  /\ rec' \in [Ids -> Records]
  /\ \A k \in Ids : rec'[k].since = rec[k].since /\ rec'[k].bar = rec[k].bar
                    /\ rec'[k].invited = rec[k].invited
  /\ \A k \in Ids \ {v.target} : rec'[k].vouched = rec[k].vouched
  /\ rec'[v.target].vouched = rec[v.target].vouched
                  + (IF isVouchCounted(rec[v.voucher], rec[v.target]) THEN delta ELSE 0)

(* adjustVouchCount moves the target's count only. *)
LEMMA Adjusted ==
  ASSUME rec \in [Ids -> Records], NEW v, v.voucher \in Ids, v.target \in Ids, NEW delta \in Int,
         isVouchCounted(rec[v.voucher], rec[v.target]) => rec[v.target].vouched + delta \in Nat,
         rec' = AdjustedVouch(v, delta)
  PROVE  Moved(v, delta)
<1> DEFINE t == v.target
<1>1. CASE isVouchCounted(rec[v.voucher], rec[t])
  <2>1. rec' = [rec EXCEPT ![t].vouched = rec[t].vouched + delta]
    BY <1>1 DEF AdjustedVouch
  <2>2. rec' \in [Ids -> Records]
    BY <1>1, <2>1 DEF Records
  <2>3. rec'[t] = [rec[t] EXCEPT !.vouched = rec[t].vouched + delta]
    BY <2>1
  <2>4. \A k \in Ids \ {t} : rec'[k] = rec[k]
    BY <2>1
  <2>5. rec'[t].since = rec[t].since /\ rec'[t].bar = rec[t].bar /\ rec'[t].invited = rec[t].invited
        /\ rec'[t].vouched = rec[t].vouched + delta
    <3>1. rec[t] \in Records
      OBVIOUS
    <3> QED BY <2>3, <3>1 DEF Records
  <2> QED BY <1>1, <2>2, <2>4, <2>5 DEF Moved
<1>2. CASE ~isVouchCounted(rec[v.voucher], rec[t])
  <2>1. rec' = rec
    BY <1>2 DEF AdjustedVouch
  <2>2. rec[t].vouched \in Nat
    BY DEF Records
  <2> QED BY <1>2, <2>1, <2>2 DEF Moved
<1>3. QED
  BY <1>1, <1>2

\* What Vouch and Unvouch do to a body and to the standing of the target.
Touching(v) ==
  /\ body \in OpenBodies /\ body' \in OpenBodies
  /\ body'.pre = body.pre /\ body'.escrows = body.escrows /\ body'.lapsed = body.lapsed
  /\ body'.invited = body.invited
  /\ body'.price = body.price /\ body'.marks = body.marks
  /\ body'.touched = body.touched \cup {v.target}
  /\ \A k \in Ids : k \in body'.was <=>
        k \in body.was \/ (k = v.target /\ k \notin body.touched /\ isMember(rec[k]))
  /\ UNCHANGED <<height, bonds, carry, pool, known, members, posts, liked, names>>

(* A cast or a withdrawal moves nobody's standing, and touches whom it counts for. *)
LEMMA TouchingStanding ==
  ASSUME TypeOK, Standing, NEW v \in VouchSet, NEW delta \in {1, -1}, Touching(v), Moved(v, delta)
  PROVE  /\ InvitedBonds' /\ SinceBounded' /\ UnknownStandNot' /\ StandingKept'
         /\ MembersCounted' /\ LapsesTaken' /\ BondsHaveInvitees'
<1> USE DEF Touching, Moved
<1>0. body.open /\ body'.open /\ v.target \in Ids
  BY DEF OpenBodies, VouchSet
<1>2. InvitedBonds'
  BY DEF Standing, InvitedBonds
<1>4. SinceBounded'
  BY <1>0 DEF Standing, SinceBounded
<1>6. UnknownStandNot'
  BY DEF Standing, UnknownStandNot
<1>7. StandingKept'
  <2>1. ASSUME NEW k \in Ids
        PROVE  /\ rec'[k].since = body.pre.rec[k].since
               /\ rec'[k].bar = body.pre.rec[k].bar
               /\ k \notin body'.touched => rec'[k].vouched = body.pre.rec[k].vouched
    BY <1>0, <2>1 DEF Standing, StandingKept
  <2>2. ASSUME NEW k \in Ids, k \in body'.touched
        PROVE  k \in body'.was <=> isMember(body.pre.rec[k])
    <3>1. CASE k \in body.touched
      BY <1>0, <3>1 DEF Standing, StandingKept
    <3>2. CASE k \notin body.touched
      <4>1. k = v.target
        BY <2>2, <3>2
      <4>2. isMember(rec[k]) <=> isMember(body.pre.rec[k])
        BY <1>0, <3>2 DEF Standing, StandingKept, isMember
      <4>3. body.was \subseteq body.touched
        BY <1>0 DEF Standing, StandingKept
      <4> QED BY <3>2, <4>1, <4>2, <4>3
    <3> QED BY <3>1, <3>2
  <2>3. \A pair \in body'.invited : body'.pre.rec[pair[1]].since = 0
    BY <1>0 DEF Standing, StandingKept
  <2>4. body'.was \subseteq body'.touched
    BY <1>0 DEF Standing, StandingKept, OpenBodies
  <2> QED BY <2>1, <2>2, <2>3, <2>4 DEF StandingKept
<1>8. MembersCounted'
  BY <1>0 DEF Standing, MembersCounted
<1>9. LapsesTaken'
  BY <1>0 DEF Standing, LapsesTaken
<1>11. BondsHaveInvitees'
  BY DEF Standing, BondsHaveInvitees, TypeOK
<1>12. QED
  BY <1>2, <1>4, <1>6, <1>7, <1>8, <1>9, <1>11

(* A cast moves one stake out of the voucher's karma and counts it once. *)
LEMMA VouchStep ==
  ASSUME TypeOK, BodyOK, PostsOK, Standing, NEW i \in Ids, NEW w \in BOOLEAN, NEW t \in Ids,
         NEW cast \in 1 .. MaxHeight, Vouch(i, w, t, cast)
  PROVE  /\ TypeOK' /\ BodyOK' /\ PostsOK' /\ Standing'
         /\ UNCHANGED <<carry, pool, bonds, escrows>>
         /\ body'.price = body.price /\ body'.marks = body.marks
         /\ Total(own') + Total(inc') = Total(own) + Total(inc) - VouchAmount
         /\ Cardinality(vouches') = Cardinality(vouches) + 1
         /\ body \in OpenBodies /\ body' \in OpenBodies /\ body'.pre = body.pre /\ height' = height
<1> DEFINE v == [voucher |-> i, target |-> t, cast |-> cast]
           b == Recorded(body, i)
<1>1. body \in OpenBodies
  BY OpenBody DEF Vouch, InBody
<1>2. /\ UNCHANGED <<height, escrows, bonds, carry, pool, known, posts, liked, names, members>>
      /\ vouches' = vouches \cup {v} /\ rec' = AdjustedVouch(v, 1)
      /\ body' = Touch(b, {t})
      /\ txs' = txs + 1 /\ txs < MaxTxs
      /\ i \in known /\ isMember(rec[i]) /\ t \in known /\ t # i
      /\ \A e \in escrows : e.owner # i
      /\ \A x \in vouches : x.voucher # i \/ x.target # t
  BY DEF Vouch, InBody
<1>3. KarmaSpend(i, w, VouchAmount, FALSE)
  BY DEF Vouch
<1>4. /\ own' \in [Ids -> Nat] /\ inc' \in [Ids -> Nat]
      /\ \A k \in Ids \ {i} : own'[k] = own[k] /\ inc'[k] = inc[k]
      /\ own[i] + inc[i] > 0
      /\ Total(own') + Total(inc') = Total(own) + Total(inc) - VouchAmount
  <2>1. VouchAmount \in Nat /\ own \in [Ids -> Nat] /\ inc \in [Ids -> Nat]
    BY Constants DEF TypeOK
  <2> QED BY <1>3, <2>1, Spend
<1>5. v \in VouchSet /\ v.voucher = i /\ v.target = t
  BY DEF VouchSet
<1>6. b \in OpenBodies /\ Kept(body, b) /\ b.price = body.price /\ b.marks = body.marks
  BY <1>1, RecordedBody
<1>7. Touching(v)
  <2> HIDE DEF b
  <2> QED BY <1>1, <1>2, <1>5, <1>6, TouchedBody DEF Touching, Kept
<1>8. Moved(v, 1)
  <2> HIDE DEF v
  <2>1. rec \in [Ids -> Records] /\ rec[t].vouched \in Nat
    BY DEF TypeOK, Records
  <2>2. rec[t].vouched + 1 \in Nat
    BY <2>1
  <2> QED BY <1>2, <1>5, <2>1, <2>2, Adjusted
<1> HIDE DEF v, b
<1>9. /\ InvitedBonds' /\ SinceBounded' /\ UnknownStandNot' /\ StandingKept'
      /\ MembersCounted' /\ LapsesTaken' /\ BondsHaveInvitees'
  BY <1>5, <1>7, <1>8, TouchingStanding
<1>10. v \notin vouches /\ IsFiniteSet(vouches)
  BY <1>2, <1>5 DEF Standing, BoxesFinite
<1>11. IsFiniteSet(vouches') /\ Cardinality(vouches') = Cardinality(vouches) + 1
  BY <1>2, <1>10, FS_AddElement
<1>12. BoxesFinite'
  BY <1>2, <1>11 DEF Standing, BoxesFinite
<1>13. StakesApart'
  BY <1>2, <1>5, <1>7 DEF Standing, StakesApart, Touching
<1>14. VouchersStand'
  <2>1. rec[i].since > 0
    BY <1>2 DEF isMember
  <2>2. rec[t].since = 0 => rec[i].since < height
    <3>1. body.open /\ height > 0
      BY <1>1 DEF OpenBodies, Standing, SinceBounded
    <3>2. CASE height > 1
      BY <3>1, <3>2 DEF Standing, SinceBounded
    <3>3. CASE height = 1
      <4>1. t \in Committee /\ rec[t].since > 0
        BY <1>2, <3>1, <3>3 DEF Standing, Young
      <4> QED BY <4>1
    <3>4. height \in Nat
      BY Constants DEF TypeOK
    <3> QED BY <3>1, <3>2, <3>3, <3>4
  <2> QED BY <1>2, <1>5, <1>8, <2>1, <2>2 DEF Standing, VouchersStand, Moved, TypeOK
<1>15. Young'
  <2> SUFFICES ASSUME height' = 0 \/ (height' = 1 /\ body'.open)
               PROVE  /\ known' = Committee
                      /\ \A k \in Ids \ Committee : own'[k] = 0 /\ inc'[k] = 0
                      /\ \A k \in Committee : rec'[k].since > 0
    BY DEF Young
  <2>1. /\ known = Committee
        /\ \A k \in Ids \ Committee : own[k] = 0 /\ inc[k] = 0
        /\ \A k \in Committee : rec[k].since > 0
    BY <1>1, <1>2 DEF Standing, Young, OpenBodies
  <2>2. \A k \in Committee : rec'[k].since > 0
    BY <2>1, <1>8, Constants DEF Moved
  <2> QED BY <1>2, <1>4, <2>1, <2>2
<1>16. VouchCountsExact'
  <2>1. ASSUME NEW k \in Ids
        PROVE  rec'[k].vouched = Cardinality(Counted(vouches', rec', k))
    <3> DEFINE C == Counted(vouches, rec, k)
    <3>1. rec[k].vouched = Cardinality(C)
      BY DEF Standing, VouchCountsExact
    <3>2. IsFiniteSet(C) /\ v \notin C
      BY <1>10, FS_Subset DEF Counted
    <3>3. Counted(vouches', rec', k) =
            IF k = t /\ isVouchCounted(rec[i], rec[t]) THEN C \cup {v} ELSE C
      BY <1>2, <1>5, <1>8 DEF Counted, isVouchCounted, Moved, TypeOK
    <3>4. Cardinality(C \cup {v}) = Cardinality(C) + 1
      <4> HIDE DEF C
      <4> QED BY <3>2, FS_AddElement
    <3>5. rec[k].vouched \in Nat
      BY DEF TypeOK, Records
    <3> HIDE DEF C
    <3> QED BY <1>5, <1>8, <3>1, <3>3, <3>4, <3>5 DEF Moved
  <2> QED BY <2>1 DEF VouchCountsExact
<1>17. TypeOK'
  <2>1. txs' \in 0 .. MaxTxs
    BY <1>2, Constants DEF TypeOK
  <2>2. body'.open \in BOOLEAN
    BY <1>7 DEF OpenBodies, Touching
  <2>3. vouches' \subseteq [voucher : Ids, target : Ids, cast : 1 .. MaxHeight]
    BY <1>2, <1>5 DEF TypeOK, VouchSet
  <2> QED BY <1>2, <1>4, <1>8, <2>1, <2>2, <2>3 DEF TypeOK, Moved
<1>18. /\ BodyOK' /\ PostsOK' /\ body'.price = body.price /\ body'.marks = body.marks
       /\ body' \in OpenBodies /\ body'.pre = body.pre /\ height' = height
  BY <1>2, <1>7 DEF BodyOK, Touching, PostsOK
<1>19. QED
  BY <1>1, <1>2, <1>4, <1>9, <1>11, <1>12, <1>13, <1>14, <1>15, <1>16, <1>17, <1>18 DEF Standing

(* A withdrawal moves the stake to an escrow and takes its count back. *)
LEMMA UnvouchStep ==
  ASSUME TypeOK, BodyOK, PostsOK, Standing, NEW v \in vouches, Unvouch(v)
  PROVE  /\ TypeOK' /\ BodyOK' /\ PostsOK' /\ Standing'
         /\ UNCHANGED <<carry, pool, bonds, own, inc>>
         /\ body'.price = body.price /\ body'.marks = body.marks
         /\ Cardinality(vouches') = Cardinality(vouches) - 1
         /\ Cardinality(escrows') = Cardinality(escrows) + 1
         /\ body \in OpenBodies /\ body' \in OpenBodies /\ body'.pre = body.pre /\ height' = height
<1> DEFINE i == v.voucher
           t == v.target
           e == EscrowOf(v)
           b == [body EXCEPT !.size = body.size + 1, !.actors = body.actors \cup {i}]
<1>1. body \in OpenBodies
  BY OpenBody DEF Unvouch, InBody
<1>2. v \in VouchSet /\ i \in Ids /\ t \in Ids
  BY DEF TypeOK, VouchSet
<1>3. /\ UNCHANGED <<height, own, inc, bonds, carry, pool, known, posts, liked, names, members>>
      /\ vouches' = vouches \ {v} /\ escrows' = escrows \cup {e} /\ rec' = AdjustedVouch(v, -1)
      /\ body' = Touch(b, {t})
      /\ txs' = txs + 1 /\ txs < MaxTxs
  BY DEF Unvouch, InBody
<1>4. e \in EscrowSet /\ e.owner = i /\ e.target = t
  BY <1>2, Constants DEF EscrowOf, EscrowSet, VouchSet
<1>5. /\ b \in OpenBodies /\ Kept(body, b) /\ b.price = body.price /\ b.marks = body.marks
  <2> HIDE DEF i
  <2>1. body.size + 1 \in Nat /\ body.actors \cup {i} \in SUBSET Ids
    BY <1>1, <1>2 DEF OpenBodies
  <2>2. b \in OpenBodies
    BY <1>1, <2>1, Zenon DEF OpenBodies
  <2> QED BY <1>1, <2>2 DEF OpenBodies, Kept
<1>6. Touching(v)
  <2> HIDE DEF b
  <2> QED BY <1>1, <1>2, <1>3, <1>5, TouchedBody DEF Touching, Kept
<1>7. IsFiniteSet(vouches) /\ IsFiniteSet(escrows)
  BY DEF Standing, BoxesFinite
<1>8. isVouchCounted(rec[i], rec[t]) => rec[t].vouched + (-1) \in Nat
  <2> SUFFICES ASSUME isVouchCounted(rec[i], rec[t])
               PROVE  rec[t].vouched + (-1) \in Nat
    OBVIOUS
  <2> DEFINE C == Counted(vouches, rec, t)
  <2>1. v \in C /\ rec[t].vouched = Cardinality(C) /\ IsFiniteSet(C)
    BY <1>2, <1>7, FS_Subset DEF Counted, Standing, VouchCountsExact
  <2>2. Cardinality(C) \in Nat /\ Cardinality(C) # 0
    <3> HIDE DEF C
    <3> QED BY <2>1, FS_CardinalityType, FS_EmptySet
  <2> HIDE DEF C
  <2> QED BY <2>1, <2>2
<1>9. Moved(v, -1)
  <2>1. rec \in [Ids -> Records]
    BY DEF TypeOK
  <2> QED BY <1>2, <1>3, <1>8, <2>1, Adjusted
<1> HIDE DEF b, e
<1>10. /\ InvitedBonds' /\ SinceBounded' /\ UnknownStandNot' /\ StandingKept'
       /\ MembersCounted' /\ LapsesTaken' /\ BondsHaveInvitees'
  BY <1>2, <1>6, <1>9, TouchingStanding
<1>11. e \notin escrows
  BY <1>4 DEF Standing, StakesApart
<1>12. IsFiniteSet(vouches') /\ Cardinality(vouches') = Cardinality(vouches) - 1
  BY <1>3, <1>7, FS_RemoveElement
<1>13. IsFiniteSet(escrows') /\ Cardinality(escrows') = Cardinality(escrows) + 1
  BY <1>3, <1>7, <1>11, FS_AddElement
<1>14. BoxesFinite'
  BY <1>3, <1>12, <1>13 DEF Standing, BoxesFinite
<1>15. StakesApart'
  BY <1>3, <1>4, <1>6 DEF Standing, StakesApart, Touching
<1>16. VouchersStand'
  BY <1>3, <1>9 DEF Standing, VouchersStand, Moved, TypeOK
<1>17. Young'
  <2>1. body.open /\ body'.open
    BY <1>1, <1>6 DEF Touching, OpenBodies
  <2> QED BY <1>3, <1>9, <2>1, Constants DEF Standing, Young, Moved
<1>18. VouchCountsExact'
  <2>1. ASSUME NEW k \in Ids
        PROVE  rec'[k].vouched = Cardinality(Counted(vouches', rec', k))
    <3> DEFINE C == Counted(vouches, rec, k)
    <3>1. rec[k].vouched = Cardinality(C)
      BY DEF Standing, VouchCountsExact
    <3>2. IsFiniteSet(C) /\ (v \in C <=> k = t /\ isVouchCounted(rec[i], rec[t]))
      BY <1>7, FS_Subset DEF Counted
    <3>3. Counted(vouches', rec', k) = C \ {v}
      BY <1>3, <1>2, <1>9 DEF Counted, isVouchCounted, Moved, TypeOK
    <3>4. Cardinality(C \ {v}) = IF v \in C THEN Cardinality(C) - 1 ELSE Cardinality(C)
      <4> HIDE DEF C
      <4> QED BY <3>2, FS_RemoveElement
    <3>5. rec[k].vouched \in Nat
      BY DEF TypeOK, Records
    <3> HIDE DEF C
    <3> QED BY <1>9, <3>1, <3>2, <3>3, <3>4, <3>5 DEF Moved
  <2> QED BY <2>1 DEF VouchCountsExact
<1>19. TypeOK'
  <2>1. txs' \in 0 .. MaxTxs
    BY <1>3, Constants DEF TypeOK
  <2>2. body'.open \in BOOLEAN
    BY <1>6 DEF OpenBodies, Touching
  <2>3. escrows' \subseteq [owner : Ids, target : Ids, release : Nat]
    BY <1>3, <1>4 DEF TypeOK, EscrowSet
  <2> QED BY <1>3, <1>9, <2>1, <2>2, <2>3 DEF TypeOK, Moved
<1>20. /\ BodyOK' /\ PostsOK' /\ body'.price = body.price /\ body'.marks = body.marks
       /\ body' \in OpenBodies /\ body'.pre = body.pre /\ height' = height
  BY <1>3, <1>6 DEF BodyOK, Touching, PostsOK
<1>21. QED
  BY <1>1, <1>3, <1>10, <1>12, <1>13, <1>14, <1>15, <1>16, <1>17, <1>18, <1>19, <1>20 DEF Standing

(* An invite locks the bond's value and leaves one bond for the invitee. *)
LEMMA InviteStep ==
  ASSUME TypeOK, BodyOK, PostsOK, Standing, NEW i \in Ids, NEW w \in BOOLEAN, NEW j \in Ids,
         NEW amount \in BondAmounts, Invite(i, w, j, amount)
  PROVE  /\ TypeOK' /\ BodyOK' /\ PostsOK' /\ Standing'
         /\ UNCHANGED <<carry, pool, vouches, escrows>>
         /\ body'.price = body.price /\ body'.marks = body.marks
         /\ Total(own') + Total(inc') = Total(own) + Total(inc) - amount
         /\ \E bond \in bonds' : bond.value = amount /\ bond \notin bonds
                                 /\ bonds' = bonds \cup {bond}
         /\ body \in OpenBodies /\ body' \in OpenBodies /\ body'.pre = body.pre /\ height' = height
<1> DEFINE bond == [inviter |-> i, invitee |-> j, value |-> amount]
           b == Recorded(body, i)
<1>1. body \in OpenBodies
  BY OpenBody DEF Invite, InBody
<1>2. /\ UNCHANGED <<height, vouches, escrows, carry, pool, known, posts, liked, names, members>>
      /\ bonds' = bonds \cup {bond} /\ rec' = [rec EXCEPT ![i].used = rec[i].used + 1]
      /\ body' = [b EXCEPT !.invited = b.invited \cup {<<j, i>>}]
      /\ txs' = txs + 1 /\ txs < MaxTxs
      /\ amount \in BondMin .. BondMax /\ j \notin known
      /\ \A pair \in body.invited : pair[1] # j
  BY DEF Invite, InBody
<1>3. KarmaSpend(i, w, amount, FALSE)
  BY DEF Invite
<1>4. /\ own' \in [Ids -> Nat] /\ inc' \in [Ids -> Nat]
      /\ \A k \in Ids \ {i} : own'[k] = own[k] /\ inc'[k] = inc[k]
      /\ own[i] + inc[i] > 0
      /\ Total(own') + Total(inc') = Total(own) + Total(inc) - amount
  <2>1. amount \in Nat /\ own \in [Ids -> Nat] /\ inc \in [Ids -> Nat]
    BY Constants DEF TypeOK
  <2> QED BY <1>3, <2>1, Spend
<1>5. /\ bond \in [inviter : Ids, invitee : Ids, value : BondMin .. BondMax]
      /\ bond.inviter = i /\ bond.invitee = j /\ bond.value = amount
  BY <1>2
<1>6. b \in OpenBodies /\ Kept(body, b) /\ b.price = body.price /\ b.marks = body.marks
  BY <1>1, RecordedBody
<1>7. /\ body' \in OpenBodies
      /\ body'.pre = body.pre /\ body'.escrows = body.escrows /\ body'.lapsed = body.lapsed
      /\ body'.invited = body.invited \cup {<<j, i>>}
      /\ body'.touched = body.touched /\ body'.was = body.was
      /\ body'.price = body.price /\ body'.marks = body.marks
  <2> HIDE DEF b
  <2>1. b.invited \cup {<<j, i>>} \in SUBSET (Ids \X Ids)
    BY <1>6 DEF OpenBodies
  <2>2. body' \in OpenBodies
    BY <1>2, <1>6, <2>1, Zenon DEF OpenBodies
  <2> QED BY <1>2, <1>6, <2>2 DEF OpenBodies, Kept
<1>8. rec' \in [Ids -> Records] /\ \A k \in Ids : SameStanding(rec[k], rec'[k])
  BY <1>2 DEF TypeOK, Records, SameStanding
<1>9. body.open /\ body'.open
  BY <1>1, <1>7 DEF OpenBodies
<1> HIDE DEF bond, b
<1>10. bond \notin bonds
  BY <1>2, <1>5 DEF Standing, BondsHaveInvitees
<1>11. BoxesFinite' /\ StakesApart'
  BY <1>2, <1>7, FS_AddElement DEF Standing, BoxesFinite, StakesApart
<1>12. InvitedBonds'
  BY <1>2, <1>5, <1>7 DEF Standing, InvitedBonds
<1>13. VouchersStand'
  BY <1>2, <1>8 DEF Standing, VouchersStand, SameStanding, TypeOK
<1>14. SinceBounded'
  BY <1>2, <1>8, <1>9 DEF Standing, SinceBounded, SameStanding
<1>15. Young'
  <2> SUFFICES ASSUME height' = 0 \/ (height' = 1 /\ body'.open)
               PROVE  /\ known' = Committee
                      /\ \A k \in Ids \ Committee : own'[k] = 0 /\ inc'[k] = 0
                      /\ \A k \in Committee : rec'[k].since > 0
    BY DEF Young
  <2>1. /\ known = Committee
        /\ \A k \in Ids \ Committee : own[k] = 0 /\ inc[k] = 0
        /\ \A k \in Committee : rec[k].since > 0
    BY <1>2, <1>9 DEF Standing, Young
  <2>2. \A k \in Committee : rec'[k].since > 0
    BY <2>1, <1>8, Constants DEF SameStanding
  <2> QED BY <1>2, <1>4, <2>1, <2>2
<1>16. UnknownStandNot'
  BY <1>2, <1>8 DEF Standing, UnknownStandNot, SameStanding
<1>17. StandingKept'
  <2>1. rec[j].since = 0 /\ body.pre.rec[j].since = 0
    BY <1>2, <1>9 DEF Standing, UnknownStandNot, StandingKept
  <2> QED BY <1>7, <1>8, <1>9, <2>1 DEF Standing, StandingKept, SameStanding
<1>18. MembersCounted' /\ LapsesTaken'
  BY <1>2, <1>7, <1>9 DEF Standing, MembersCounted, LapsesTaken
<1>19. VouchCountsExact'
  <2>1. ASSUME NEW t \in Ids
        PROVE  Counted(vouches', rec', t) = Counted(vouches, rec, t)
    BY <1>2, <1>8 DEF Counted, isVouchCounted, SameStanding, TypeOK
  <2>2. \A t \in Ids : rec'[t].vouched = rec[t].vouched
    BY <1>8 DEF SameStanding
  <2> QED BY <2>1, <2>2 DEF Standing, VouchCountsExact
<1>20. BondsHaveInvitees'
  <2>1. \A c \in bonds : c.invitee \in Ids
    BY DEF TypeOK
  <2>2. \A c \in bonds : c.invitee # j
    BY <1>2 DEF Standing, BondsHaveInvitees
  <2>3. \A c \in bonds' : \/ c.invitee \in known' /\ rec'[c.invitee].invited > 0
                          \/ <<c.invitee, c.inviter>> \in body'.invited
    BY <1>2, <1>5, <1>7, <1>8, <2>1 DEF Standing, BondsHaveInvitees, SameStanding
  <2>4. \A c, d \in bonds' : c.invitee = d.invitee => c = d
    BY <1>2, <1>5, <2>2 DEF Standing, BondsHaveInvitees
  <2> QED BY <2>3, <2>4 DEF BondsHaveInvitees
<1>21. TypeOK'
  <2>1. txs' \in 0 .. MaxTxs
    BY <1>2, Constants DEF TypeOK
  <2>2. body'.open \in BOOLEAN
    BY <1>9
  <2>3. bonds' \subseteq [inviter : Ids, invitee : Ids, value : BondMin .. BondMax]
    BY <1>2, <1>5 DEF TypeOK
  <2> QED BY <1>2, <1>4, <1>8, <2>1, <2>2, <2>3 DEF TypeOK
<1>22. BodyOK' /\ PostsOK'
  BY <1>2, <1>7 DEF BodyOK, PostsOK
<1>23. QED
  BY <1>1, <1>2, <1>4, <1>5, <1>7, <1>10, <1>11, <1>12, <1>13, <1>14, <1>15, <1>16, <1>17, <1>18,
     <1>19, <1>20, <1>21, <1>22 DEF Standing

-----------------------------------------------------------------------------
(* The opening of a block, and the genesis state *)

(* Beginning a block captures the ledger and moves no box. *)
LEMMA BeginStep ==
  ASSUME TypeOK, BodyOK, PostsOK, Standing, BeginBlock
  PROVE  /\ TypeOK' /\ BodyOK' /\ PostsOK' /\ Standing' /\ UNCHANGED boxVars
         /\ body = NoBody /\ body'.price = 0 /\ body'.marks = Zero
         /\ body'.pre = [own |-> own, inc |-> inc, rec |-> rec, vouches |-> vouches]
         /\ height' = height + 1
<1> DEFINE S == {v \in vouches : isLapsedMember(rec[v.voucher])}
           view == [own |-> own, inc |-> inc, rec |-> rec, vouches |-> vouches]
<1>1. body = NoBody /\ height < MaxHeight /\ height' = height + 1 /\ height \in Nat
      /\ UNCHANGED <<boxVars, recordVars, txs, scope>>
  <2>1. body = NoBody
    BY DEF BeginBlock, BodyOK, OpenBodies
  <2>2. height \in Nat
    BY Constants DEF TypeOK
  <2> QED BY <2>1, <2>2 DEF BeginBlock
<1>2. PICK returned \in SUBSET escrows, lapsed \in SUBSET S :
         /\ Cardinality(lapsed) = Lesser(MaxLapses, Cardinality(S))
         /\ body' = [NoBody EXCEPT !.open = TRUE, !.escrows = returned, !.lapsed = lapsed,
                                   !.pre = view]
  BY DEF BeginBlock, FirstOf
<1> HIDE DEF S
<1>3. body' = [open |-> TRUE, pre |-> view, escrows |-> returned, lapsed |-> lapsed, size |-> 0,
               spenders |-> {}, actors |-> {}, price |-> 0, marks |-> Zero, invited |-> {},
               likes |-> Zero, mlikes |-> Zero, touched |-> {}, was |-> {}, withdrawn |-> {}]
  BY <1>2 DEF NoBody, Zero
<1>4. view \in Views /\ Zero \in [Ids -> Nat] /\ returned \in SUBSET EscrowSet
      /\ lapsed \in SUBSET VouchSet
  <2>1. lapsed \subseteq vouches
    BY <1>2 DEF S
  <2> QED BY <1>2, <2>1 DEF TypeOK, Views, Zero, VouchSet, EscrowSet
<1> HIDE DEF view
<1>5. body' \in OpenBodies
  BY <1>3, <1>4 DEF OpenBodies
<1>6. /\ body'.open /\ body'.pre = view /\ body'.escrows = returned /\ body'.lapsed = lapsed
      /\ body'.price = 0 /\ body'.marks = Zero /\ body'.invited = {} /\ body'.touched = {}
      /\ body'.was = {}
  BY <1>3
<1>7. view.rec = rec /\ view.vouches = vouches
  BY DEF view
<1>8. /\ UNCHANGED <<own, inc, vouches, escrows, bonds, carry, pool>>
      /\ UNCHANGED <<known, rec, posts, liked, names, members>>
  BY <1>1 DEF boxVars, recordVars
<1>9. TypeOK'
  <2>1. height' \in 0 .. MaxHeight
    BY <1>1, Constants
  <2> QED BY <1>1, <1>6, <1>8, <2>1 DEF TypeOK
<1>10. BodyOK' /\ PostsOK' /\ UNCHANGED boxVars
  BY <1>1, <1>5, <1>8 DEF BodyOK, PostsOK
<1>11. BoxesFinite' /\ StakesApart' /\ InvitedBonds'
  BY <1>2, <1>6, <1>8 DEF Standing, BoxesFinite, StakesApart, InvitedBonds
<1>12. VouchersStand'
  <2>1. \A v \in vouches : rec[v.voucher].since \in Nat
    BY DEF TypeOK, Records
  <2> QED BY <1>1, <1>8, <2>1 DEF Standing, VouchersStand
<1>13. SinceBounded'
  <2>1. \A i \in Ids : rec[i].since \in Nat
    BY DEF TypeOK, Records
  <2> QED BY <1>1, <1>6, <1>8, <2>1 DEF Standing, SinceBounded, Greater
<1>14. Young'
  <2>1. height' = 0 \/ (height' = 1 /\ body'.open) => height = 0
    BY <1>1
  <2> QED BY <1>8, <2>1 DEF Standing, Young
<1>15. UnknownStandNot'
  BY <1>8 DEF Standing, UnknownStandNot
<1>16. StandingKept'
  BY <1>6, <1>7, <1>8 DEF StandingKept
<1>17. MembersCounted'
  BY <1>1, <1>6, <1>7, <1>8 DEF Standing, MembersCounted, NoBody
<1>18. LapsesTaken'
  <2>1. \A v \in vouches : rec[v.voucher].since > 0
    BY DEF Standing, VouchersStand
  <2>2. IsFiniteSet(S) /\ Cardinality(S) \in Nat
    BY FS_Subset, FS_CardinalityType DEF S, Standing, BoxesFinite
  <2>3. Cardinality(lapsed) = MaxLapses \/ lapsed = S
    <3>1. Cardinality(lapsed) = MaxLapses \/ Cardinality(lapsed) = Cardinality(S)
      BY <1>2 DEF Lesser
    <3> QED BY <1>2, <2>2, <3>1, FS_Subset
  <2> QED BY <1>6, <1>7, <2>1, <2>3 DEF LapsesTaken, S
<1>19. VouchCountsExact'
  BY <1>8 DEF Standing, VouchCountsExact
<1>20. BondsHaveInvitees'
  BY <1>1, <1>8 DEF Standing, BondsHaveInvitees, NoBody
<1>21. QED
  BY <1>1, <1>6, <1>9, <1>10, <1>11, <1>12, <1>13, <1>14, <1>15, <1>16, <1>17, <1>18, <1>19,
     <1>20 DEF Standing, view

(* Genesis satisfies the invariant. *)
LEMMA InitStanding ==
  ASSUME Init
  PROVE  TypeOK /\ BodyOK /\ PostsOK /\ Standing
<1> USE DEF Init
<1>1. \A i \in Ids : /\ rec[i] \in Records /\ rec[i].vouched = 0 /\ rec[i].bar = 0
                     /\ rec[i].since = IF i \in Committee THEN 1 ELSE 0
  BY DEF EmptyRecord, Records
<1>2. rec \in [Ids -> Records]
  BY <1>1
<1>3. body = NoBody /\ body.open = FALSE /\ body.invited = {} /\ body.escrows = {}
  BY DEF NoBody
<1>4. TypeOK
  <2>1. pool \in Nat
    <3>1. Cardinality(Committee) * GenesisKarma \in Nat
      <4>1. \A a, b \in Nat : a * b \in Nat
        OBVIOUS
      <4> QED BY <4>1, Constants
    <3> QED BY <3>1, Constants
  <2>2. own \in [Ids -> Nat] /\ inc \in [Ids -> Nat] /\ carry \in [Ids -> Nat]
    BY Constants DEF Zero
  <2>3. height \in 0 .. MaxHeight /\ txs \in 0 .. MaxTxs /\ members \in Nat
    BY Constants
  <2>4. known \subseteq Ids /\ body.open \in BOOLEAN
    BY <1>3, Constants
  <2> QED BY <1>2, <2>1, <2>2, <2>3, <2>4 DEF TypeOK
<1>5. BodyOK /\ PostsOK
  BY <1>3 DEF BodyOK, PostsOK
<1>6. BoxesFinite /\ StakesApart /\ InvitedBonds /\ VouchersStand
  BY <1>3, FS_EmptySet DEF BoxesFinite, StakesApart, InvitedBonds, VouchersStand
<1>7. SinceBounded /\ Young /\ UnknownStandNot
  BY <1>1, <1>3, Constants DEF SinceBounded, Young, UnknownStandNot, Greater, Zero
<1>8. StandingKept /\ LapsesTaken
  BY <1>3 DEF StandingKept, LapsesTaken
<1>9. MembersCounted
  <2>1. MembersOf(rec) = Committee
    BY <1>1, Constants DEF MembersOf, isMember
  <2> QED BY <1>3, <2>1 DEF MembersCounted
<1>10. VouchCountsExact
  <2>1. \A t \in Ids : Counted(vouches, rec, t) = {}
    BY DEF Counted
  <2> QED BY <1>1, <2>1, FS_EmptySet DEF VouchCountsExact
<1>11. BondsHaveInvitees
  BY DEF BondsHaveInvitees
<1>12. QED
  BY <1>4, <1>5, <1>6, <1>7, <1>8, <1>9, <1>10, <1>11 DEF Standing

-----------------------------------------------------------------------------
(* The settlement: what each leg pays *)

(* A like total splits without remainder into payout, pool part and carry. *)
LEMMA Division ==
  ASSUME NEW m \in Nat, NEW d \in Nat \ {0}
  PROVE  /\ m \div d \in Nat /\ m % d \in Nat
         /\ (m \div d) * (d - 1) \in Nat
         /\ (m \div d) * (d - 1) + (m \div d) + (m % d) = m
<1>1. m \div d \in Nat /\ m % d \in Nat /\ m = d * (m \div d) + (m % d)
  OBVIOUS
<1>2. \A q \in Nat : q * (d - 1) + q = d * q /\ q * (d - 1) \in Nat
  OBVIOUS
<1>3. QED
  BY <1>1, <1>2

(* computeLikePayouts names both ends of every mark. *)
LEMMA LikeLegs ==
  ASSUME body \in OpenBodies, carry \in [Ids -> Nat], NEW a \in Ids
  PROVE  /\ payoutOf(a) \in Nat /\ pooledOf(a) \in Nat /\ carryOf(a) \in Nat
         /\ payoutOf(a) + pooledOf(a) + carryOf(a) = carry[a] + body.marks[a]
<1>1. body.marks[a] \in Nat /\ carry[a] \in Nat /\ markTotal(a) = body.marks[a] + carry[a]
  BY DEF OpenBodies, markTotal
<1>2. CASE a \in markedAuthors
  <2>1. markTotal(a) \in Nat /\ LikesPerPayout \in Nat \ {0}
    BY <1>1, Constants
  <2>2. LET m == markTotal(a)
            d == LikesPerPayout
        IN  /\ m \div d \in Nat /\ m % d \in Nat
            /\ (m \div d) * (d - 1) \in Nat
            /\ (m \div d) * (d - 1) + (m \div d) + (m % d) = m
    BY <2>1, Division
  <2> QED BY <1>1, <1>2, <2>2 DEF payoutOf, pooledOf, carryOf
<1>3. CASE a \notin markedAuthors
  BY <1>1, <1>3 DEF payoutOf, pooledOf, carryOf, markedAuthors
<1>4. QED
  BY <1>2, <1>3

(* What vests of a bond is at most its value. *)
LEMMA Vested ==
  ASSUME TypeOK, NEW b \in bonds
  PROVE  b.value \in Nat /\ vestedPart(b) \in 0 .. b.value
<1>1. b.value \in Nat /\ rec[b.invitee].likes \in Nat
  BY Constants DEF TypeOK, Records
<1>2. rec[b.invitee].likes \div VestPerLikes \in Nat
  BY <1>1, Constants, Division
<1>3. QED
  BY <1>1, <1>2 DEF vestedPart, Lesser

(* A sum grouped by identity is the whole sum. *)
LEMMA Grouped ==
  ASSUME NEW S, IsFiniteSet(S), NEW f, \A x \in S : f[x] \in Int, NEW k, \A x \in S : k[x] \in Ids
  PROVE  SumOver([i \in Ids |-> SumOver(f, {x \in S : k[x] = i})], Ids) = SumOver(f, S)
<1> DEFINE G == [i \in Ids |-> {x \in S : k[x] = i}]
           F == [i \in Ids |-> SumOver(f, G[i])]
<1>1. \A i \in Ids : G[i] = {x \in S : k[x] = i}
  OBVIOUS
<1>2. \A i \in Ids : F[i] = SumOver(f, G[i])
  OBVIOUS
<1>3. F = [i \in Ids |-> SumOver(f, {x \in S : k[x] = i})]
  BY <1>1
<1>4. IsFiniteSet(Ids)
  BY Constants
<1> HIDE DEF F, G
<1>5. SumOver(F, Ids) = SumOver(f, S)
  BY <1>1, <1>2, <1>4, SumGroups
<1>6. QED
  BY <1>3, <1>5

(* The income boxes receive the payouts, the vested parts and the returned stakes. *)
LEMMA Income ==
  ASSUME TypeOK, BoxesFinite, StakesApart, body \in OpenBodies, NEW settled \in SUBSET bonds
  PROVE  /\ \A i \in Ids : incomeOf(i, settled) \in Nat
         /\ Total([i \in Ids |-> incomeOf(i, settled)]) =
              Total([a \in Ids |-> payoutOf(a)])
              + SumOver([b \in settled |-> vestedPart(b)], settled)
              + VouchAmount * Cardinality(body.escrows)
<1> DEFINE vest == [b \in settled |-> vestedPart(b)]
           ones == [e \in body.escrows |-> 1]
           pay == [i \in Ids |-> payoutOf(i)]
           bond == [i \in Ids |-> SumOver(vest, {b \in settled : b.inviter = i})]
           count == [i \in Ids |-> SumOver(ones, {e \in body.escrows : e.owner = i})]
           stake == [i \in Ids |-> VouchAmount * count[i]]
           both == [i \in Ids |-> pay[i] + bond[i]]
           all == [i \in Ids |-> incomeOf(i, settled)]
<1>1. IsFiniteSet(settled) /\ IsFiniteSet(body.escrows) /\ IsFiniteSet(Ids)
  BY Constants, FS_Subset DEF BoxesFinite, StakesApart
<1>2. (\A b \in settled : vest[b] \in Nat) /\ (\A e \in body.escrows : ones[e] = 1)
  BY Vested
<1>3. \A i \in Ids : /\ IsFiniteSet({b \in settled : b.inviter = i})
                     /\ IsFiniteSet({e \in body.escrows : e.owner = i})
  BY <1>1, FS_Subset
<1>4. \A i \in Ids : pay[i] \in Nat
  BY LikeLegs DEF TypeOK
<1>5. \A i \in Ids : bond[i] \in Nat
  <2> SUFFICES ASSUME NEW i \in Ids
               PROVE  SumOver(vest, {b \in settled : b.inviter = i}) \in Nat
    OBVIOUS
  <2> HIDE DEF vest
  <2> QED BY <1>2, <1>3, SumNat
<1>6. \A i \in Ids : count[i] = Cardinality({e \in body.escrows : e.owner = i})
  <2> SUFFICES ASSUME NEW i \in Ids
               PROVE  SumOver(ones, {e \in body.escrows : e.owner = i})
                        = Cardinality({e \in body.escrows : e.owner = i})
    OBVIOUS
  <2> HIDE DEF ones
  <2> QED BY <1>2, <1>3, SumOnes
<1>7. \A i \in Ids : count[i] \in Nat
  BY <1>3, <1>6, FS_CardinalityType
<1>8. \A i \in Ids : stake[i] \in Nat /\ stake[i] = VouchAmount * count[i]
  <2>1. \A x, y \in Nat : x * y \in Nat
    OBVIOUS
  <2> HIDE DEF count
  <2> QED BY <1>7, <2>1, Constants
<1>9. \A i \in Ids : all[i] = both[i] + stake[i] /\ both[i] = pay[i] + bond[i]
  <2>1. ASSUME NEW i \in Ids
        PROVE  all[i] = payoutOf(i) + SumOver(vest, {b \in settled : b.inviter = i})
                        + VouchAmount * Cardinality({e \in body.escrows : e.owner = i})
    BY DEF incomeOf
  <2>2. ASSUME NEW i \in Ids
        PROVE  stake[i] = VouchAmount * Cardinality({e \in body.escrows : e.owner = i})
    <3> HIDE DEF count
    <3> QED BY <1>6
  <2> QED BY <2>1, <2>2
<1>10. SumOver(bond, Ids) = SumOver(vest, settled)
  <2> DEFINE k == [b \in settled |-> b.inviter]
  <2>1. (\A b \in settled : vest[b] \in Int) /\ \A b \in settled : k[b] \in Ids
    BY <1>2 DEF TypeOK
  <2>2. bond = [i \in Ids |-> SumOver(vest, {b \in settled : k[b] = i})]
    <3> SUFFICES ASSUME NEW i \in Ids
                 PROVE  {b \in settled : b.inviter = i} = {b \in settled : k[b] = i}
      OBVIOUS
    <3> QED OBVIOUS
  <2> HIDE DEF vest, ones, pay, bond, count, stake, both, all, k
  <2>3. SumOver([i \in Ids |-> SumOver(vest, {b \in settled : k[b] = i})], Ids)
          = SumOver(vest, settled)
    BY <1>1, <2>1, Grouped
  <2> QED BY <2>2, <2>3
<1>11. SumOver(count, Ids) = SumOver(ones, body.escrows)
  <2> DEFINE k == [e \in body.escrows |-> e.owner]
  <2>1. (\A e \in body.escrows : ones[e] \in Int) /\ \A e \in body.escrows : k[e] \in Ids
    BY <1>2 DEF OpenBodies, EscrowSet
  <2>2. count = [i \in Ids |-> SumOver(ones, {e \in body.escrows : k[e] = i})]
    <3> SUFFICES ASSUME NEW i \in Ids
                 PROVE  {e \in body.escrows : e.owner = i} = {e \in body.escrows : k[e] = i}
      OBVIOUS
    <3> QED OBVIOUS
  <2> HIDE DEF vest, ones, pay, bond, count, stake, both, all, k
  <2>3. SumOver([i \in Ids |-> SumOver(ones, {e \in body.escrows : k[e] = i})], Ids)
          = SumOver(ones, body.escrows)
    BY <1>1, <2>1, Grouped
  <2> QED BY <2>2, <2>3
<1>12. SumOver(ones, body.escrows) = Cardinality(body.escrows)
  <2> HIDE DEF ones
  <2> QED BY <1>1, <1>2, SumOnes
<1> HIDE DEF vest, ones, pay, bond, count, stake, both, all
<1>13. SumOver(stake, Ids) = VouchAmount * SumOver(count, Ids)
  BY <1>1, <1>7, <1>8, Constants, SumScale
<1>14. SumOver(both, Ids) = SumOver(pay, Ids) + SumOver(bond, Ids)
  BY <1>1, <1>4, <1>5, <1>9, SumAdd
<1>15. \A i \in Ids : both[i] \in Int /\ stake[i] \in Int
  BY <1>4, <1>5, <1>8, <1>9
<1>16. SumOver(all, Ids) = SumOver(both, Ids) + SumOver(stake, Ids)
  BY <1>1, <1>9, <1>15, SumAdd
<1>17. \A i \in Ids : all[i] \in Nat
  BY <1>4, <1>5, <1>8, <1>9
<1>18. SumOver(all, Ids) = SumOver(pay, Ids) + SumOver(vest, settled) + VouchAmount * Cardinality(body.escrows)
  BY <1>10, <1>11, <1>12, <1>13, <1>14, <1>16
<1>19. QED
  BY <1>17, <1>18 DEF Total, all, pay, vest

(* What the grants pay out is what is drawn from the pool for them. *)
LEMMA Grants ==
  ASSUME TypeOK, InvitedBonds, body \in OpenBodies
  PROVE  /\ invitees \subseteq Ids /\ \A j \in Ids : grantOf(j) \in Nat
         /\ Total([j \in Ids |-> grantOf(j)]) = poolDraw
<1> DEFINE all == [j \in Ids |-> grantOf(j)]
           some == [j \in invitees |-> grantOf(j)]
           I == invitees
<1>1. invitees \subseteq Ids
  BY DEF invitees, OpenBodies
<1>2. \A j \in Ids : j \notin invitees => grantOf(j) = 0
  BY DEF grantOf, invitees
<1>3. ASSUME NEW j \in Ids
      PROVE  grantOf(j) \in Nat
  <2>1. CASE \E pair \in body.invited : pair[1] = j
    <3>1. \E b \in bonds : b.invitee = j
      BY <2>1 DEF InvitedBonds
    <3>2. bondOf(j) \in bonds
      BY <3>1 DEF bondOf
    <3>3. bondOf(j).value \in BondMin .. BondMax
      BY <3>2 DEF TypeOK
    <3>4. bondOf(j).value \in Nat
      BY <3>3, Constants
    <3> QED BY <2>1, <3>4 DEF grantOf
  <2>2. CASE ~ \E pair \in body.invited : pair[1] = j
    BY <2>2 DEF grantOf
  <2> QED BY <2>1, <2>2
<1>4. \A j \in Ids : all[j] \in Int
  BY <1>3
<1>5. \A j \in Ids \ I : all[j] = 0
  BY <1>2
<1>6. \A j \in I : all[j] = some[j]
  BY <1>1
<1>7. IsFiniteSet(Ids) /\ IsFiniteSet(I) /\ IsFiniteSet(Ids \ I)
  BY <1>1, Constants, FS_Subset
<1>8. I \subseteq Ids
  BY <1>1
<1> HIDE DEF all, some, I
<1>9. SumOver(all, Ids) = SumOver(all, I) + SumOver(all, Ids \ I)
  BY <1>4, <1>7, <1>8, SumSubset
<1>10. SumOver(all, Ids \ I) = 0
  BY <1>5, <1>7, SumZero
<1>11. SumOver(all, I) = SumOver(some, I)
  BY <1>6, <1>7, SumEqual
<1>12. SumOver(all, I) \in Int
  <2>1. \A j \in I : all[j] \in Int
    BY <1>4, <1>8
  <2> QED BY <1>7, <2>1, SumInt
<1>13. SumOver(all, Ids) = SumOver(some, I)
  BY <1>9, <1>10, <1>11, <1>12
<1>14. QED
  BY <1>1, <1>3, <1>13 DEF Total, poolDraw, all, some, I

(* Decay burns at most what the body left its holder. *)
LEMMA Burns ==
  ASSUME TypeOK, body \in OpenBodies, NEW i \in Ids, NEW plans
  PROVE  burnOf(i, plans) \in 0 .. own[i] + inc[i]
<1>1. own[i] \in Nat /\ inc[i] \in Nat /\ own[i] + inc[i] \in Nat
  BY DEF TypeOK
<1>2. height \in Nat
  BY Constants DEF TypeOK
<1>3. body.pre.rec[i] \in Records
  BY DEF OpenBodies, Views
<1>4. karmaOwed(own[i] + inc[i], body.pre.rec[i], height) \in 0 .. own[i] + inc[i]
  BY <1>1, <1>2, <1>3, Effective
<1>5. QED
  BY <1>1, <1>4 DEF burnOf, postBodyKarma

\* Two families of amounts, added identity by identity.
LEMMA TotalAdd ==
  ASSUME NEW f, NEW g, NEW h, \A i \in Ids : f[i] \in Nat /\ g[i] \in Nat /\ h[i] = f[i] + g[i]
  PROVE  /\ \A i \in Ids : h[i] \in Nat
         /\ Total(f) \in Nat /\ Total(g) \in Nat /\ Total(h) \in Nat
         /\ Total(h) = Total(f) + Total(g)
<1>1. IsFiniteSet(Ids)
  BY Constants
<1>2. \A i \in Ids : f[i] \in Int /\ g[i] \in Int /\ h[i] = f[i] + g[i]
  OBVIOUS
<1>3. SumOver(h, Ids) = SumOver(f, Ids) + SumOver(g, Ids)
  BY <1>1, <1>2, SumAdd
<1>4. SumOver(f, Ids) \in Nat /\ SumOver(g, Ids) \in Nat
  BY <1>1, SumNat
<1>5. QED
  BY <1>3, <1>4 DEF Total

\* What the settlement does to the karma boxes of the identities.
LEMMA BoxesSettled ==
  ASSUME TypeOK, Standing, body \in OpenBodies, NEW settled \in SUBSET bonds, NEW plans,
         Settle(settled, plans)
  PROVE  /\ own' \in [Ids -> Nat] /\ inc' \in [Ids -> Nat]
         /\ Total([i \in Ids |-> burnOf(i, plans)]) \in Nat
         /\ Total(own') + Total(inc') + Total([i \in Ids |-> burnOf(i, plans)])
              = Total(own) + Total(inc) + poolDraw + Total([a \in Ids |-> payoutOf(a)])
                + SumOver([b \in settled |-> vestedPart(b)], settled)
                + VouchAmount * Cardinality(body.escrows)
<1> DEFINE burn == [i \in Ids |-> burnOf(i, plans)]
           grant == [i \in Ids |-> grantOf(i)]
           income == [i \in Ids |-> incomeOf(i, settled)]
           held == [i \in Ids |-> own[i] + inc[i]]
           gains1 == [i \in Ids |-> grant[i] + income[i]]
           heldThen == [i \in Ids |-> own'[i] + inc'[i]]
           sides == [i \in Ids |-> heldThen[i] + burn[i]]
<1>1. \A i \in Ids : own[i] \in Nat /\ inc[i] \in Nat
  BY DEF TypeOK
<1>2. \A i \in Ids : burn[i] \in 0 .. own[i] + inc[i]
  BY Burns
<1>3. (\A i \in Ids : grant[i] \in Nat) /\ Total(grant) = poolDraw
  BY Grants DEF Standing
<1>4. /\ \A i \in Ids : income[i] \in Nat
      /\ Total(income) = Total([a \in Ids |-> payoutOf(a)])
                         + SumOver([b \in settled |-> vestedPart(b)], settled)
                         + VouchAmount * Cardinality(body.escrows)
  BY Income DEF Standing
<1>a. own' = [i \in Ids |-> grantOf(i) + (IF burnOf(i, plans) > 0
                                         THEN postBodyKarma(i) - burnOf(i, plans) ELSE own[i])]
  BY DEF Settle
<1>5. \A i \in Ids : own'[i] = grant[i] + (IF burn[i] > 0 THEN (own[i] + inc[i]) - burn[i] ELSE own[i])
  BY <1>a DEF postBodyKarma
<1>b. inc' = [i \in Ids |-> incomeOf(i, settled) + (IF burnOf(i, plans) > 0 THEN 0 ELSE inc[i])]
  BY DEF Settle
<1>6. \A i \in Ids : inc'[i] = income[i] + (IF burn[i] > 0 THEN 0 ELSE inc[i])
  BY <1>b
<1> HIDE DEF burn, grant, income
<1>7. \A i \in Ids : own'[i] \in Nat /\ inc'[i] \in Nat
  BY <1>1, <1>2, <1>3, <1>4, <1>5, <1>6
<1>8. own' \in [Ids -> Nat] /\ inc' \in [Ids -> Nat]
  BY <1>a, <1>b, <1>7
<1>9. \A i \in Ids : own'[i] + inc'[i] + burn[i] = grant[i] + income[i] + (own[i] + inc[i])
  BY <1>1, <1>2, <1>3, <1>4, <1>5, <1>6
<1>10. Total(held) = Total(own) + Total(inc) /\ (\A i \in Ids : held[i] \in Nat)
  <2>1. \A i \in Ids : own[i] \in Nat /\ inc[i] \in Nat /\ held[i] = own[i] + inc[i]
    BY <1>1
  <2> HIDE DEF held
  <2> QED BY <2>1, TotalAdd
<1>11. Total(gains1) = Total(grant) + Total(income) /\ (\A i \in Ids : gains1[i] \in Nat)
  <2>1. \A i \in Ids : grant[i] \in Nat /\ income[i] \in Nat /\ gains1[i] = grant[i] + income[i]
    BY <1>3, <1>4
  <2> HIDE DEF gains1
  <2> QED BY <2>1, TotalAdd
<1>12. Total(heldThen) = Total(own') + Total(inc') /\ (\A i \in Ids : heldThen[i] \in Nat)
  <2>1. \A i \in Ids : own'[i] \in Nat /\ inc'[i] \in Nat /\ heldThen[i] = own'[i] + inc'[i]
    BY <1>7
  <2> HIDE DEF heldThen
  <2> QED BY <2>1, TotalAdd
<1>13. \A i \in Ids : burn[i] \in Nat
  BY <1>1, <1>2
<1>14. Total(sides) = Total(heldThen) + Total(burn) /\ Total(burn) \in Nat
  <2>1. \A i \in Ids : heldThen[i] \in Nat /\ burn[i] \in Nat /\ sides[i] = heldThen[i] + burn[i]
    BY <1>12, <1>13
  <2> HIDE DEF heldThen, sides
  <2> QED BY <2>1, TotalAdd
<1>15. Total(sides) = Total(gains1) + Total(held)
  <2>1. \A i \in Ids : gains1[i] \in Nat /\ held[i] \in Nat /\ sides[i] = gains1[i] + held[i]
    BY <1>9, <1>10, <1>11
  <2> HIDE DEF held, sides, gains1
  <2> QED BY <2>1, TotalAdd
<1>16. Total(own') \in Nat /\ Total(inc') \in Nat /\ Total(own) \in Nat /\ Total(inc) \in Nat
  BY <1>8, Totals DEF TypeOK
<1>17. Total(grant) \in Nat /\ Total(income) \in Nat
  <2>1. grant \in [Ids -> Nat] /\ income \in [Ids -> Nat]
    BY <1>3, <1>4 DEF grant, income
  <2> QED BY <2>1, Totals
<1> HIDE DEF held, gains1, heldThen, sides
<1>18. Total(own') + Total(inc') + Total(burn) = Total(own) + Total(inc) + Total(grant) + Total(income)
  BY <1>10, <1>11, <1>12, <1>14, <1>15, <1>16, <1>17
<1>19. Total(own') + Total(inc') + Total(burn)
         = Total(own) + Total(inc) + poolDraw + Total([a \in Ids |-> payoutOf(a)])
           + SumOver([b \in settled |-> vestedPart(b)], settled)
           + VouchAmount * Cardinality(body.escrows)
  <2> DEFINE p == Total([a \in Ids |-> payoutOf(a)])
             s == SumOver([b \in settled |-> vestedPart(b)], settled)
             q == VouchAmount * Cardinality(body.escrows)
  <2>1. p \in Int /\ s \in Int /\ q \in Int
    <3>1. [a \in Ids |-> payoutOf(a)] \in [Ids -> Nat]
      BY LikeLegs DEF TypeOK
    <3>2. p \in Nat
      BY <3>1, Totals
    <3>3. IsFiniteSet(settled) /\ IsFiniteSet(body.escrows)
      BY FS_Subset DEF Standing, BoxesFinite, StakesApart
    <3>4. \A b \in settled : [c \in settled |-> vestedPart(c)][b] \in Int
      BY Vested
    <3>5. s \in Int
      BY <3>3, <3>4, SumInt
    <3>6. q \in Int
      BY <3>3, FS_CardinalityType, Constants
    <3> QED BY <3>2, <3>5, <3>6
  <2> HIDE DEF p, s, q
  <2>2. Total(income) = p + s + q
    BY <1>4 DEF p, s, q
  <2>3. Total(own') + Total(inc') + Total(burn) = Total(own) + Total(inc) + poolDraw + p + s + q
    BY <1>3, <1>16, <1>17, <1>18, <2>1, <2>2
  <2> QED BY <2>3 DEF p, s, q
<1>20. QED
  BY <1>8, <1>14, <1>19 DEF burn

\* A lapsed vouch becomes an escrow of its own; the returned escrows leave.
LEMMA StakesSettled ==
  ASSUME TypeOK, Standing, body \in OpenBodies,
         vouches' = vouches \ lapseLeg,
         escrows' = (escrows \ body.escrows) \cup {EscrowOf(v) : v \in lapseLeg}
  PROVE  /\ IsFiniteSet(vouches') /\ IsFiniteSet(escrows')
         /\ vouches' \subseteq VouchSet /\ escrows' \subseteq EscrowSet
         /\ \A v, w \in vouches' : v.voucher = w.voucher /\ v.target = w.target => v = w
         /\ \A v \in vouches', e \in escrows' : e.owner # v.voucher \/ e.target # v.target
         /\ Cardinality(vouches') + Cardinality(escrows') + Cardinality(body.escrows)
              = Cardinality(vouches) + Cardinality(escrows)
         /\ Cardinality(vouches') \in Nat /\ Cardinality(escrows') \in Nat
         /\ Cardinality(vouches) \in Nat /\ Cardinality(escrows) \in Nat
         /\ Cardinality(body.escrows) \in Nat
<1> DEFINE L == lapseLeg
           f == [v \in L |-> EscrowOf(v)]
           N == {f[v] : v \in L}
           R == body.escrows
           kept == escrows \ R
<1>1. L \subseteq vouches /\ R \subseteq escrows /\ vouches \subseteq VouchSet /\ escrows \subseteq EscrowSet
  BY DEF lapseLeg, Standing, StakesApart, TypeOK, VouchSet, EscrowSet
<1>2. \A v \in L : f[v] \in EscrowSet /\ f[v].owner = v.voucher /\ f[v].target = v.target
  BY <1>1, Constants DEF EscrowOf, EscrowSet, VouchSet
<1>3. vouches' = vouches \ L /\ escrows' = kept \cup N
  OBVIOUS
<1>4. /\ \A v, w \in vouches : v.voucher = w.voucher /\ v.target = w.target => v = w
      /\ \A v \in vouches, e \in escrows : e.owner # v.voucher \/ e.target # v.target
      /\ IsFiniteSet(vouches) /\ IsFiniteSet(escrows)
  BY DEF Standing, StakesApart, BoxesFinite
<1> HIDE DEF L, f, R
<1>5. \A v, w \in L : f[v] = f[w] => v = w
  BY <1>1, <1>2, <1>4
<1>6. IsFiniteSet(L) /\ IsFiniteSet(R) /\ IsFiniteSet(kept)
  BY <1>1, <1>4, FS_Subset
<1>7. IsFiniteSet(N) /\ Cardinality(N) = Cardinality(L)
  BY <1>5, <1>6, ImageCardinality
<1>8. kept \cap N = {}
  BY <1>1, <1>2, <1>4
<1>9. /\ Cardinality(vouches \ L) = Cardinality(vouches) - Cardinality(L)
      /\ IsFiniteSet(vouches \ L)
  <2>1. vouches \cap L = L
    BY <1>1
  <2>2. /\ IsFiniteSet(vouches \ L)
        /\ Cardinality(vouches \ L) = Cardinality(vouches) - Cardinality(vouches \cap L)
    BY <1>4, FS_Difference
  <2> QED BY <2>1, <2>2
<1>10. Cardinality(kept) = Cardinality(escrows) - Cardinality(R)
  <2>1. escrows \cap R = R
    BY <1>1
  <2>2. Cardinality(escrows \ R) = Cardinality(escrows) - Cardinality(escrows \cap R)
    BY <1>4, FS_Difference
  <2> QED BY <2>1, <2>2
<1>11. /\ Cardinality(vouches) \in Nat /\ Cardinality(escrows) \in Nat /\ Cardinality(L) \in Nat
       /\ Cardinality(R) \in Nat /\ Cardinality(kept) \in Nat /\ Cardinality(vouches \ L) \in Nat
  BY <1>4, <1>6, <1>9, FS_CardinalityType
<1> HIDE DEF kept, N
<1>12. /\ IsFiniteSet(kept \cup N)
       /\ Cardinality(kept \cup N) = Cardinality(kept) + Cardinality(N)
  <2>1. /\ IsFiniteSet(kept \cup N)
        /\ Cardinality(kept \cup N) = Cardinality(kept) + Cardinality(N) - Cardinality(kept \cap N)
    BY <1>6, <1>7, FS_Union
  <2>2. Cardinality(kept \cap N) = 0
    BY <1>8, FS_EmptySet
  <2> QED BY <1>7, <1>11, <2>1, <2>2
<1>13. /\ Cardinality(vouches') + Cardinality(escrows') + Cardinality(R)
            = Cardinality(vouches) + Cardinality(escrows)
       /\ Cardinality(vouches') \in Nat /\ Cardinality(escrows') \in Nat
  <2>1. Cardinality(vouches') = Cardinality(vouches) - Cardinality(L)
    BY <1>3, <1>9
  <2>2. Cardinality(escrows') = Cardinality(escrows) - Cardinality(R) + Cardinality(L)
    BY <1>3, <1>7, <1>10, <1>12
  <2>3. Cardinality(vouches') \in Nat /\ Cardinality(escrows') \in Nat
    BY <1>3, <1>9, <1>12, FS_CardinalityType
  <2> QED BY <1>11, <2>1, <2>2, <2>3
<1>14. \A e \in escrows' : \/ e \in escrows
                           \/ \E v \in L : e.owner = v.voucher /\ e.target = v.target /\ e \in EscrowSet
  BY <1>2, <1>3 DEF kept, N
<1>15. vouches' \subseteq VouchSet /\ escrows' \subseteq EscrowSet
  BY <1>1, <1>3, <1>14
<1>16. \A v, w \in vouches' : v.voucher = w.voucher /\ v.target = w.target => v = w
  BY <1>3, <1>4
<1>17. ASSUME NEW v \in vouches', NEW e \in escrows'
       PROVE  e.owner # v.voucher \/ e.target # v.target
  <2>1. CASE e \in escrows
    BY <1>3, <1>4, <2>1
  <2>2. CASE e \notin escrows
    <3>1. PICK w \in L : e.owner = w.voucher /\ e.target = w.target
      BY <1>14, <2>2
    <3>2. v \in vouches /\ v # w /\ w \in vouches
      BY <1>1, <1>3
    <3> QED BY <1>4, <3>1, <3>2
  <2> QED BY <2>1, <2>2
<1>18. IsFiniteSet(vouches') /\ IsFiniteSet(escrows')
  BY <1>3, <1>9, <1>12
<1>19. QED
  BY <1>11, <1>13, <1>15, <1>16, <1>17, <1>18 DEF R

(* Payouts, pool parts and new carries are the old carries and the markers. *)
LEMMA CarriesSettled ==
  ASSUME TypeOK, body \in OpenBodies, carry' = [a \in Ids |-> carryOf(a)]
  PROVE  /\ carry' \in [Ids -> Nat]
         /\ Total([a \in Ids |-> payoutOf(a)]) \in Nat /\ Total([a \in Ids |-> pooledOf(a)]) \in Nat
         /\ Total([a \in Ids |-> payoutOf(a)]) + Total([a \in Ids |-> pooledOf(a)]) + Total(carry')
              = Total(carry) + Total(body.marks)
<1> DEFINE pay == [a \in Ids |-> payoutOf(a)]
           sink == [a \in Ids |-> pooledOf(a)]
           both == [a \in Ids |-> pay[a] + sink[a]]
           all == [a \in Ids |-> both[a] + carry'[a]]
<1>1. /\ \A a \in Ids : pay[a] \in Nat /\ sink[a] \in Nat /\ carry'[a] \in Nat
      /\ \A a \in Ids : pay[a] + sink[a] + carry'[a] = carry[a] + body.marks[a]
  BY LikeLegs DEF TypeOK
<1>2. carry' \in [Ids -> Nat]
  BY <1>1
<1>3. \A a \in Ids : carry[a] \in Nat /\ body.marks[a] \in Nat
  BY DEF TypeOK, OpenBodies
<1> HIDE DEF pay, sink
<1>4. /\ Total(both) = Total(pay) + Total(sink) /\ (\A a \in Ids : both[a] \in Nat)
      /\ Total(pay) \in Nat /\ Total(sink) \in Nat
  <2>1. \A a \in Ids : pay[a] \in Nat /\ sink[a] \in Nat /\ both[a] = pay[a] + sink[a]
    BY <1>1
  <2> HIDE DEF both
  <2> QED BY <2>1, TotalAdd
<1>5. Total(all) = Total(both) + Total(carry')
  <2>1. \A a \in Ids : both[a] \in Nat /\ carry'[a] \in Nat /\ all[a] = both[a] + carry'[a]
    BY <1>1, <1>4
  <2> HIDE DEF both, all
  <2> QED BY <2>1, TotalAdd
<1>6. Total(all) = Total(carry) + Total(body.marks)
  <2>1. \A a \in Ids : carry[a] \in Nat /\ body.marks[a] \in Nat /\ all[a] = carry[a] + body.marks[a]
    BY <1>1, <1>3
  <2> HIDE DEF both, all
  <2> QED BY <2>1, TotalAdd
<1>7. QED
  BY <1>2, <1>4, <1>5, <1>6 DEF pay, sink

(* A settled bond's value is its vested part and the part the pool takes. *)
LEMMA BondsSettled ==
  ASSUME TypeOK, BoxesFinite, NEW settled \in SUBSET bonds, bonds' = bonds \ settled
  PROVE  /\ SumOver([b \in settled |-> vestedPart(b)], settled) \in Nat
         /\ SumOver([b \in settled |-> b.value - vestedPart(b)], settled) \in Nat
         /\ SumOver([b \in bonds' |-> b.value], bonds') \in Nat
         /\ SumOver([b \in bonds |-> b.value], bonds) =
              SumOver([b \in settled |-> vestedPart(b)], settled)
              + SumOver([b \in settled |-> b.value - vestedPart(b)], settled)
              + SumOver([b \in bonds' |-> b.value], bonds')
<1> DEFINE val == [b \in bonds |-> b.value]
           vest == [b \in settled |-> vestedPart(b)]
           rest == [b \in settled |-> b.value - vestedPart(b)]
           then == [b \in bonds' |-> b.value]
<1>1. \A b \in bonds : val[b] \in Nat
  BY Vested
<1>2. \A b \in settled : vest[b] \in Nat /\ rest[b] \in Nat /\ val[b] = vest[b] + rest[b]
  BY Vested
<1>3. \A b \in bonds \ settled : val[b] = then[b]
  OBVIOUS
<1>4. IsFiniteSet(bonds) /\ IsFiniteSet(settled) /\ IsFiniteSet(bonds \ settled)
  BY FS_Subset DEF BoxesFinite
<1> HIDE DEF val, vest, rest, then
<1>5. SumOver(val, bonds) = SumOver(val, settled) + SumOver(val, bonds \ settled)
  <2>1. \A b \in bonds : val[b] \in Int
    BY <1>1
  <2> QED BY <1>4, <2>1, SumSubset
<1>6. SumOver(val, settled) = SumOver(vest, settled) + SumOver(rest, settled)
  <2>1. \A b \in settled : vest[b] \in Int /\ rest[b] \in Int /\ val[b] = vest[b] + rest[b]
    BY <1>2
  <2> QED BY <1>4, <2>1, SumAdd
<1>7. SumOver(val, bonds \ settled) = SumOver(then, bonds \ settled)
  BY <1>3, <1>4, SumEqual
<1>8. SumOver(vest, settled) \in Nat /\ SumOver(rest, settled) \in Nat
  BY <1>2, <1>4, SumNat
<1>9. SumOver(val, bonds \ settled) \in Nat
  <2>1. \A b \in bonds \ settled : val[b] \in Nat
    BY <1>1
  <2> QED BY <1>4, <2>1, SumNat
<1>10. QED
  BY <1>5, <1>6, <1>7, <1>8, <1>9 DEF val, vest, rest, then

\* The settlement moves karma between the pool, the boxes and the stakes, and makes none.
LEMMA EndConserves ==
  ASSUME TypeOK, Standing, body \in OpenBodies, EndBlock, KarmaConserved
  PROVE  KarmaConserved'
<1>1. PICK settled \in SUBSET bonds : Settle(settled, decayPlans(settled))
  BY DEF EndBlock, FirstOf, bondsSettlingAt
<1> DEFINE plans == decayPlans(settled)
           burn == Total([i \in Ids |-> burnOf(i, plans)])
           pay == Total([a \in Ids |-> payoutOf(a)])
           sink == Total([a \in Ids |-> pooledOf(a)])
           vest == SumOver([b \in settled |-> vestedPart(b)], settled)
           rest == SumOver([b \in settled |-> b.value - vestedPart(b)], settled)
           held == SumOver([b \in bonds |-> b.value], bonds)
           heldThen == SumOver([b \in bonds' |-> b.value], bonds')
           V == Cardinality(vouches)
           E == Cardinality(escrows)
           VT == Cardinality(vouches')
           ET == Cardinality(escrows')
           back == Cardinality(body.escrows)
<1>2. /\ carry' = [a \in Ids |-> carryOf(a)] /\ vouches' = vouches \ lapseLeg
      /\ escrows' = (escrows \ body.escrows) \cup {EscrowOf(v) : v \in lapseLeg}
      /\ body' = NoBody
  BY DEF EndBlock
<1>3. bonds' = bonds \ settled /\ pool' = pool - poolDraw + (body.price + sink + rest + burn)
  BY <1>1 DEF Settle, poolSink
<1>4. /\ own' \in [Ids -> Nat] /\ inc' \in [Ids -> Nat] /\ burn \in Nat
      /\ Total(own') + Total(inc') + burn
           = Total(own) + Total(inc) + poolDraw + pay + vest + VouchAmount * back
  BY <1>1, BoxesSettled
<1>5. /\ carry' \in [Ids -> Nat] /\ pay \in Nat /\ sink \in Nat
      /\ pay + sink + Total(carry') = Total(carry) + Total(body.marks)
  BY <1>2, CarriesSettled
<1>6. vest \in Nat /\ rest \in Nat /\ heldThen \in Nat /\ held = vest + rest + heldThen
  BY <1>3, BondsSettled DEF Standing
<1>7. /\ VT + ET + back = V + E
      /\ VT \in Nat /\ ET \in Nat /\ V \in Nat /\ E \in Nat /\ back \in Nat
  BY <1>2, StakesSettled
<1>8. poolDraw \in Nat
  <2>1. [j \in Ids |-> grantOf(j)] \in [Ids -> Nat] /\ Total([j \in Ids |-> grantOf(j)]) = poolDraw
    BY Grants DEF Standing
  <2> QED BY <2>1, Totals
<1>9. body'.price = 0 /\ body'.marks = Zero /\ Total(Zero) = 0
  <2>1. \A i \in Ids : Zero[i] = 0
    BY DEF Zero
  <2>2. Total(Zero) = 0
    BY <2>1, Constants, SumZero DEF Total
  <2> QED BY <1>2, <2>2 DEF NoBody, Zero
<1>10. /\ Total(own) \in Nat /\ Total(inc) \in Nat /\ Total(own') \in Nat /\ Total(inc') \in Nat
       /\ Total(carry) \in Nat /\ Total(carry') \in Nat /\ Total(body.marks) \in Nat
  BY <1>4, <1>5, Totals DEF TypeOK, OpenBodies
<1>11. pool \in Nat /\ body.price \in Nat
  BY DEF TypeOK, OpenBodies
<1>12. pool + Total(own) + Total(inc) + Total(carry) + VouchAmount * (V + E) + held
         + body.price + Total(body.marks) = Supply
  BY DEF KarmaConserved
<1> HIDE DEF plans, burn, pay, sink, vest, rest, held, heldThen, V, E, VT, ET, back
<1>13. /\ VouchAmount * (V + E) = VouchAmount * (VT + ET) + VouchAmount * back
       /\ VouchAmount * (VT + ET) \in Int /\ VouchAmount * back \in Int
  <2>1. \A x, y, z \in Int : x * (y + z) = x * y + x * z /\ x * y \in Int
    OBVIOUS
  <2>2. VouchAmount \in Int /\ VT + ET \in Int /\ back \in Int
    BY <1>7, Constants
  <2>3. V + E = (VT + ET) + back
    BY <1>7
  <2> QED BY <2>1, <2>2, <2>3
<1>14. pool' + Total(own') + Total(inc') + Total(carry') + VouchAmount * (VT + ET) + heldThen
         + 0 + 0 = Supply
  <2> DEFINE p == VouchAmount * (VT + ET)
             q == VouchAmount * back
             r == VouchAmount * (V + E)
  <2>1. p \in Int /\ q \in Int /\ r = p + q
    BY <1>13
  <2>2. /\ Total(own') + Total(inc') + burn = Total(own) + Total(inc) + poolDraw + pay + vest + q
        /\ pool + Total(own) + Total(inc) + Total(carry) + r + held
             + body.price + Total(body.marks) = Supply
    BY <1>4, <1>12
  <2> HIDE DEF p, q, r
  <2>3. pool' + Total(own') + Total(inc') + Total(carry') + p + heldThen + 0 + 0 = Supply
    BY <1>3, <1>4, <1>5, <1>6, <1>8, <1>10, <1>11, <2>1, <2>2
  <2> QED BY <2>3 DEF p
<1>15. QED
  BY <1>9, <1>14 DEF KarmaConserved, heldThen, VT, ET

-----------------------------------------------------------------------------
(* The settlement: what it does to the records *)

(* After the lapse leg every record counts exactly the vouches that stay. *)
LEMMA AfterLapses ==
  ASSUME TypeOK, Standing, body \in OpenBodies, NEW i \in Ids
  PROVE  /\ recAfterLapses[i] \in Records
         /\ recAfterLapses[i].vouched = rec[i].vouched - Cardinality(Counted(lapseLeg, rec, i))
         /\ i \notin lapseTargets => recAfterLapses[i].vouched = rec[i].vouched
         /\ recAfterLapses[i].since = rec[i].since /\ recAfterLapses[i].bar = rec[i].bar
         /\ recAfterLapses[i].invited = rec[i].invited
         /\ recAfterLapses[i].vouched = Cardinality(Counted(vouches \ lapseLeg, rec, i))
<1> DEFINE L == Counted(lapseLeg, rec, i)
           C == Counted(vouches, rec, i)
           D == Counted(vouches \ lapseLeg, rec, i)
<1>1. L \subseteq C /\ D = C \ L /\ C \cap L = L
  BY DEF Counted, lapseLeg
<1>2. IsFiniteSet(C) /\ IsFiniteSet(L) /\ IsFiniteSet(D)
  <2>1. C \subseteq vouches
    BY DEF Counted
  <2> HIDE DEF C, L, D
  <2> QED BY <1>1, <2>1, FS_Subset DEF Standing, BoxesFinite
<1>3. rec[i].vouched = Cardinality(C)
  BY DEF Standing, VouchCountsExact
<1>4. i \notin lapseTargets => L = {}
  BY DEF Counted, lapseTargets
<1> HIDE DEF C, L, D
<1>5. Cardinality(D) = Cardinality(C) - Cardinality(L)
  <2>1. Cardinality(C \ L) = Cardinality(C) - Cardinality(C \cap L)
    BY <1>2, FS_Difference
  <2> QED BY <1>1, <2>1
<1>6. Cardinality(D) \in Nat /\ Cardinality(C) \in Nat /\ Cardinality(L) \in Nat
  BY <1>2, FS_CardinalityType
<1>7. rec[i] \in Records
  BY DEF TypeOK
<1>8. recAfterLapses[i] = [rec[i] EXCEPT !.vouched = rec[i].vouched - Cardinality(L)]
  BY DEF recAfterLapses, L
<1>9. rec[i].vouched - Cardinality(L) = Cardinality(D)
  BY <1>3, <1>5, <1>6
<1>10. /\ recAfterLapses[i] \in Records /\ recAfterLapses[i].vouched = Cardinality(D)
       /\ recAfterLapses[i].since = rec[i].since /\ recAfterLapses[i].bar = rec[i].bar
       /\ recAfterLapses[i].invited = rec[i].invited
  BY <1>6, <1>7, <1>8, <1>9 DEF Records
<1>11. i \notin lapseTargets => recAfterLapses[i].vouched = rec[i].vouched
  <2>1. L = {} => Cardinality(L) = 0
    BY FS_EmptySet
  <2> QED BY <1>3, <1>4, <1>5, <1>6, <1>10, <2>1
<1>12. QED
  BY <1>9, <1>10, <1>11 DEF L, D

(* The grants give standing to invitees of roots only, and only to newcomers. *)
LEMMA AfterGrants ==
  ASSUME TypeOK, Standing, body \in OpenBodies, NEW i \in Ids
  PROVE  /\ recAfterGrants[i] \in Records
         /\ recAfterGrants[i].vouched = recAfterLapses[i].vouched
         /\ i \notin invitees => /\ recAfterGrants[i].since = rec[i].since
                                 /\ recAfterGrants[i].bar = rec[i].bar
                                 /\ recAfterGrants[i].invited = rec[i].invited
         /\ i \in invitees => /\ rec[i].since = 0 /\ recAfterGrants[i].invited = height
                              /\ recAfterGrants[i].since \in {0, height}
<1> DEFINE r == recAfterLapses[i]
           granted == {pair \in body.invited : pair[1] = i}
           conferred == \E pair \in granted : isRoot(recAfterLapses[pair[2]])
           g == IF granted = {} THEN r
                ELSE [r EXCEPT !.act = IF i \in known THEN r.act ELSE height,
                               !.invited = height,
                               !.since = IF conferred THEN height ELSE r.since,
                               !.bar = IF conferred THEN 0 ELSE r.bar]
<1>1. recAfterGrants[i] = [g EXCEPT !.likes = g.likes + body.likes[i], !.mlikes = g.mlikes + body.mlikes[i]]
  BY DEF recAfterGrants
<1>2. /\ r \in Records /\ r.since = rec[i].since /\ r.bar = rec[i].bar /\ r.invited = rec[i].invited
  BY AfterLapses
<1>3. granted = {} <=> i \notin invitees
  BY DEF invitees
<1>4. i \in invitees => rec[i].since = 0
  <2>1. body.open
    BY DEF OpenBodies
  <2> QED BY <2>1 DEF invitees, Standing, StandingKept
<1>5. body.likes[i] \in Nat /\ body.mlikes[i] \in Nat
  BY DEF OpenBodies
<1>6. height \in Nat
  BY Constants DEF TypeOK
<1> HIDE DEF r, granted, conferred
<1>7. /\ g \in Records /\ g.vouched = r.vouched
      /\ granted = {} => g.since = r.since /\ g.bar = r.bar /\ g.invited = r.invited
      /\ granted # {} => g.invited = height /\ g.since \in {r.since, height}
  BY <1>2, <1>6 DEF Records
<1> HIDE DEF g
<1>8. /\ recAfterGrants[i] \in Records /\ recAfterGrants[i].vouched = g.vouched
      /\ recAfterGrants[i].since = g.since /\ recAfterGrants[i].bar = g.bar
      /\ recAfterGrants[i].invited = g.invited
  <2>1. g.likes + body.likes[i] \in Nat /\ g.mlikes + body.mlikes[i] \in Nat
    BY <1>5, <1>7 DEF Records
  <2> QED BY <1>1, <1>7, <2>1 DEF Records
<1>9. QED
  BY <1>2, <1>3, <1>4, <1>7, <1>8 DEF r

(* The membership pass and decay move the standing of those who gain it. *)
LEMMA AfterPass ==
  ASSUME TypeOK, Standing, body \in OpenBodies, NEW i \in Ids, NEW plans,
         \A k \in plans : owedPeriods(body.pre.rec[k], height) > 0
  PROVE  /\ recAfterDecay(plans)[i] \in Records
         /\ recAfterDecay(plans)[i].vouched = recAfterGrants[i].vouched
         /\ recAfterDecay(plans)[i].invited = recAfterGrants[i].invited
         /\ i \in touchedAtEnd /\ gains(i) =>
              /\ recAfterDecay(plans)[i].since = height
              /\ recAfterDecay(plans)[i].bar = membershipBar(members)
         /\ ~(i \in touchedAtEnd /\ gains(i)) =>
              /\ recAfterDecay(plans)[i].since = recAfterGrants[i].since
              /\ recAfterDecay(plans)[i].bar = recAfterGrants[i].bar
<1> DEFINE g == recAfterGrants[i]
           p == recAfterPass[i]
           d == recAfterDecay(plans)[i]
<1>1. g \in Records
  BY AfterGrants
<1>2. height \in Nat /\ membershipBar(members) \in Nat
  <2>1. height \in Nat /\ members \in Nat
    BY Constants DEF TypeOK
  <2> QED BY <2>1, Bars
<1>3. p = IF i \in touchedAtEnd /\ gains(i)
          THEN [g EXCEPT !.since = height, !.bar = membershipBar(members)] ELSE g
  BY DEF recAfterPass
<1>4. d = IF i \in plans THEN [p EXCEPT !.decay = decaySettledThrough(body.pre.rec[i], height)] ELSE p
  BY DEF recAfterDecay
<1> HIDE DEF g, p, d
<1>5. /\ p \in Records /\ p.vouched = g.vouched /\ p.invited = g.invited
      /\ i \in touchedAtEnd /\ gains(i) => p.since = height /\ p.bar = membershipBar(members)
      /\ ~(i \in touchedAtEnd /\ gains(i)) => p.since = g.since /\ p.bar = g.bar
  <2>1. CASE i \in touchedAtEnd /\ gains(i)
    BY <1>1, <1>2, <1>3, <2>1 DEF Records
  <2>2. CASE ~(i \in touchedAtEnd /\ gains(i))
    BY <1>1, <1>3, <2>2
  <2> QED BY <2>1, <2>2
<1>6. /\ d \in Records /\ d.vouched = p.vouched /\ d.invited = p.invited
      /\ d.since = p.since /\ d.bar = p.bar
  <2>1. CASE i \in plans
    <3>1. body.pre.rec[i] \in Records
      BY DEF OpenBodies, Views
    <3>2. decaySettledThrough(body.pre.rec[i], height) \in Nat
      BY <1>2, <2>1, <3>1, Clock
    <3> QED BY <1>4, <1>5, <2>1, <3>2 DEF Records
  <2>2. CASE i \notin plans
    BY <1>4, <1>5, <2>2
  <2> QED BY <2>1, <2>2
<1>7. QED
  BY <1>5, <1>6 DEF g, d

\* What every block's end does to a record, in the terms the invariant speaks of.
RecordSettled(i) ==
  /\ rec'[i] \in Records
  /\ rec'[i].vouched = Cardinality(Counted(vouches \ lapseLeg, rec, i))
  /\ \/ rec'[i].since = rec[i].since
     \/ /\ rec[i].since = 0 /\ rec'[i].since = height
        /\ i \in known \/ i \in invitees
  /\ rec'[i].invited = IF i \in invitees THEN height ELSE rec[i].invited

(* The settlement and the membership pass leave every record so. *)
LEMMA EndRecords ==
  ASSUME TypeOK, Standing, body \in OpenBodies, NEW plans,
         \A k \in plans : owedPeriods(body.pre.rec[k], height) > 0,
         rec' = recAfterDecay(plans)
  PROVE  rec' \in [Ids -> Records] /\ \A i \in Ids : RecordSettled(i)
<1>1. ASSUME NEW i \in Ids
      PROVE  RecordSettled(i)
  <2> DEFINE g == recAfterGrants[i]
  <2>1. /\ rec'[i] \in Records /\ rec'[i].vouched = g.vouched /\ rec'[i].invited = g.invited
        /\ i \in touchedAtEnd /\ gains(i) => rec'[i].since = height
        /\ ~(i \in touchedAtEnd /\ gains(i)) => rec'[i].since = g.since
    BY AfterPass
  <2>2. g.vouched = Cardinality(Counted(vouches \ lapseLeg, rec, i)) /\ g.vouched \in Nat
    BY AfterLapses, AfterGrants DEF Records
  <2>3. /\ i \notin invitees => g.since = rec[i].since /\ g.invited = rec[i].invited
        /\ i \in invitees => rec[i].since = 0 /\ g.invited = height /\ g.since \in {0, height}
    BY AfterGrants
  <2>4. CASE i \in touchedAtEnd /\ gains(i)
    <3>1. g.since = 0 /\ g.vouched >= membershipBar(members)
      BY <2>4 DEF gains
    <3>2. membershipBar(members) \in Nat /\ membershipBar(members) >= 1
      BY Bars DEF TypeOK
    <3>3. g.vouched # 0
      BY <2>2, <3>1, <3>2
    <3>4. Counted(vouches \ lapseLeg, rec, i) # {}
      BY <2>2, <3>3, FS_EmptySet
    <3>5. PICK v \in vouches : v.target = i
      BY <3>4 DEF Counted
    <3>6. i \in known
      BY <3>5 DEF Standing, VouchersStand
    <3>7. rec[i].since = 0
      BY <2>3, <3>1
    <3> HIDE DEF g
    <3> QED BY <2>1, <2>2, <2>3, <2>4, <3>6, <3>7 DEF RecordSettled
  <2>5. CASE ~(i \in touchedAtEnd /\ gains(i))
    <3> HIDE DEF g
    <3> QED BY <2>1, <2>2, <2>3, <2>5 DEF RecordSettled
  <2> QED BY <2>4, <2>5
<1>2. rec' \in [Ids -> Records]
  BY <1>1 DEF RecordSettled, recAfterDecay
<1>3. QED
  BY <1>1, <1>2

\* The membership pass adds exactly the identities that become members and takes off
\* exactly those that stop being so, whatever in the block moved their standing.
LEMMA PassExact ==
  ASSUME TypeOK, Standing, body \in OpenBodies, NEW plans,
         \A k \in plans : owedPeriods(body.pre.rec[k], height) > 0,
         rec' = recAfterDecay(plans)
  PROVE  /\ joined = MembersOf(rec') \ MembersOf(body.pre.rec)
         /\ left = MembersOf(body.pre.rec) \ MembersOf(rec')
<1>1. ASSUME NEW i \in Ids
      PROVE  /\ i \in joined <=> isMember(rec'[i]) /\ ~isMember(body.pre.rec[i])
             /\ i \in left <=> isMember(body.pre.rec[i]) /\ ~isMember(rec'[i])
  <2> DEFINE b == body.pre.rec[i]
             r == rec[i]
             l == recAfterLapses[i]
             g == recAfterGrants[i]
             d == rec'[i]
  <2>1. /\ b \in Records /\ r \in Records /\ r.since = b.since /\ r.bar = b.bar
        /\ i \notin body.touched => r.vouched = b.vouched
        /\ i \in body.touched => (i \in body.was <=> isMember(b))
    BY DEF OpenBodies, Views, TypeOK, Standing, StandingKept
  <2>2. /\ l \in Records /\ l.since = r.since /\ l.bar = r.bar
        /\ i \notin lapseTargets => l.vouched = r.vouched
    BY AfterLapses
  <2>3. /\ g \in Records /\ g.vouched = l.vouched
        /\ i \notin invitees => g.since = r.since /\ g.bar = r.bar
        /\ i \in invitees => r.since = 0
    BY AfterGrants
  <2>4. /\ d \in Records /\ d.vouched = g.vouched
        /\ i \in touchedAtEnd /\ gains(i) => d.since = height /\ d.bar = membershipBar(members)
        /\ ~(i \in touchedAtEnd /\ gains(i)) => d.since = g.since /\ d.bar = g.bar
    BY AfterPass
  <2>5. /\ gains(i) => g.since = 0 /\ g.vouched >= membershipBar(members)
        /\ i \in joined <=> i \in touchedAtEnd /\ (gains(i) \/ (isMember(g) /\ ~wasMember(i)))
        /\ i \in left <=> i \in touchedAtEnd /\ g.since > 0 /\ g.bar > 0 /\ ~isMember(g) /\ wasMember(i)
    <3>1. touchedAtEnd \subseteq Ids
      <4>1. lapseTargets \subseteq Ids
        BY DEF lapseTargets, lapseLeg, TypeOK
      <4>2. invitees \subseteq Ids
        BY DEF invitees, OpenBodies
      <4>3. body.touched \subseteq Ids
        BY DEF OpenBodies
      <4> QED BY <4>1, <4>2, <4>3 DEF touchedAtEnd
    <3> QED BY <3>1 DEF gains, joined, left
  <2>6. height > 0 /\ height \in Nat /\ membershipBar(members) \in Nat
    <3>1. body.open
      BY DEF OpenBodies
    <3>2. height > 0
      BY <3>1 DEF Standing, SinceBounded
    <3>3. height \in Nat /\ members \in Nat
      BY Constants DEF TypeOK
    <3> QED BY <3>2, <3>3, Bars
  <2>7. /\ i \in invitees => ~wasMember(i)
        /\ i \notin invitees /\ i \in body.touched => (wasMember(i) <=> i \in body.was)
        /\ i \notin invitees /\ i \notin body.touched /\ i \in lapseTargets =>
             (wasMember(i) <=> isMember(r))
        /\ i \notin invitees /\ i \notin body.touched /\ i \notin lapseTargets =>
             (wasMember(i) <=> isMember(g))
    BY DEF wasMember
  <2>8. i \in touchedAtEnd \/ (i \notin body.touched /\ i \notin lapseTargets /\ i \notin invitees)
    BY DEF touchedAtEnd
  <2> HIDE DEF b, r, l, g, d
  <2>9. b.since \in Nat /\ b.vouched \in Nat /\ b.bar \in Nat /\ g.since \in Nat /\ g.bar \in Nat
        /\ g.vouched \in Nat /\ r.since \in Nat
    BY <2>1, <2>3 DEF Records
  <2>10. wasMember(i) <=> isMember(b)
    <3>1. CASE i \in invitees
      BY <2>1, <2>3, <2>7, <3>1 DEF isMember
    <3>2. CASE i \notin invitees /\ i \in body.touched
      BY <2>1, <2>7, <3>2
    <3>3. CASE i \notin invitees /\ i \notin body.touched /\ i \in lapseTargets
      BY <2>1, <2>7, <3>3 DEF isMember
    <3>4. CASE i \notin invitees /\ i \notin body.touched /\ i \notin lapseTargets
      BY <2>1, <2>2, <2>3, <2>7, <3>4 DEF isMember
    <3> QED BY <3>1, <3>2, <3>3, <3>4
  <2>11. CASE i \notin touchedAtEnd
    <3>1. isMember(d) <=> isMember(b)
      BY <2>1, <2>2, <2>3, <2>4, <2>8, <2>11 DEF isMember
    <3> QED BY <2>5, <2>11, <3>1 DEF b, d
  <2>12. CASE i \in touchedAtEnd /\ gains(i)
    <3>1. isMember(d)
      BY <2>4, <2>5, <2>6, <2>12 DEF isMember
    <3>2. ~isMember(b)
      BY <2>1, <2>3, <2>5, <2>12, <2>9 DEF isMember
    <3>3. i \in joined /\ i \notin left
      BY <2>5, <2>9, <2>12
    <3> QED BY <3>1, <3>2, <3>3 DEF b, d
  <2>13. CASE i \in touchedAtEnd /\ ~gains(i)
    <3>1. isMember(d) <=> isMember(g)
      BY <2>4, <2>13 DEF isMember
    <3>2. isMember(b) /\ ~isMember(g) => g.since > 0 /\ g.bar > 0
      BY <2>1, <2>3, <2>9 DEF isMember
    <3> QED BY <2>5, <2>10, <2>13, <3>1, <3>2 DEF b, d
  <2> QED BY <2>11, <2>12, <2>13
<1>2. joined \subseteq Ids /\ left \subseteq Ids
  <2>1. lapseTargets \subseteq Ids
    BY DEF lapseTargets, lapseLeg, TypeOK
  <2>2. invitees \subseteq Ids
    BY DEF invitees, OpenBodies
  <2>3. body.touched \subseteq Ids
    BY DEF OpenBodies
  <2> QED BY <2>1, <2>2, <2>3 DEF touchedAtEnd, joined, left
<1>3. QED
  BY <1>1, <1>2 DEF MembersOf

(* A block's end keeps the invariant. *)
LEMMA EndStep ==
  ASSUME TypeOK, BodyOK, PostsOK, Standing, EndBlock
  PROVE  TypeOK' /\ BodyOK' /\ PostsOK' /\ Standing' /\ body \in OpenBodies /\ body' = NoBody
<1>1. body \in OpenBodies /\ body.open
  BY OpenBody DEF EndBlock
<1>2. PICK settled \in SUBSET bonds : Settle(settled, decayPlans(settled))
  BY DEF EndBlock, FirstOf, bondsSettlingAt
<1> DEFINE plans == decayPlans(settled)
<1>3. /\ carry' = [a \in Ids |-> carryOf(a)] /\ vouches' = vouches \ lapseLeg
      /\ escrows' = (escrows \ body.escrows) \cup {EscrowOf(v) : v \in lapseLeg}
      /\ members' = members + Cardinality(joined) - Cardinality(left)
      /\ posts' = [p \in Posts |-> IF p \in body.withdrawn THEN [posts[p] EXCEPT !.live = FALSE]
                                   ELSE posts[p]]
      /\ body' = NoBody
      /\ UNCHANGED <<height, liked, names, txs>>
  BY DEF EndBlock
<1>4. /\ bonds' = bonds \ settled /\ rec' = recAfterDecay(plans)
      /\ known' = known \cup invitees \cup plans \cup {a \in Ids : body.likes[a] > 0}
      /\ pool' = pool - poolDraw + poolSink(settled, plans)
      /\ pool - poolDraw + poolSink(settled, plans) >= 0
  BY <1>2 DEF Settle
<1>5. /\ \A k \in plans : owedPeriods(body.pre.rec[k], height) > 0
      /\ plans \subseteq Ids
  BY <1>1 DEF decayPlans, squaredSet, OpenBodies
<1>6. own' \in [Ids -> Nat] /\ inc' \in [Ids -> Nat] /\ Total([i \in Ids |-> burnOf(i, plans)]) \in Nat
  BY <1>1, <1>2, BoxesSettled
<1> HIDE DEF plans
<1>7. /\ carry' \in [Ids -> Nat] /\ Total([a \in Ids |-> pooledOf(a)]) \in Nat
  BY <1>1, <1>3, CarriesSettled
<1>8. SumOver([b \in settled |-> b.value - vestedPart(b)], settled) \in Nat
  BY <1>4, BondsSettled DEF Standing
<1>9. pool' \in Nat
  <2>1. poolDraw \in Nat
    <3>1. [j \in Ids |-> grantOf(j)] \in [Ids -> Nat] /\ Total([j \in Ids |-> grantOf(j)]) = poolDraw
      BY <1>1, Grants DEF Standing
    <3> QED BY <3>1, Totals
  <2>2. poolSink(settled, plans) \in Nat
    <3>1. body.price \in Nat
      BY <1>1 DEF OpenBodies
    <3> QED BY <1>6, <1>7, <1>8, <3>1 DEF poolSink
  <2>3. pool \in Nat
    BY DEF TypeOK
  <2> QED BY <1>4, <2>1, <2>2, <2>3
<1>10. /\ IsFiniteSet(vouches') /\ IsFiniteSet(escrows')
       /\ vouches' \subseteq VouchSet /\ escrows' \subseteq EscrowSet
       /\ \A v, w \in vouches' : v.voucher = w.voucher /\ v.target = w.target => v = w
       /\ \A v \in vouches', e \in escrows' : e.owner # v.voucher \/ e.target # v.target
  BY <1>1, <1>3, StakesSettled
<1>11. rec' \in [Ids -> Records] /\ \A i \in Ids : RecordSettled(i)
  BY <1>1, <1>4, <1>5, EndRecords
<1>12. invitees \subseteq Ids
  BY <1>1, Grants DEF Standing
<1>13. known' \subseteq Ids /\ known \subseteq known' /\ invitees \subseteq known'
  BY <1>4, <1>5, <1>12 DEF TypeOK
<1>14. /\ body'.open = FALSE /\ body'.invited = {} /\ body'.escrows = {}
  BY <1>3 DEF NoBody
<1>15. height > 0 /\ height \in Nat
  <2>1. height > 0
    BY <1>1 DEF Standing, SinceBounded
  <2>2. height \in Nat
    BY Constants DEF TypeOK
  <2> QED BY <2>1, <2>2
<1>16. \A i \in Ids : rec[i].since \in Nat /\ rec'[i].since \in Nat /\ rec[i].invited \in Nat
  BY <1>11 DEF TypeOK, Records
<1>17. MembersCounted' /\ members' \in Nat
  <2> DEFINE A == MembersOf(body.pre.rec)
             B == MembersOf(rec')
  <2>1. joined = B \ A /\ left = A \ B
    BY <1>1, <1>4, <1>5, PassExact
  <2>2. members = Cardinality(A)
    BY <1>1 DEF Standing, MembersCounted
  <2>3. A \subseteq Ids /\ B \subseteq Ids
    BY DEF MembersOf
  <2> HIDE DEF A, B
  <2>4. IsFiniteSet(A) /\ IsFiniteSet(B) /\ IsFiniteSet(A \cap B)
    BY <2>3, Constants, FS_Subset
  <2>5. /\ Cardinality(B \ A) = Cardinality(B) - Cardinality(B \cap A)
        /\ Cardinality(A \ B) = Cardinality(A) - Cardinality(A \cap B)
    BY <2>4, FS_Difference
  <2>6. B \cap A = A \cap B
    OBVIOUS
  <2>7. Cardinality(A) \in Nat /\ Cardinality(B) \in Nat /\ Cardinality(A \cap B) \in Nat
    BY <2>4, FS_CardinalityType
  <2>8. members' = Cardinality(B)
    <3>1. /\ Cardinality(joined) = Cardinality(B) - Cardinality(A \cap B)
          /\ Cardinality(left) = Cardinality(A) - Cardinality(A \cap B)
      BY <2>1, <2>5, <2>6
    <3> QED BY <1>3, <2>2, <2>7, <3>1
  <2>9. MembersCounted'
    BY <1>14, <2>8 DEF MembersCounted, B
  <2> QED BY <2>7, <2>8, <2>9
<1>18. TypeOK'
  <2>1. bonds' \subseteq [inviter : Ids, invitee : Ids, value : BondMin .. BondMax]
    BY <1>4 DEF TypeOK
  <2>2. body'.open \in BOOLEAN
    BY <1>14
  <2>3. height' \in 0 .. MaxHeight /\ txs' \in 0 .. MaxTxs
        /\ liked' \subseteq Posts \X Ids /\ names' \subseteq Names \X Ids
    BY <1>3 DEF TypeOK
  <2> QED BY <1>6, <1>7, <1>9, <1>10, <1>11, <1>13, <1>17, <2>1, <2>2, <2>3
          DEF TypeOK, VouchSet, EscrowSet
<1>19. BodyOK'
  BY <1>3 DEF BodyOK
<1>20. PostsOK'
  <2>1. \A p \in Posts : posts'[p] \in {NoPost} \cup [author : Ids, at : Nat, live : BOOLEAN]
    <3> SUFFICES ASSUME NEW p \in Posts
                 PROVE  posts'[p] \in {NoPost} \cup [author : Ids, at : Nat, live : BOOLEAN]
      OBVIOUS
    <3> DEFINE x == posts[p]
    <3>1. posts'[p] = IF p \in body.withdrawn THEN [x EXCEPT !.live = FALSE] ELSE x
      BY <1>3
    <3>2. x = NoPost \/ x \in [author : Ids, at : Nat, live : BOOLEAN]
      BY DEF PostsOK
    <3> HIDE DEF x
    <3>3. [NoPost EXCEPT !.live = FALSE] = NoPost
      <4> DEFINE S == [author : {"none"}, at : {0}, live : {FALSE}]
      <4>1. \A y, z \in S : y.author = z.author /\ y.at = z.at /\ y.live = z.live => y = z
        OBVIOUS
      <4>2. \A y, z \in S : y.author = z.author /\ y.at = z.at
        OBVIOUS
      <4>3. \A y, z \in S : y.live = z.live
        OBVIOUS
      <4>4. NoPost \in S /\ [NoPost EXCEPT !.live = FALSE] \in S
        BY DEF NoPost
      <4> QED BY <4>1, <4>2, <4>3, <4>4
    <3>4. x \in [author : Ids, at : Nat, live : BOOLEAN] =>
            [x EXCEPT !.live = FALSE] \in [author : Ids, at : Nat, live : BOOLEAN]
      OBVIOUS
    <3> QED BY <3>1, <3>2, <3>3, <3>4
  <2> QED BY <1>3, <2>1 DEF PostsOK
<1>21. BoxesFinite'
  <2>1. IsFiniteSet(bonds')
    BY <1>4, FS_Difference DEF Standing, BoxesFinite
  <2> QED BY <1>10, <2>1 DEF BoxesFinite
<1>22. StakesApart' /\ InvitedBonds'
  BY <1>10, <1>14 DEF StakesApart, InvitedBonds
<1>23. \A v \in vouches : /\ v.voucher \in Ids /\ v.target \in Ids /\ v.target \in known
                          /\ rec[v.voucher].since > 0
                          /\ rec[v.target].since = 0 => rec[v.voucher].since < height
                          /\ rec'[v.voucher].since = rec[v.voucher].since
  BY <1>11 DEF Standing, VouchersStand, TypeOK, RecordSettled
<1>24. VouchersStand'
  <2> SUFFICES ASSUME NEW v \in vouches'
               PROVE  /\ rec'[v.voucher].since > 0 /\ v.target \in known'
                      /\ rec'[v.target].since = 0 => rec'[v.voucher].since < height'
    BY DEF VouchersStand
  <2>1. v \in vouches
    BY <1>3
  <2>2. rec'[v.target].since = 0 => rec[v.target].since = 0
    BY <1>11, <1>15, <1>23, <2>1 DEF RecordSettled
  <2>3. rec'[v.voucher].since > 0 /\ v.target \in known'
    BY <1>13, <1>23, <2>1
  <2> QED BY <1>3, <1>23, <2>1, <2>2, <2>3
<1>25. SinceBounded'
  <2>1. \A i \in Ids : rec'[i].since <= Greater(1, height)
    BY <1>11, <1>15, <1>16 DEF Standing, SinceBounded, RecordSettled, Greater
  <2> QED BY <1>3, <1>14, <2>1 DEF SinceBounded
<1>26. Young'
  BY <1>3, <1>14, <1>15 DEF Young
<1>27. UnknownStandNot'
  BY <1>11, <1>13 DEF Standing, UnknownStandNot, RecordSettled
<1>28. StandingKept' /\ LapsesTaken'
  BY <1>14 DEF StandingKept, LapsesTaken
<1>29. VouchCountsExact'
  <2> SUFFICES ASSUME NEW t \in Ids
               PROVE  rec'[t].vouched = Cardinality(Counted(vouches', rec', t))
    BY DEF VouchCountsExact
  <2>1. rec'[t].vouched = Cardinality(Counted(vouches', rec, t))
    BY <1>3, <1>11 DEF RecordSettled
  <2>2. ASSUME NEW v \in vouches', v.target = t
        PROVE  isVouchCounted(rec'[v.voucher], rec'[t]) <=> isVouchCounted(rec[v.voucher], rec[t])
    <3>1. v \in vouches
      BY <1>3
    <3>2. /\ rec'[v.voucher].since = rec[v.voucher].since /\ rec[v.voucher].since > 0
          /\ rec[t].since = 0 => rec[v.voucher].since < height
          /\ rec[v.voucher].since \in Nat
      BY <1>16, <1>23, <2>2, <3>1
    <3>3. rec'[t].since = rec[t].since \/ (rec[t].since = 0 /\ rec'[t].since = height)
      BY <1>11 DEF RecordSettled
    <3> QED BY <1>15, <3>2, <3>3 DEF isVouchCounted
  <2>3. Counted(vouches', rec', t) = Counted(vouches', rec, t)
    BY <2>2 DEF Counted
  <2> QED BY <2>1, <2>3
<1>30. BondsHaveInvitees'
  <2>1. \A b \in bonds : b.invitee \in Ids
    BY DEF TypeOK
  <2>2. ASSUME NEW b \in bonds'
        PROVE  b.invitee \in known' /\ rec'[b.invitee].invited > 0
    <3>1. b \in bonds /\ b.invitee \in Ids
      BY <1>4, <2>1
    <3>2. rec'[b.invitee].invited = IF b.invitee \in invitees THEN height ELSE rec[b.invitee].invited
      BY <1>11, <3>1 DEF RecordSettled
    <3>3. \/ b.invitee \in known /\ rec[b.invitee].invited > 0
          \/ b.invitee \in invitees
      <4>1. \/ b.invitee \in known /\ rec[b.invitee].invited > 0
            \/ <<b.invitee, b.inviter>> \in body.invited
        BY <3>1 DEF Standing, BondsHaveInvitees
      <4>2. <<b.invitee, b.inviter>>[1] = b.invitee
        OBVIOUS
      <4>3. <<b.invitee, b.inviter>> \in body.invited => b.invitee \in invitees
        BY <4>2 DEF invitees
      <4> QED BY <4>1, <4>3
    <3> QED BY <1>13, <1>15, <3>2, <3>3
  <2>3. \A b, c \in bonds' : b.invitee = c.invitee => b = c
    BY <1>4 DEF Standing, BondsHaveInvitees
  <2> QED BY <2>2, <2>3 DEF BondsHaveInvitees
<1>31. QED
  BY <1>1, <1>3, <1>17, <1>18, <1>19, <1>20, <1>21, <1>22, <1>24, <1>25, <1>26, <1>27, <1>28,
     <1>29, <1>30 DEF Standing

-----------------------------------------------------------------------------
(* Conservation *)

\* The karma in bonds.
Bonded == SumOver([b \in bonds |-> b.value], bonds)
\* The number of stakes, in vouches and in escrows.
Staked == Cardinality(vouches) + Cardinality(escrows)

\* The parts of the conserved sum are amounts.
Booked ==
  /\ pool \in Nat /\ Total(own) \in Nat /\ Total(inc) \in Nat /\ Total(carry) \in Nat
  /\ Staked \in Nat /\ VouchAmount * Staked \in Nat /\ Bonded \in Nat
  /\ body.price \in Nat /\ Total(body.marks) \in Nat
  /\ KarmaConserved <=> pool + Total(own) + Total(inc) + Total(carry) + VouchAmount * Staked
                          + Bonded + body.price + Total(body.marks) = Supply

(* The conserved sum, unfolded. *)
LEMMA Book ==
  TypeOK /\ BodyOK /\ BoxesFinite => Booked
<1> SUFFICES ASSUME TypeOK, BodyOK, BoxesFinite
             PROVE  Booked
  OBVIOUS
<1>1. pool \in Nat /\ Total(own) \in Nat /\ Total(inc) \in Nat /\ Total(carry) \in Nat
  BY Totals DEF TypeOK
<1>2. Cardinality(vouches) \in Nat /\ Cardinality(escrows) \in Nat
  BY FS_CardinalityType DEF BoxesFinite
<1>3. Staked \in Nat /\ VouchAmount * Staked \in Nat
  <2>1. \A x, y \in Nat : x * y \in Nat
    OBVIOUS
  <2>2. Staked \in Nat
    BY <1>2 DEF Staked
  <2> QED BY <2>1, <2>2, Constants
<1>4. Bonded \in Nat
  <2> DEFINE val == [b \in bonds |-> b.value]
  <2>1. \A b \in bonds : val[b] \in Nat
    BY Vested
  <2> HIDE DEF val
  <2>2. SumOver(val, bonds) \in Nat
    BY <2>1, SumNat DEF BoxesFinite
  <2> QED BY <2>2 DEF Bonded, val
<1>5. body.price \in Nat /\ body.marks \in [Ids -> Nat]
  <2>1. CASE body = NoBody
    BY <2>1 DEF NoBody
  <2>2. CASE body \in OpenBodies
    BY <2>2 DEF OpenBodies
  <2> QED BY <2>1, <2>2 DEF BodyOK
<1>6. Total(body.marks) \in Nat
  BY <1>5, Totals
<1>7. KarmaConserved <=> pool + Total(own) + Total(inc) + Total(carry) + VouchAmount * Staked
                           + Bonded + body.price + Total(body.marks) = Supply
  BY DEF KarmaConserved, Staked, Bonded
<1>8. QED
  BY <1>1, <1>3, <1>4, <1>5, <1>6, <1>7 DEF Booked

(* And after a step. *)
LEMMA BookThen ==
  TypeOK' /\ BodyOK' /\ BoxesFinite' => Booked'
BY Book, PTL

(* A quiet transaction conserves karma. *)
LEMMA QuietConserves ==
  ASSUME TypeOK, BodyOK, BoxesFinite, TypeOK', BodyOK', BoxesFinite', KarmaConserved,
         UNCHANGED <<vouches, escrows, bonds, carry, pool>>, Balanced
  PROVE  KarmaConserved'
<1>1. Booked /\ Booked'
  BY Book, BookThen
<1>2. Staked' = Staked /\ Bonded' = Bonded
  BY DEF Staked, Bonded
<1>3. VouchAmount * Staked' = VouchAmount * Staked
  BY <1>2
<1>4. pool' = pool /\ Total(carry') = Total(carry)
  OBVIOUS
<1>5. body'.price + Total(body'.marks) + Total(own') + Total(inc')
        = body.price + Total(body.marks) + Total(own) + Total(inc)
  BY DEF Balanced
<1>6. pool + Total(own) + Total(inc) + Total(carry) + VouchAmount * Staked
        + Bonded + body.price + Total(body.marks) = Supply
  BY <1>1 DEF Booked
<1>7. pool' + Total(own') + Total(inc') + Total(carry') + VouchAmount * Staked'
        + Bonded' + body'.price + Total(body'.marks) = Supply
  <2>1. /\ pool \in Nat /\ Total(own) \in Nat /\ Total(inc) \in Nat /\ Total(carry) \in Nat
        /\ VouchAmount * Staked \in Nat /\ Bonded \in Nat
        /\ body.price \in Nat /\ Total(body.marks) \in Nat
    BY <1>1 DEF Booked
  <2>2. /\ Total(own') \in Nat /\ Total(inc') \in Nat
        /\ body'.price \in Nat /\ Total(body'.marks) \in Nat
    BY <1>1 DEF Booked
  <2> QED BY <1>2, <1>3, <1>4, <1>5, <1>6, <2>1, <2>2
<1>8. QED
  BY <1>1, <1>7 DEF Booked

(* So does one that locks k stakes out of spendable karma. *)
LEMMA StakeConserves ==
  ASSUME TypeOK, BodyOK, BoxesFinite, TypeOK', BodyOK', BoxesFinite', KarmaConserved,
         NEW k \in Nat, Staked' = Staked + k,
         Total(own') + Total(inc') = Total(own) + Total(inc) - VouchAmount * k,
         UNCHANGED <<bonds, carry, pool>>, body'.price = body.price, body'.marks = body.marks
  PROVE  KarmaConserved'
<1>1. Booked /\ Booked'
  BY Book, BookThen
<1>2. Bonded' = Bonded /\ pool' = pool /\ Total(carry') = Total(carry)
      /\ Total(body'.marks) = Total(body.marks)
  BY DEF Bonded
<1>3. VouchAmount * Staked' = VouchAmount * Staked + VouchAmount * k /\ VouchAmount * k \in Int
  <2>1. \A x, y, z \in Int : x * (y + z) = x * y + x * z /\ x * y \in Int
    OBVIOUS
  <2>2. VouchAmount \in Int /\ Staked \in Int /\ k \in Int
    BY <1>1, Constants DEF Booked
  <2> QED BY <2>1, <2>2
<1>4. QED
  BY <1>1, <1>2, <1>3 DEF Booked

(* So does one that locks a bond. *)
LEMMA BondConserves ==
  ASSUME TypeOK, BodyOK, BoxesFinite, TypeOK', BodyOK', BoxesFinite', KarmaConserved,
         NEW bond \in bonds', bond \notin bonds, bonds' = bonds \cup {bond},
         Total(own') + Total(inc') = Total(own) + Total(inc) - bond.value,
         UNCHANGED <<vouches, escrows, carry, pool>>, body'.price = body.price, body'.marks = body.marks
  PROVE  KarmaConserved'
<1>1. Booked /\ Booked'
  BY Book, BookThen
<1>2. Staked' = Staked /\ pool' = pool /\ Total(carry') = Total(carry)
      /\ Total(body'.marks) = Total(body.marks)
  BY DEF Staked
<1>3. Bonded' = Bonded + bond.value /\ bond.value \in Nat
  <2> DEFINE then == [b \in bonds' |-> b.value]
             now == [b \in bonds |-> b.value]
  <2>1. \A b \in bonds' : b.value \in Nat
    BY Constants DEF TypeOK
  <2>2. (\A b \in bonds' : then[b] \in Int) /\ then[bond] = bond.value
    BY <2>1
  <2>3. \A b \in bonds : then[b] = now[b]
    OBVIOUS
  <2>4. bonds' \ {bond} = bonds
    OBVIOUS
  <2>5. Bonded' = SumOver(then, bonds') /\ Bonded = SumOver(now, bonds)
    BY DEF Bonded
  <2> HIDE DEF then, now
  <2>6. SumOver(then, bonds') = then[bond] + SumOver(then, bonds' \ {bond})
    BY <2>2, SumSplit DEF BoxesFinite
  <2>7. SumOver(then, bonds) = SumOver(now, bonds)
    BY <2>3, SumEqual DEF BoxesFinite
  <2>8. Bonded' = bond.value + Bonded
    BY <2>2, <2>4, <2>5, <2>6, <2>7
  <2> QED BY <1>1, <2>1, <2>8 DEF Booked
<1>4. VouchAmount * Staked' = VouchAmount * Staked
  BY <1>2
<1>5. QED
  BY <1>1, <1>2, <1>3, <1>4 DEF Booked

(* Genesis gives out the committee's karma and pools the rest of the supply. *)
LEMMA InitConserves ==
  ASSUME Init
  PROVE  KarmaConserved
<1> DEFINE g == [i \in Committee |-> GenesisKarma]
           ones == [i \in Committee |-> 1]
           C == Cardinality(Committee)
<1>1. TypeOK /\ BodyOK /\ BoxesFinite
  BY InitStanding DEF Standing
<1>2. Booked
  BY <1>1, Book
<1>3. /\ pool = Supply - C * GenesisKarma /\ inc = Zero /\ carry = Zero
      /\ vouches = {} /\ escrows = {} /\ bonds = {} /\ body.price = 0 /\ body.marks = Zero
      /\ \A i \in Ids : own[i] = IF i \in Committee THEN GenesisKarma ELSE 0
  BY DEF Init, NoBody, Zero
<1>4. Total(Zero) = 0
  <2>1. \A i \in Ids : Zero[i] = 0
    BY DEF Zero
  <2> QED BY <2>1, Constants, SumZero DEF Total
<1>5. Staked = 0 /\ Bonded = 0
  <2>1. Cardinality({}) = 0
    BY FS_EmptySet
  <2> QED BY <1>3, <2>1, SumEmpty DEF Staked, Bonded
<1>6. IsFiniteSet(Ids) /\ IsFiniteSet(Committee) /\ IsFiniteSet(Ids \ Committee)
      /\ Committee \subseteq Ids /\ GenesisKarma \in Nat /\ C \in Nat /\ Supply \in Nat
  BY Constants, FS_Subset
<1>7. SumOver(own, Ids) = SumOver(own, Committee) + SumOver(own, Ids \ Committee)
  <2>1. \A i \in Ids : own[i] \in Int
    BY <1>1 DEF TypeOK
  <2> QED BY <1>6, <2>1, SumSubset
<1>8. SumOver(own, Ids \ Committee) = 0
  <2>1. \A i \in Ids \ Committee : own[i] = 0
    BY <1>3
  <2> QED BY <1>6, <2>1, SumZero
<1>9. SumOver(own, Committee) = GenesisKarma * SumOver(ones, Committee)
  <2>1. \A i \in Committee : ones[i] \in Int /\ own[i] = GenesisKarma * ones[i]
    BY <1>3, <1>6
  <2>2. GenesisKarma \in Int
    BY <1>6
  <2> HIDE DEF ones
  <2> QED BY <1>6, <2>1, <2>2, SumScale
<1>10. SumOver(ones, Committee) = C
  <2>1. \A i \in Committee : ones[i] = 1
    OBVIOUS
  <2> HIDE DEF ones
  <2> QED BY <1>6, <2>1, SumOnes
<1>11. Total(own) = C * GenesisKarma
  <2>1. \A x, y \in Nat : x * y = y * x /\ x * y \in Nat
    OBVIOUS
  <2> HIDE DEF ones, C
  <2>2. SumOver(own, Ids) = C * GenesisKarma
    BY <1>6, <1>7, <1>8, <1>9, <1>10, <2>1
  <2> QED BY <2>2 DEF Total
<1>12. VouchAmount * Staked = 0
  BY <1>5, Constants
<1> HIDE DEF C
<1>13. QED
  BY <1>2, <1>3, <1>4, <1>5, <1>6, <1>11, <1>12 DEF Booked

-----------------------------------------------------------------------------
(* Every step of the composed ledger *)

(* A credit transaction leaves the karma ledger alone. *)
LEMMA CreditStep ==
  ASSUME TypeOK, BodyOK, PostsOK, NEW kind, CreditTx(kind)
  PROVE  /\ Quiet /\ TypeOK' /\ PostsOK' /\ Balanced
         /\ UNCHANGED <<own, inc, posts, height>> /\ body'.pre = body.pre
<1>1. body \in OpenBodies
  BY OpenBody DEF CreditTx, InBody
<1>2. /\ UNCHANGED <<height, own, inc, vouches, escrows, bonds, carry, pool>>
      /\ UNCHANGED <<known, rec, posts, liked, names, members>>
      /\ body' = [body EXCEPT !.size = body.size + 1] /\ txs' = txs + 1 /\ txs < MaxTxs
  BY DEF CreditTx, InBody, boxVars, recordVars
<1>3. body.size + 1 \in Nat
  BY <1>1 DEF OpenBodies
<1>4. body' \in OpenBodies
  BY <1>1, <1>2, <1>3, Zenon DEF OpenBodies
<1>5. Kept(body, body') /\ body'.price = body.price /\ body'.marks = body.marks
  BY <1>1, <1>2 DEF OpenBodies, Kept
<1>6. \A i \in Ids : SameStanding(rec[i], rec'[i])
  BY <1>2 DEF SameStanding
<1>7. Quiet
  BY <1>1, <1>2, <1>4, <1>5, <1>6 DEF Quiet, TypeOK
<1>8. TypeOK'
  <2>1. txs' \in 0 .. MaxTxs
    BY <1>2, Constants DEF TypeOK
  <2>2. body'.open \in BOOLEAN
    BY <1>4 DEF OpenBodies
  <2> QED BY <1>2, <2>1, <2>2 DEF TypeOK
<1>9. PostsOK' /\ Balanced
  BY <1>2, <1>5 DEF PostsOK, Balanced
<1>10. QED
  BY <1>2, <1>5, <1>7, <1>8, <1>9 DEF Kept

(* Every credit transaction is of some kind. *)
LEMMA CreditKinds ==
  ASSUME CreditTransaction
  PROVE  \E kind : CreditTx(kind)
<1>1. \A ins, to, amount, fee, lock, born :
        Transfer(ins, to, amount, fee, lock, born) => CreditTx("transfer")
  BY DEF Transfer
<1>2. \A x : Rent(x) => CreditTx("rent")
  BY DEF Rent
<1>3. \A s, weight : Unstake(s, weight) => CreditTx("unstake")
  BY DEF Unstake
<1>4. CreditTx("transfer") \/ CreditTx("rent") \/ CreditTx("unstake")
  BY <1>1, <1>2, <1>3, Zenon DEF CreditTransaction
<1>5. QED
  BY <1>4, Zenon

(* Together: a quiet transaction keeps the invariant and the sum. *)
LEMMA QuietStep ==
  ASSUME IInv, Quiet, TypeOK', PostsOK', Balanced
  PROVE  IInv' /\ (KarmaConserved => KarmaConserved')
<1>1. Standing'
  BY QuietStanding DEF IInv
<1>2. BodyOK'
  BY DEF BodyOK, Quiet
<1>3. UNCHANGED <<vouches, escrows, bonds, carry, pool>>
  BY DEF Quiet
<1>4. BoxesFinite /\ BoxesFinite'
  BY <1>1 DEF IInv, Standing
<1>5. KarmaConserved => KarmaConserved'
  BY <1>2, <1>3, <1>4, QuietConserves DEF IInv
<1>6. QED
  BY <1>1, <1>2, <1>5 DEF IInv

\* A transaction leaves the block open, and its pre-body view as it was taken.
BodyGoesOn ==
  body \in OpenBodies /\ body' \in OpenBodies /\ body'.pre = body.pre /\ height' = height

(* Every transaction keeps the invariant and the sum. *)
LEMMA TransactionStep ==
  ASSUME IInv, Transaction
  PROVE  /\ IInv' /\ (KarmaConserved => KarmaConserved') /\ BodyGoesOn
<1> USE DEF IInv
<1>1. ASSUME NEW i \in Ids, NEW w \in BOOLEAN,
             \/ Merge(i, w)
             \/ \E p \in Posts : Thread(i, w, p) \/ Like(i, w, p) \/ Withdraw(i, w, p)
             \/ \E p, parent \in Posts : Reply(i, w, p, parent)
             \/ \E n \in Names : Claim(i, w, n) \/ Burn(i, w, n)
      PROVE  IInv' /\ (KarmaConserved => KarmaConserved') /\ BodyGoesOn
  <2>1. Quiet /\ TypeOK' /\ PostsOK' /\ Balanced
    <3>1. CASE \E p \in Posts : Thread(i, w, p)
      BY <3>1, ThreadStep
    <3>2. CASE \E p, parent \in Posts : Reply(i, w, p, parent)
      BY <3>2, ReplyStep
    <3>3. CASE \E p \in Posts : Like(i, w, p)
      BY <3>3, LikeStep
    <3>4. CASE \/ \E p \in Posts : Withdraw(i, w, p)
               \/ \E n \in Names : Claim(i, w, n) \/ Burn(i, w, n)
               \/ Merge(i, w)
      BY <3>4, PlainStep
    <3> QED BY <1>1, <3>1, <3>2, <3>3, <3>4
  <2> QED BY <2>1, QuietStep DEF Quiet, Kept, BodyGoesOn
<1>2. ASSUME NEW i \in Ids, NEW w \in BOOLEAN, NEW t \in Ids, NEW cast \in 1 .. MaxHeight,
             Vouch(i, w, t, cast)
      PROVE  IInv' /\ (KarmaConserved => KarmaConserved') /\ BodyGoesOn
  <2>1. /\ TypeOK' /\ BodyOK' /\ PostsOK' /\ Standing'
        /\ body \in OpenBodies /\ body' \in OpenBodies /\ body'.pre = body.pre /\ height' = height
        /\ UNCHANGED <<carry, pool, bonds, escrows>>
        /\ body'.price = body.price /\ body'.marks = body.marks
        /\ Total(own') + Total(inc') = Total(own) + Total(inc) - VouchAmount
        /\ Cardinality(vouches') = Cardinality(vouches) + 1
    BY <1>2, VouchStep
  <2>2. BoxesFinite /\ BoxesFinite'
    BY <2>1 DEF Standing
  <2>3. Cardinality(vouches) \in Nat /\ Cardinality(escrows) \in Nat
    BY <2>2, FS_CardinalityType DEF BoxesFinite
  <2>4. Staked' = Staked + 1
    BY <2>1, <2>3 DEF Staked
  <2>5. VouchAmount = VouchAmount * 1
    BY Constants
  <2>6. Total(own') + Total(inc') = Total(own) + Total(inc) - VouchAmount * 1
    BY <2>1, <2>5
  <2>7. KarmaConserved => KarmaConserved'
    BY <2>1, <2>2, <2>4, <2>6, StakeConserves
  <2> QED BY <2>1, <2>7 DEF BodyGoesOn
<1>3. ASSUME NEW v \in vouches, Unvouch(v)
      PROVE  IInv' /\ (KarmaConserved => KarmaConserved') /\ BodyGoesOn
  <2>1. /\ TypeOK' /\ BodyOK' /\ PostsOK' /\ Standing'
        /\ body \in OpenBodies /\ body' \in OpenBodies /\ body'.pre = body.pre /\ height' = height
        /\ UNCHANGED <<carry, pool, bonds, own, inc>>
        /\ body'.price = body.price /\ body'.marks = body.marks
        /\ Cardinality(vouches') = Cardinality(vouches) - 1
        /\ Cardinality(escrows') = Cardinality(escrows) + 1
    BY <1>3, UnvouchStep
  <2>2. BoxesFinite /\ BoxesFinite'
    BY <2>1 DEF Standing
  <2>3. Cardinality(vouches) \in Nat /\ Cardinality(escrows) \in Nat
    BY <2>2, FS_CardinalityType DEF BoxesFinite
  <2>4. Staked' = Staked + 0
    BY <2>1, <2>3 DEF Staked
  <2>5. VouchAmount * 0 = 0 /\ Total(own) \in Nat /\ Total(inc) \in Nat
    BY Constants, Totals DEF TypeOK
  <2>6. Total(own') + Total(inc') = Total(own) + Total(inc) - VouchAmount * 0
    BY <2>1, <2>5
  <2>7. KarmaConserved => KarmaConserved'
    BY <2>1, <2>2, <2>4, <2>6, StakeConserves
  <2> QED BY <2>1, <2>7 DEF BodyGoesOn
<1>4. ASSUME NEW i \in Ids, NEW w \in BOOLEAN, NEW j \in Ids, NEW amount \in BondAmounts,
             Invite(i, w, j, amount)
      PROVE  IInv' /\ (KarmaConserved => KarmaConserved') /\ BodyGoesOn
  <2>1. /\ TypeOK' /\ BodyOK' /\ PostsOK' /\ Standing'
        /\ body \in OpenBodies /\ body' \in OpenBodies /\ body'.pre = body.pre /\ height' = height
        /\ UNCHANGED <<carry, pool, vouches, escrows>>
        /\ body'.price = body.price /\ body'.marks = body.marks
        /\ Total(own') + Total(inc') = Total(own) + Total(inc) - amount
        /\ \E bond \in bonds' : bond.value = amount /\ bond \notin bonds
                                /\ bonds' = bonds \cup {bond}
    BY <1>4, InviteStep
  <2>2. BoxesFinite /\ BoxesFinite'
    BY <2>1 DEF Standing
  <2>3. PICK bond \in bonds' : bond.value = amount /\ bond \notin bonds /\ bonds' = bonds \cup {bond}
    BY <2>1
  <2>4. Total(own') + Total(inc') = Total(own) + Total(inc) - bond.value
    BY <2>1, <2>3
  <2>5. KarmaConserved => KarmaConserved'
    BY <2>1, <2>2, <2>3, <2>4, BondConserves
  <2> QED BY <2>1, <2>5 DEF BodyGoesOn
<1>5. QED
  BY <1>1, <1>2, <1>3, <1>4 DEF Transaction

(* So does every step of the ledger. *)
LEMMA LedgerStep ==
  ASSUME IInv, [LedgerNext]_ledgerVars
  PROVE  IInv' /\ (KarmaConserved => KarmaConserved')
<1>1. CASE BeginBlock
  <2>1. /\ IInv' /\ UNCHANGED boxVars /\ body = NoBody /\ body'.price = 0 /\ body'.marks = Zero
    BY <1>1, BeginStep DEF IInv
  <2>2. UNCHANGED <<own, inc, vouches, escrows, bonds, carry, pool>>
    BY <2>1 DEF boxVars
  <2>3. body.price = 0 /\ body.marks = Zero
    BY <2>1 DEF NoBody, Zero
  <2>4. Balanced
    BY <2>1, <2>2, <2>3 DEF Balanced
  <2>5. BoxesFinite /\ BoxesFinite'
    BY <2>1 DEF IInv, Standing
  <2> QED BY <2>1, <2>2, <2>4, <2>5, QuietConserves DEF IInv
<1>2. CASE Transaction
  BY <1>2, TransactionStep
<1>3. CASE CreditTransaction
  <2>1. PICK kind : CreditTx(kind)
    BY <1>3, CreditKinds
  <2> QED BY <2>1, CreditStep, QuietStep DEF IInv
<1>4. CASE EndBlock
  BY <1>4, EndStep, EndConserves DEF IInv
<1>5. CASE UNCHANGED ledgerVars
  <2>1. /\ UNCHANGED <<height, own, inc, vouches, escrows, bonds, carry, pool, known, rec>>
        /\ UNCHANGED <<posts, liked, names, members, body, txs, scope>>
    BY <1>5 DEF ledgerVars, vars, boxVars, recordVars
  <2>2. IInv'
    BY <2>1 DEF IInv, TypeOK, BodyOK, PostsOK, Standing, BoxesFinite, StakesApart, InvitedBonds,
                VouchersStand, SinceBounded, Young, UnknownStandNot, StandingKept, MembersCounted,
                LapsesTaken, VouchCountsExact, BondsHaveInvitees
  <2>3. KarmaConserved => KarmaConserved'
    BY <2>1 DEF KarmaConserved
  <2> QED BY <2>2, <2>3
<1>6. QED
  BY <1>1, <1>2, <1>3, <1>4, <1>5 DEF LedgerNext

(* The invariant gives what the records promise. *)
LEMMA CountsMembers ==
  IInv => RecordsExact
<1> SUFFICES ASSUME IInv PROVE RecordsExact
  OBVIOUS
<1>1. MemberCountExact
  <2> SUFFICES ASSUME ~body.open
               PROVE  members = Cardinality({i \in known : isMember(rec[i])})
    BY DEF MemberCountExact
  <2>1. members = Cardinality(MembersOf(rec))
    BY DEF IInv, Standing, MembersCounted
  <2>2. MembersOf(rec) = {i \in known : isMember(rec[i])}
    BY DEF MembersOf, IInv, Standing, UnknownStandNot, TypeOK, isMember
  <2> QED BY <2>1, <2>2
<1>2. QED
  BY <1>1 DEF IInv, Standing, RecordsExact

\* For every committee, supply, price and bound: what the identity records keep is what the
\* boxes say, after every transaction and every block.
THEOREM RecordsHold ==
  LedgerSpec => []RecordsExact
<1>1. LedgerInit => IInv
  BY InitStanding DEF LedgerInit, IInv
<1>2. IInv /\ [LedgerNext]_ledgerVars => IInv'
  BY LedgerStep
<1>3. QED
  BY <1>1, <1>2, CountsMembers, PTL DEF LedgerSpec

\* No transaction and no settlement makes or loses karma.
THEOREM KarmaHolds ==
  LedgerSpec => []KarmaConserved
<1>1. LedgerInit => IInv /\ KarmaConserved
  BY InitStanding, InitConserves DEF LedgerInit, IInv
<1>2. IInv /\ KarmaConserved /\ [LedgerNext]_ledgerVars => (IInv /\ KarmaConserved)'
  BY LedgerStep
<1>3. QED
  BY <1>1, <1>2, PTL DEF LedgerSpec

-----------------------------------------------------------------------------
(* What a body may spend, and what a block's end leaves *)

\* The identity i posted in the block of height h.
Posted(ps, i, h) == \E p \in Posts : ps[p].author = i /\ ps[p].at = h

\* What left an identity's boxes since the block began is within its effective karma.
Within(face, held, r, h, posted) ==
  LET spent == face - held
      effective == effectiveKarma(face, r, h)
  IN  spent <= effective /\ (spent > 0 /\ ~posted => effective - spent >= KarmaMinimum)

(* SpendsWithinEffective in these terms. *)
LEMMA SpendsUnfold ==
  SpendsWithinEffective <=>
    (body.open => \A i \in Ids : Within(preFace(i), own[i] + inc[i], body.pre.rec[i], height,
                                        Posted(posts, i, height)))
BY DEF SpendsWithinEffective, Within, Posted

(* And after a step. *)
LEMMA SpendsUnfoldThen ==
  SpendsWithinEffective' <=>
    (body'.open => \A i \in Ids : Within(preFace(i)', own'[i] + inc'[i], body'.pre.rec[i], height',
                                         Posted(posts', i, height')))
BY DEF SpendsWithinEffective, Within, Posted

\* A body's boxes move by one spend, or not at all; its posts only grow.
LEMMA SpendKeeps ==
  ASSUME IInv, SpendsWithinEffective, body \in OpenBodies, NEW i \in Ids, NEW w \in BOOLEAN,
         NEW spend \in Nat, NEW isPost \in BOOLEAN, KarmaSpend(i, w, spend, isPost),
         body'.pre = body.pre, height' = height,
         \A k \in Ids : Posted(posts, k, height) => Posted(posts', k, height),
         isPost => Posted(posts', i, height)
  PROVE  SpendsWithinEffective'
<1> USE DEF IInv
<1>1. /\ \A k \in Ids \ {i} : own'[k] = own[k] /\ inc'[k] = inc[k]
      /\ own'[i] + inc'[i] = own[i] + inc[i] - spend
  <2>1. own \in [Ids -> Nat] /\ inc \in [Ids -> Nat]
    BY DEF TypeOK
  <2> QED BY <2>1, Spend
<1>2. body.open
  BY DEF OpenBodies
<1>3. \A k \in Ids : Within(preFace(k), own[k] + inc[k], body.pre.rec[k], height,
                            Posted(posts, k, height))
  BY <1>2, SpendsUnfold
<1>4. \A k \in Ids : preFace(k)' = preFace(k)
  BY DEF preFace
<1>5. ASSUME NEW k \in Ids
      PROVE  Within(preFace(k), own'[k] + inc'[k], body.pre.rec[k], height,
                    Posted(posts', k, height))
  <2>1. preFace(k) \in Nat /\ own[k] \in Nat /\ inc[k] \in Nat /\ body.pre.rec[k] \in Records
    BY DEF preFace, OpenBodies, Views, TypeOK
  <2>2. height \in Nat
    BY Constants DEF TypeOK
  <2> DEFINE face == preFace(k)
             eff == effectiveKarma(face, body.pre.rec[k], height)
  <2>3. eff \in Nat /\ karmaOwed(face, body.pre.rec[k], height) = face - eff
    <3>1. eff \in 0 .. face /\ karmaOwed(face, body.pre.rec[k], height) = face - eff
      BY <2>1, <2>2, Effective
    <3> QED BY <2>1, <3>1
  <2>4. Within(face, own[k] + inc[k], body.pre.rec[k], height, Posted(posts, k, height))
    BY <1>3
  <2>5. Posted(posts, k, height) => Posted(posts', k, height)
    OBVIOUS
  <2>6. CASE k # i
    <3>1. own'[k] = own[k] /\ inc'[k] = inc[k]
      BY <1>1, <2>6
    <3> QED BY <2>4, <2>5, <3>1 DEF Within
  <2>7. CASE k = i
    <3>1. spend > 0 => IF isPost THEN own[k] + inc[k] - (face - eff) >= spend
                                 ELSE (own[k] + inc[k] - (face - eff)) - spend >= KarmaMinimum
      <4>1. LET owed == karmaOwed(preFace(i), body.pre.rec[i], height)
            IN  spend > 0 => IF isPost THEN own[i] + inc[i] - owed >= spend
                                       ELSE (own[i] + inc[i] - owed) - spend >= KarmaMinimum
        BY DEF KarmaSpend
      <4>2. karmaOwed(preFace(i), body.pre.rec[i], height) = face - eff
        BY <2>3, <2>7
      <4> HIDE DEF face, eff
      <4> QED BY <2>7, <4>1, <4>2
    <3>2. own'[k] + inc'[k] = own[k] + inc[k] - spend
      BY <1>1, <2>7
    <3>3. isPost => Posted(posts', k, height)
      BY <2>7
    <3>4. /\ face - (own[k] + inc[k]) <= eff
          /\ face - (own[k] + inc[k]) > 0 /\ ~Posted(posts, k, height) =>
               eff - (face - (own[k] + inc[k])) >= KarmaMinimum
      BY <2>4 DEF Within
    <3> HIDE DEF face, eff
    <3>5. face \in Nat /\ eff \in Nat /\ KarmaMinimum \in Nat /\ own[k] \in Nat /\ inc[k] \in Nat
      BY <2>1, <2>3, Constants DEF face
    <3>6. face - (own[k] + inc[k] - spend) <= eff
      BY <3>1, <3>4, <3>5
    <3>7. face - (own[k] + inc[k] - spend) > 0 /\ ~Posted(posts', k, height) =>
             eff - (face - (own[k] + inc[k] - spend)) >= KarmaMinimum
      BY <2>5, <3>1, <3>3, <3>4, <3>5
    <3> QED BY <3>2, <3>6, <3>7 DEF Within, eff, face
  <2> QED BY <2>6, <2>7
<1>6. QED
  BY <1>4, <1>5, SpendsUnfoldThen

(* A post makes its author one who posted in this block, and unmakes nobody. *)
LEMMA PostAdded ==
  ASSUME PostsOK, NEW p \in Posts, posts[p] = NoPost, NEW i \in Ids, height \in Nat \ {0},
         posts' = [posts EXCEPT ![p] = [author |-> i, at |-> height, live |-> TRUE]]
  PROVE  /\ \A k \in Ids : Posted(posts, k, height) => Posted(posts', k, height)
         /\ Posted(posts', i, height)
<1>1. posts'[p].author = i /\ posts'[p].at = height /\ posts[p].at = 0
  BY DEF PostsOK, NoPost
<1>2. \A q \in Posts \ {p} : posts'[q] = posts[q]
  BY DEF PostsOK
<1>3. QED
  BY <1>1, <1>2 DEF Posted

(* Every transaction keeps the body's spending within effective karma. *)
LEMMA TransactionSpends ==
  ASSUME IInv, SpendsWithinEffective, Transaction
  PROVE  SpendsWithinEffective'
<1> USE DEF IInv
<1>0. body \in OpenBodies /\ body'.pre = body.pre /\ height' = height
  BY TransactionStep DEF BodyGoesOn
<1>1. height \in Nat \ {0}
  <2>1. height \in Nat
    BY Constants DEF TypeOK
  <2>2. height > 0
    BY <1>0 DEF Standing, SinceBounded, OpenBodies
  <2> QED BY <2>1, <2>2
<1>3. \A k \in Ids : posts' = posts => (Posted(posts, k, height) => Posted(posts', k, height))
  OBVIOUS
<1>4. ASSUME NEW i \in Ids, NEW w \in BOOLEAN, NEW p \in Posts, Thread(i, w, p)
      PROVE  SpendsWithinEffective'
  <2>1. /\ \A k \in Ids : Posted(posts, k, height) => Posted(posts', k, height)
        /\ Posted(posts', i, height)
    BY <1>1, <1>4, PostAdded DEF Thread
  <2>3. KarmaSpend(i, w, ThreadPrice, TRUE) /\ ThreadPrice \in Nat
    BY <1>4, Constants DEF Thread
  <2> QED BY <1>0, <2>1, <2>3, SpendKeeps
<1>5. ASSUME NEW i \in Ids, NEW w \in BOOLEAN, NEW p \in Posts, NEW parent \in Posts,
             Reply(i, w, p, parent)
      PROVE  SpendsWithinEffective'
  <2>1. /\ \A k \in Ids : Posted(posts, k, height) => Posted(posts', k, height)
        /\ Posted(posts', i, height)
    BY <1>1, <1>5, PostAdded DEF Reply
  <2>3. KarmaSpend(i, w, ReplyPrice, TRUE) /\ ReplyPrice \in Nat
    BY <1>5, Constants DEF Reply
  <2> QED BY <1>0, <2>1, <2>3, SpendKeeps
<1>6. ASSUME NEW i \in Ids, NEW w \in BOOLEAN, NEW spend \in Nat,
             KarmaSpend(i, w, spend, FALSE), posts' = posts
      PROVE  SpendsWithinEffective'
  BY <1>0, <1>3, <1>6, SpendKeeps
<1>7. ASSUME NEW i \in Ids, NEW w \in BOOLEAN, NEW p \in Posts, Like(i, w, p)
      PROVE  SpendsWithinEffective'
  <2>2. KarmaSpend(i, w, LikeCost, FALSE) /\ LikeCost \in Nat /\ posts' = posts
    BY <1>7, Constants DEF Like
  <2> QED BY <1>6, <2>2
<1>8. ASSUME NEW i \in Ids, NEW w \in BOOLEAN, NEW p \in Posts, Withdraw(i, w, p)
      PROVE  SpendsWithinEffective'
  <2>2. KarmaSpend(i, w, 0, FALSE) /\ posts' = posts
    BY <1>8 DEF Withdraw, recordVars
  <2> QED BY <1>6, <2>2
<1>9. ASSUME NEW i \in Ids, NEW w \in BOOLEAN, NEW n \in Names, Claim(i, w, n) \/ Burn(i, w, n)
      PROVE  SpendsWithinEffective'
  <2>2. \E spend \in {0, BurnPrice} : KarmaSpend(i, w, spend, FALSE)
    BY <1>9 DEF Claim, Burn
  <2>3. posts' = posts /\ BurnPrice \in Nat /\ 0 \in Nat
    BY <1>9, Constants DEF Claim, Burn
  <2> QED BY <1>6, <2>2, <2>3
<1>10. ASSUME NEW i \in Ids, NEW w \in BOOLEAN, Merge(i, w)
       PROVE  SpendsWithinEffective'
  <2>2. KarmaSpend(i, w, 0, FALSE) /\ posts' = posts
    BY <1>10 DEF Merge, recordVars
  <2> QED BY <1>6, <2>2
<1>11. ASSUME NEW i \in Ids, NEW w \in BOOLEAN, NEW t \in Ids, NEW cast \in 1 .. MaxHeight,
              Vouch(i, w, t, cast)
       PROVE  SpendsWithinEffective'
  <2>2. KarmaSpend(i, w, VouchAmount, FALSE) /\ VouchAmount \in Nat /\ posts' = posts
    BY <1>11, Constants DEF Vouch
  <2> QED BY <1>6, <2>2
<1>12. ASSUME NEW i \in Ids, NEW w \in BOOLEAN, NEW j \in Ids, NEW amount \in BondAmounts,
              Invite(i, w, j, amount)
       PROVE  SpendsWithinEffective'
  <2>2. KarmaSpend(i, w, amount, FALSE) /\ amount \in Nat /\ posts' = posts
    BY <1>12, Constants DEF Invite
  <2> QED BY <1>6, <2>2
<1>13. ASSUME NEW v \in vouches, Unvouch(v)
       PROVE  SpendsWithinEffective'
  <2>2. own' = own /\ inc' = inc /\ posts' = posts
    BY <1>13 DEF Unvouch
  <2>3. \A k \in Ids : preFace(k)' = preFace(k)
    BY <1>0 DEF preFace
  <2>4. body.open
    BY <1>0 DEF OpenBodies
  <2> QED BY <1>0, <2>2, <2>3, <2>4, SpendsUnfold, SpendsUnfoldThen
<1>14. QED
  BY <1>4, <1>5, <1>7, <1>8, <1>9, <1>10, <1>11, <1>12, <1>13 DEF Transaction

(* So does every step of the ledger. *)
LEMMA LedgerSpends ==
  ASSUME IInv, SpendsWithinEffective, [LedgerNext]_ledgerVars
  PROVE  SpendsWithinEffective'
<1> USE DEF IInv
<1>1. CASE BeginBlock
  <2>1. /\ TypeOK' /\ UNCHANGED boxVars /\ body' \in OpenBodies
        /\ body'.pre = [own |-> own, inc |-> inc, rec |-> rec, vouches |-> vouches]
    <3>1. /\ TypeOK' /\ BodyOK' /\ UNCHANGED boxVars
          /\ body'.pre = [own |-> own, inc |-> inc, rec |-> rec, vouches |-> vouches]
      BY <1>1, BeginStep
    <3>2. body'.open
      BY <1>1 DEF BeginBlock, NoBody
    <3> QED BY <3>1, <3>2 DEF BodyOK, NoBody
  <2>2. own' = own /\ inc' = inc
    BY <2>1 DEF boxVars
  <2>3. ASSUME NEW i \in Ids
        PROVE  Within(preFace(i)', own'[i] + inc'[i], body'.pre.rec[i], height',
                      Posted(posts', i, height'))
    <3>1. preFace(i)' = own'[i] + inc'[i] /\ own'[i] + inc'[i] \in Nat
      BY <2>1, <2>2 DEF preFace, TypeOK
    <3>2. body'.pre.rec[i] \in Records
      BY <2>1 DEF OpenBodies, Views
    <3>3. height' \in Nat
      BY <2>1, Constants DEF TypeOK
    <3>4. effectiveKarma(own'[i] + inc'[i], body'.pre.rec[i], height') \in 0 .. own'[i] + inc'[i]
      BY <3>1, <3>2, <3>3, Effective
    <3> QED BY <3>1, <3>4 DEF Within
  <2> QED BY <2>3, SpendsUnfoldThen
<1>2. CASE Transaction
  BY <1>2, TransactionSpends
<1>3. CASE CreditTransaction
  <2>1. PICK kind : CreditTx(kind)
    BY <1>3, CreditKinds
  <2>2. UNCHANGED <<own, inc, posts, height>> /\ body'.pre = body.pre /\ body \in OpenBodies
    BY <2>1, CreditStep DEF Quiet
  <2>3. body.open /\ \A k \in Ids : preFace(k)' = preFace(k)
    BY <2>2 DEF preFace, OpenBodies
  <2> QED BY <2>2, <2>3, SpendsUnfold, SpendsUnfoldThen
<1>4. CASE EndBlock
  <2>1. body'.open = FALSE
    BY <1>4 DEF EndBlock, NoBody
  <2> QED BY <2>1 DEF SpendsWithinEffective
<1>5. CASE UNCHANGED ledgerVars
  <2>1. UNCHANGED <<own, inc, posts, height, body>>
    BY <1>5 DEF ledgerVars, vars, boxVars, recordVars
  <2> QED BY <2>1 DEF SpendsWithinEffective, preFace
<1>6. QED
  BY <1>1, <1>2, <1>3, <1>4, <1>5 DEF LedgerNext

\* A body never spends more of an identity's karma than decay leaves it, in any order and
\* with any number of transactions, and only a post reaches below the floor.
THEOREM SpendsHold ==
  LedgerSpec => []SpendsWithinEffective
<1>1. LedgerInit => IInv /\ SpendsWithinEffective
  <2> SUFFICES ASSUME LedgerInit PROVE IInv /\ SpendsWithinEffective
    OBVIOUS
  <2>1. body.open = FALSE
    BY DEF LedgerInit, Init, NoBody
  <2> QED BY <2>1, InitStanding DEF LedgerInit, IInv, SpendsWithinEffective
<1>2. IInv /\ SpendsWithinEffective /\ [LedgerNext]_ledgerVars => (IInv /\ SpendsWithinEffective)'
  BY LedgerStep, LedgerSpends
<1>3. QED
  BY <1>1, <1>2, PTL DEF LedgerSpec

\* A block's end leaves no vouch of a voucher that had lapsed when the block began, unless
\* the block took as many lapses as it may.
THEOREM LapsesHold ==
  LedgerSpec => LapsedStakesLeave
<1>1. LedgerInit => IInv
  BY InitStanding DEF LedgerInit, IInv
<1>2. IInv /\ [LedgerNext]_ledgerVars => IInv'
  BY LedgerStep
<1>3. IInv /\ [LedgerNext]_ledgerVars =>
        [body.open /\ ~body'.open =>
           \/ Cardinality(body.lapsed) = MaxLapses
           \/ \A v \in body.pre.vouches \cap vouches' : isMember(body.pre.rec[v.voucher])]_vars
  <2> SUFFICES ASSUME IInv, [LedgerNext]_ledgerVars, body.open, ~body'.open,
                      Cardinality(body.lapsed) # MaxLapses,
                      NEW v \in body.pre.vouches \cap vouches'
               PROVE  isMember(body.pre.rec[v.voucher])
    OBVIOUS
  <2>1. body \in OpenBodies
    BY OpenBody DEF IInv
  <2>2. CASE EndBlock
    <3>1. v \notin lapseLeg /\ v \in vouches
      BY <2>2 DEF EndBlock
    <3>2. v \notin body.lapsed
      BY <3>1 DEF lapseLeg
    <3>3. /\ body.pre.rec[v.voucher].since > 0
          /\ isLapsedMember(body.pre.rec[v.voucher]) => v \in body.lapsed
      BY DEF IInv, Standing, LapsesTaken
    <3>4. body.pre.rec[v.voucher] \in Records
      BY <2>1 DEF OpenBodies, Views, VouchSet
    <3> QED BY <3>2, <3>3, <3>4 DEF isMember, isLapsedMember, Records
  <2>3. CASE BeginBlock
    BY <2>3 DEF BeginBlock
  <2>4. CASE Transaction
    BY <2>4, TransactionStep DEF BodyGoesOn, OpenBodies
  <2>5. CASE CreditTransaction
    <3>1. PICK kind : CreditTx(kind)
      BY <2>5, CreditKinds
    <3>2. body' \in OpenBodies
      BY <3>1, CreditStep DEF IInv, Quiet
    <3> QED BY <3>2 DEF OpenBodies
  <2>6. CASE UNCHANGED ledgerVars
    BY <2>6 DEF ledgerVars, vars
  <2> QED BY <2>2, <2>3, <2>4, <2>5, <2>6 DEF LedgerNext
<1>4. QED
  BY <1>1, <1>2, <1>3, PTL DEF LedgerSpec, LapsedStakesLeave

-----------------------------------------------------------------------------
(* Credits: bags.                                                          *)

\* A bag of finitely many elements, and how often an element is in it.
FiniteBag(b) == IsABag(b) /\ IsFiniteSet(DOMAIN b)
\* How often x is in the bag b.
Count(b, x) == IF x \in DOMAIN b THEN b[x] ELSE 0

(* An element of a bag is in it at least once. *)
LEMMA CountNat ==
  ASSUME NEW b, IsABag(b), NEW x
  PROVE  Count(b, x) \in Nat /\ (x \in DOMAIN b => Count(b, x) > 0)
<1>1. CASE x \in DOMAIN b
  <2>1. b[x] \in {n \in Nat : n > 0}
    BY <1>1 DEF IsABag
  <2> QED BY <1>1, <2>1 DEF Count
<1>2. CASE x \notin DOMAIN b
  BY <1>2 DEF Count
<1> QED BY <1>1, <1>2

(* A bag's total is the sum of its counts over any set that holds the bag. *)
LEMMA CountTotal ==
  ASSUME NEW b, FiniteBag(b), NEW D, IsFiniteSet(D), DOMAIN b \subseteq D,
         NEW v, \A x \in D : v[x] \in Int
  PROVE  BagTotal(b, v) = SumOver([x \in D |-> Count(b, x) * v[x]], D)
<1> DEFINE f == [x \in D |-> Count(b, x) * v[x]]
           g == [x \in DOMAIN b |-> b[x] * v[x]]
           rest == D \ DOMAIN b
<1>1. \A x \in D : f[x] \in Int
  BY CountNat DEF FiniteBag
<1>2. \A x \in DOMAIN b : f[x] = g[x]
  BY DEF Count
<1>3. \A x \in rest : f[x] = 0
  <2> SUFFICES ASSUME NEW x \in rest PROVE f[x] = 0
    OBVIOUS
  <2>1. Count(b, x) = 0 /\ f[x] = Count(b, x) * v[x] /\ v[x] \in Int
    BY DEF Count
  <2> QED BY <2>1
<1>4. BagTotal(b, v) = SumOver(g, DOMAIN b)
  BY DEF BagTotal, BagToSet
<1>5. IsFiniteSet(DOMAIN b) /\ IsFiniteSet(rest)
  BY FS_Difference DEF FiniteBag
<1> HIDE DEF f, g
<1>6. SumOver(f, D) = SumOver(f, DOMAIN b) + SumOver(f, rest)
  BY <1>1, SumSubset
<1>7. SumOver(f, DOMAIN b) = SumOver(g, DOMAIN b)
  BY <1>2, <1>5, SumEqual
<1>8. SumOver(f, rest) = 0
  BY <1>3, <1>5, SumZero
<1>9. SumOver(f, DOMAIN b) \in Int
  BY <1>1, <1>5, SumInt
<1> QED BY <1>4, <1>6, <1>7, <1>8, <1>9 DEF f

(* Totals add up when two bags do. *)
LEMMA BagSum ==
  ASSUME NEW a, NEW b, FiniteBag(a), FiniteBag(b), NEW v,
         \A x \in DOMAIN a \cup DOMAIN b : v[x] \in Int
  PROVE  /\ FiniteBag(a (+) b) /\ DOMAIN (a (+) b) = DOMAIN a \cup DOMAIN b
         /\ BagTotal(a (+) b, v) = BagTotal(a, v) + BagTotal(b, v)
<1> DEFINE D == DOMAIN a \cup DOMAIN b
           c == a (+) b
           f == [x \in D |-> Count(a, x) * v[x]]
           g == [x \in D |-> Count(b, x) * v[x]]
           h == [x \in D |-> Count(c, x) * v[x]]
<1>1. c = [x \in D |-> Count(a, x) + Count(b, x)]
  BY DEF (+), Count
<1>2. IsFiniteSet(D)
  BY FS_Union DEF FiniteBag
<1>3. \A x \in D : Count(c, x) = Count(a, x) + Count(b, x) /\ Count(c, x) \in {n \in Nat : n > 0}
  <2> SUFFICES ASSUME NEW x \in D
               PROVE  Count(c, x) = Count(a, x) + Count(b, x) /\ Count(c, x) \in {n \in Nat : n > 0}
    OBVIOUS
  <2>1. Count(c, x) = Count(a, x) + Count(b, x)
    BY <1>1 DEF Count
  <2>2. Count(a, x) \in Nat /\ Count(b, x) \in Nat /\ (Count(a, x) > 0 \/ Count(b, x) > 0)
    BY CountNat DEF FiniteBag
  <2> QED BY <2>1, <2>2
<1>4. FiniteBag(c) /\ DOMAIN c = D
  <2>1. DOMAIN c = D
    BY <1>1
  <2>2. \A x \in D : c[x] \in {n \in Nat : n > 0}
    BY <1>3, <2>1 DEF Count
  <2>3. c \in [DOMAIN c -> {n \in Nat : n > 0}]
    BY <1>1, <2>1, <2>2
  <2> QED BY <1>2, <2>1, <2>3 DEF FiniteBag, IsABag
<1>5. \A x \in D : f[x] \in Int /\ g[x] \in Int /\ h[x] = f[x] + g[x]
  <2> SUFFICES ASSUME NEW x \in D PROVE f[x] \in Int /\ g[x] \in Int /\ h[x] = f[x] + g[x]
    OBVIOUS
  <2>1. Count(a, x) \in Int /\ Count(b, x) \in Int /\ v[x] \in Int
    BY CountNat DEF FiniteBag
  <2>2. Count(c, x) * v[x] = Count(a, x) * v[x] + Count(b, x) * v[x]
    BY <1>3, <2>1
  <2> QED BY <2>1, <2>2
<1>6. BagTotal(a, v) = SumOver(f, D) /\ BagTotal(b, v) = SumOver(g, D) /\ BagTotal(c, v) = SumOver(h, D)
  <2>1. DOMAIN a \subseteq D /\ DOMAIN b \subseteq D /\ DOMAIN c \subseteq D
    BY <1>4
  <2>2. \A x \in D : v[x] \in Int
    OBVIOUS
  <2> HIDE DEF D, c
  <2> QED BY <1>2, <1>4, <2>1, <2>2, CountTotal
<1> HIDE DEF f, g, h
<1>7. SumOver(h, D) = SumOver(f, D) + SumOver(g, D)
  BY <1>2, <1>5, SumAdd
<1> QED BY <1>4, <1>6, <1>7

(* Taking a bag out of one that holds it takes its total. *)
LEMMA BagLess ==
  ASSUME NEW a, NEW b, FiniteBag(a), FiniteBag(b), b \sqsubseteq a, NEW v,
         \A x \in DOMAIN a : v[x] \in Int
  PROVE  /\ FiniteBag(a (-) b) /\ DOMAIN (a (-) b) \subseteq DOMAIN a
         /\ BagTotal(a (-) b, v) + BagTotal(b, v) = BagTotal(a, v)
<1> DEFINE D == DOMAIN a
           e == [x \in D |-> IF x \in DOMAIN b THEN a[x] - b[x] ELSE a[x]]
           c == a (-) b
           f == [x \in D |-> Count(c, x) * v[x]]
           g == [x \in D |-> Count(b, x) * v[x]]
           h == [x \in D |-> Count(a, x) * v[x]]
<1>1. c = [x \in {d \in D : e[d] > 0} |-> e[x]]
  BY DEF (-)
<1>2. \A x \in D : a[x] \in Nat /\ a[x] > 0 /\ (x \in DOMAIN b => b[x] \in Nat /\ b[x] > 0 /\ b[x] <= a[x])
  BY DEF FiniteBag, IsABag, \sqsubseteq
<1>3. \A x \in D : e[x] \in Nat /\ e[x] + Count(b, x) = Count(a, x)
  BY <1>2 DEF Count
<1>4. \A x \in D : Count(c, x) = e[x]
  <2> SUFFICES ASSUME NEW x \in D PROVE Count(c, x) = e[x]
    OBVIOUS
  <2>1. e[x] \in Nat
    BY <1>3
  <2>2. CASE e[x] > 0
    BY <1>1, <2>2 DEF Count
  <2>3. CASE ~(e[x] > 0)
    BY <1>1, <2>1, <2>3 DEF Count
  <2> QED BY <2>2, <2>3
<1>5. FiniteBag(c) /\ DOMAIN c \subseteq D
  <2>1. DOMAIN c = {d \in D : e[d] > 0}
    BY <1>1
  <2>2. IsFiniteSet(DOMAIN c)
    BY <2>1, FS_Subset DEF FiniteBag
  <2>3. \A x \in DOMAIN c : c[x] \in {n \in Nat : n > 0}
    BY <1>1, <1>3, <2>1
  <2>4. c \in [DOMAIN c -> {n \in Nat : n > 0}]
    BY <1>1, <2>1, <2>3
  <2> QED BY <2>1, <2>2, <2>4 DEF FiniteBag, IsABag
<1>6. \A x \in D : f[x] \in Int /\ g[x] \in Int /\ h[x] = f[x] + g[x]
  <2> SUFFICES ASSUME NEW x \in D PROVE f[x] \in Int /\ g[x] \in Int /\ h[x] = f[x] + g[x]
    OBVIOUS
  <2>1. Count(c, x) \in Int /\ Count(b, x) \in Int /\ v[x] \in Int /\ Count(a, x) = Count(c, x) + Count(b, x)
    <3>1. Count(b, x) \in Nat
      BY CountNat DEF FiniteBag
    <3>2. Count(c, x) = e[x] /\ e[x] \in Nat /\ e[x] + Count(b, x) = Count(a, x)
      BY <1>3, <1>4
    <3> QED BY <3>1, <3>2
  <2>2. Count(a, x) * v[x] = Count(c, x) * v[x] + Count(b, x) * v[x]
    BY <2>1
  <2> QED BY <2>1, <2>2
<1>7. BagTotal(a, v) = SumOver(h, D) /\ BagTotal(b, v) = SumOver(g, D) /\ BagTotal(c, v) = SumOver(f, D)
  <2>1. DOMAIN a \subseteq D /\ DOMAIN b \subseteq D /\ DOMAIN c \subseteq D /\ IsFiniteSet(D)
    BY <1>5 DEF \sqsubseteq, FiniteBag
  <2>2. \A x \in D : v[x] \in Int
    OBVIOUS
  <2> HIDE DEF D, c
  <2> QED BY <1>5, <2>1, <2>2, CountTotal
<1>8. IsFiniteSet(D)
  BY DEF FiniteBag
<1> HIDE DEF f, g, h
<1>9. SumOver(h, D) = SumOver(f, D) + SumOver(g, D)
  BY <1>6, <1>8, SumAdd
<1> QED BY <1>5, <1>7, <1>9

(* Values that agree on a bag's elements give the same total. *)
LEMMA AgreeOn ==
  ASSUME NEW b, NEW v, NEW w, \A x \in DOMAIN b : v[x] = w[x]
  PROVE  BagTotal(b, v) = BagTotal(b, w)
<1>1. [x \in DOMAIN b |-> b[x] * v[x]] = [x \in DOMAIN b |-> b[x] * w[x]]
  OBVIOUS
<1> QED BY <1>1 DEF BagTotal, BagToSet

(* The total of a bag of one element is the element's value. *)
LEMMA BagOfOne ==
  ASSUME NEW x, NEW v, v[x] \in Int
  PROVE  FiniteBag(One(x)) /\ DOMAIN One(x) = {x} /\ BagTotal(One(x), v) = v[x]
<1> DEFINE b == One(x)
           f == [y \in DOMAIN b |-> b[y] * v[y]]
<1>1. b = [y \in {x} |-> 1]
  BY DEF One, SetToBag
<1>2. DOMAIN b = {x} /\ IsFiniteSet({x})
  BY <1>1, FS_Singleton
<1>3. b \in [{x} -> {n \in Nat : n > 0}]
  BY <1>1
<1>4. FiniteBag(b)
  BY <1>2, <1>3 DEF FiniteBag, IsABag
<1>5. f[x] = v[x]
  BY <1>1
<1>6. BagTotal(b, v) = SumOver(f, {x})
  BY <1>2 DEF BagTotal, BagToSet
<1> HIDE DEF b, f
<1>7. SumOver(f, {x}) = f[x] + SumOver(f, {x} \ {x})
  <2>1. x \in {x} /\ \A y \in {x} : f[y] \in Int
    BY <1>5
  <2> QED BY <1>2, <2>1, SumSplit
<1>8. {x} \ {x} = {}
  OBVIOUS
<1>9. SumOver(f, {}) = 0
  BY SumEmpty
<1>10. SumOver(f, {x}) = v[x]
  <2>1. SumOver(f, {x} \ {x}) = 0
    BY <1>8, <1>9
  <2>2. SumOver(f, {x}) = f[x] + 0 /\ f[x] \in Int
    BY <1>5, <1>7, <2>1
  <2> QED BY <1>5, <2>2
<1>11. DOMAIN One(x) = {x} /\ FiniteBag(One(x)) /\ BagTotal(One(x), v) = SumOver(f, {x})
  BY <1>2, <1>4, <1>6 DEF b
<1> QED BY <1>10, <1>11

(* The total of the empty bag is zero. *)
LEMMA BagOfNone ==
  ASSUME NEW v
  PROVE  FiniteBag(EmptyBag) /\ DOMAIN EmptyBag = {} /\ BagTotal(EmptyBag, v) = 0
<1>1. DOMAIN EmptyBag = {}
  BY DEF EmptyBag, SetToBag
<1>2. EmptyBag \in [{} -> {n \in Nat : n > 0}]
  BY DEF EmptyBag, SetToBag
<1>3. FiniteBag(EmptyBag)
  BY <1>1, <1>2, FS_EmptySet DEF FiniteBag, IsABag
<1>4. BagTotal(EmptyBag, v) = 0
  BY <1>1, SumEmpty DEF BagTotal, BagToSet
<1> QED BY <1>1, <1>3, <1>4

\* A bag of boxes whose values are amounts.
Valued(b) == FiniteBag(b) /\ \A x \in DOMAIN b : x.value \in Nat

(* The credits of two bags together. *)
LEMMA ValueSum ==
  ASSUME NEW a, NEW b, Valued(a), Valued(b)
  PROVE  Valued(a (+) b) /\ ValueOf(a (+) b) = ValueOf(a) + ValueOf(b)
<1> DEFINE v == [x \in DOMAIN a \cup DOMAIN b |-> x.value]
<1>1. \A x \in DOMAIN a \cup DOMAIN b : v[x] \in Int
  BY DEF Valued
<1>2. /\ FiniteBag(a (+) b) /\ DOMAIN (a (+) b) = DOMAIN a \cup DOMAIN b
      /\ BagTotal(a (+) b, v) = BagTotal(a, v) + BagTotal(b, v)
  <2> HIDE DEF v
  <2> QED BY <1>1, BagSum DEF Valued
<1>3. Valued(a (+) b)
  BY <1>2 DEF Valued
<1>4. ValueOf(a) = BagTotal(a, v) /\ ValueOf(b) = BagTotal(b, v)
  <2>1. \A x \in DOMAIN a : [y \in DOMAIN a |-> y.value][x] = v[x]
    OBVIOUS
  <2>2. \A x \in DOMAIN b : [y \in DOMAIN b |-> y.value][x] = v[x]
    OBVIOUS
  <2> HIDE DEF v
  <2> QED BY <2>1, <2>2, AgreeOn DEF ValueOf, BagToSet
<1>5. ValueOf(a (+) b) = BagTotal(a (+) b, v)
  <2>1. DOMAIN (a (+) b) = DOMAIN a \cup DOMAIN b
    BY <1>2
  <2>2. [y \in DOMAIN (a (+) b) |-> y.value] = v
    BY <2>1
  <2> QED BY <2>2 DEF ValueOf, BagToSet
<1> QED BY <1>2, <1>3, <1>4, <1>5

(* The credits that are left after a bag is taken out. *)
LEMMA ValueLess ==
  ASSUME NEW a, NEW b, Valued(a), FiniteBag(b), b \sqsubseteq a
  PROVE  /\ Valued(a (-) b) /\ Valued(b) /\ DOMAIN (a (-) b) \subseteq DOMAIN a
         /\ ValueOf(a (-) b) + ValueOf(b) = ValueOf(a)
<1> DEFINE v == [x \in DOMAIN a |-> x.value]
<1>1. \A x \in DOMAIN a : v[x] \in Int
  BY DEF Valued
<1>2. /\ FiniteBag(a (-) b) /\ DOMAIN (a (-) b) \subseteq DOMAIN a
      /\ BagTotal(a (-) b, v) + BagTotal(b, v) = BagTotal(a, v)
  <2> HIDE DEF v
  <2> QED BY <1>1, BagLess DEF Valued
<1>3. DOMAIN b \subseteq DOMAIN a
  BY DEF \sqsubseteq
<1>4. Valued(a (-) b) /\ Valued(b)
  BY <1>2, <1>3 DEF Valued
<1>5. ValueOf(b) = BagTotal(b, v) /\ ValueOf(a) = BagTotal(a, v)
  <2>1. \A x \in DOMAIN b : [y \in DOMAIN b |-> y.value][x] = v[x]
    BY <1>3
  <2> HIDE DEF v
  <2>2. ValueOf(b) = BagTotal(b, v)
    BY <2>1, AgreeOn DEF ValueOf, BagToSet
  <2> QED BY <2>2 DEF ValueOf, BagToSet, v
<1>6. ValueOf(a (-) b) = BagTotal(a (-) b, v)
  <2>1. \A x \in DOMAIN (a (-) b) : [y \in DOMAIN (a (-) b) |-> y.value][x] = v[x]
    BY <1>2
  <2> HIDE DEF v
  <2> QED BY <2>1, AgreeOn DEF ValueOf, BagToSet
<1> QED BY <1>2, <1>4, <1>5, <1>6

(* The credits of a box that is there or not. *)
LEMMA ValueSome ==
  ASSUME NEW x, NEW p \in BOOLEAN, p => x.value \in Nat
  PROVE  /\ Valued(Some(x, p)) /\ ValueOf(Some(x, p)) = IF p THEN x.value ELSE 0
         /\ DOMAIN Some(x, p) \subseteq {x}
<1>1. CASE p
  <2> DEFINE v == [y \in {x} |-> y.value]
  <2>1. v[x] = x.value /\ v[x] \in Int
    BY <1>1
  <2>2. FiniteBag(One(x)) /\ DOMAIN One(x) = {x} /\ BagTotal(One(x), v) = v[x]
    <3> HIDE DEF v
    <3> QED BY <2>1, BagOfOne
  <2>3. [y \in DOMAIN One(x) |-> y.value] = v
    BY <2>2
  <2>4. ValueOf(One(x)) = BagTotal(One(x), v)
    BY <2>3 DEF ValueOf, BagToSet
  <2>5. Valued(One(x))
    BY <1>1, <2>2 DEF Valued
  <2> QED BY <1>1, <2>1, <2>2, <2>4, <2>5 DEF Some
<1>2. CASE ~p
  <2>1. FiniteBag(EmptyBag) /\ DOMAIN EmptyBag = {} /\ ValueOf(EmptyBag) = 0
    BY BagOfNone DEF ValueOf
  <2> QED BY <1>2, <2>1 DEF Some, Valued
<1> QED BY <1>1, <1>2

(* Credits held are an amount. *)
LEMMA ValueNat ==
  ASSUME NEW b, Valued(b)
  PROVE  ValueOf(b) \in Nat
<1> DEFINE f == [x \in DOMAIN b |-> b[x] * [y \in DOMAIN b |-> y.value][x]]
<1>1. \A x \in DOMAIN b : f[x] \in Nat
  <2> SUFFICES ASSUME NEW x \in DOMAIN b PROVE f[x] \in Nat
    OBVIOUS
  <2>1. b[x] \in Nat /\ x.value \in Nat
    BY DEF Valued, FiniteBag, IsABag
  <2>2. f[x] = b[x] * x.value
    OBVIOUS
  <2> QED BY <2>1, <2>2
<1>2. ValueOf(b) = SumOver(f, DOMAIN b)
  BY DEF ValueOf, BagTotal, BagToSet
<1>3. IsFiniteSet(DOMAIN b)
  BY DEF Valued, FiniteBag
<1> HIDE DEF f
<1> QED BY <1>1, <1>2, <1>3, SumNat

\* A bag of stake boxes.
Weighed(b) == FiniteBag(b) /\ \A x \in DOMAIN b : x.weight \in Nat

(* The weight of two bags together. *)
LEMMA WeightSum ==
  ASSUME NEW a, NEW b, Weighed(a), Weighed(b)
  PROVE  Weighed(a (+) b) /\ WeightOf(a (+) b) = WeightOf(a) + WeightOf(b)
<1> DEFINE v == [x \in DOMAIN a \cup DOMAIN b |-> x.weight]
<1>1. \A x \in DOMAIN a \cup DOMAIN b : v[x] \in Int
  BY DEF Weighed
<1>2. /\ FiniteBag(a (+) b) /\ DOMAIN (a (+) b) = DOMAIN a \cup DOMAIN b
      /\ BagTotal(a (+) b, v) = BagTotal(a, v) + BagTotal(b, v)
  <2> HIDE DEF v
  <2> QED BY <1>1, BagSum DEF Weighed
<1>3. Weighed(a (+) b)
  BY <1>2 DEF Weighed
<1>4. WeightOf(a) = BagTotal(a, v) /\ WeightOf(b) = BagTotal(b, v)
  <2>1. \A x \in DOMAIN a : [y \in DOMAIN a |-> y.weight][x] = v[x]
    OBVIOUS
  <2>2. \A x \in DOMAIN b : [y \in DOMAIN b |-> y.weight][x] = v[x]
    OBVIOUS
  <2> HIDE DEF v
  <2> QED BY <2>1, <2>2, AgreeOn DEF WeightOf, BagToSet
<1>5. WeightOf(a (+) b) = BagTotal(a (+) b, v)
  <2>1. DOMAIN (a (+) b) = DOMAIN a \cup DOMAIN b
    BY <1>2
  <2>2. [y \in DOMAIN (a (+) b) |-> y.weight] = v
    BY <2>1
  <2> QED BY <2>2 DEF WeightOf, BagToSet
<1> QED BY <1>2, <1>3, <1>4, <1>5

(* The weight that is left after a bag is taken out. *)
LEMMA WeightLess ==
  ASSUME NEW a, NEW b, Weighed(a), FiniteBag(b), b \sqsubseteq a
  PROVE  /\ Weighed(a (-) b) /\ Weighed(b) /\ DOMAIN (a (-) b) \subseteq DOMAIN a
         /\ WeightOf(a (-) b) + WeightOf(b) = WeightOf(a)
<1> DEFINE v == [x \in DOMAIN a |-> x.weight]
<1>1. \A x \in DOMAIN a : v[x] \in Int
  BY DEF Weighed
<1>2. /\ FiniteBag(a (-) b) /\ DOMAIN (a (-) b) \subseteq DOMAIN a
      /\ BagTotal(a (-) b, v) + BagTotal(b, v) = BagTotal(a, v)
  <2> HIDE DEF v
  <2> QED BY <1>1, BagLess DEF Weighed
<1>3. DOMAIN b \subseteq DOMAIN a
  BY DEF \sqsubseteq
<1>4. Weighed(a (-) b) /\ Weighed(b)
  BY <1>2, <1>3 DEF Weighed
<1>5. WeightOf(b) = BagTotal(b, v) /\ WeightOf(a) = BagTotal(a, v)
  <2>1. \A x \in DOMAIN b : [y \in DOMAIN b |-> y.weight][x] = v[x]
    BY <1>3
  <2> HIDE DEF v
  <2>2. WeightOf(b) = BagTotal(b, v)
    BY <2>1, AgreeOn DEF WeightOf, BagToSet
  <2> QED BY <2>2 DEF WeightOf, BagToSet, v
<1>6. WeightOf(a (-) b) = BagTotal(a (-) b, v)
  <2>1. \A x \in DOMAIN (a (-) b) : [y \in DOMAIN (a (-) b) |-> y.weight][x] = v[x]
    BY <1>2
  <2> HIDE DEF v
  <2> QED BY <2>1, AgreeOn DEF WeightOf, BagToSet
<1> QED BY <1>2, <1>4, <1>5, <1>6

(* The weight of a stake box that is there or not. *)
LEMMA WeightSome ==
  ASSUME NEW x, NEW p \in BOOLEAN, p => x.weight \in Nat
  PROVE  /\ Weighed(Some(x, p)) /\ WeightOf(Some(x, p)) = IF p THEN x.weight ELSE 0
         /\ DOMAIN Some(x, p) \subseteq {x}
<1>1. CASE p
  <2> DEFINE v == [y \in {x} |-> y.weight]
  <2>1. v[x] = x.weight /\ v[x] \in Int
    BY <1>1
  <2>2. FiniteBag(One(x)) /\ DOMAIN One(x) = {x} /\ BagTotal(One(x), v) = v[x]
    <3> HIDE DEF v
    <3> QED BY <2>1, BagOfOne
  <2>3. [y \in DOMAIN One(x) |-> y.weight] = v
    BY <2>2
  <2>4. WeightOf(One(x)) = BagTotal(One(x), v)
    BY <2>3 DEF WeightOf, BagToSet
  <2>5. Weighed(One(x))
    BY <1>1, <2>2 DEF Weighed
  <2> QED BY <1>1, <2>1, <2>2, <2>4, <2>5 DEF Some
<1>2. CASE ~p
  <2>1. FiniteBag(EmptyBag) /\ DOMAIN EmptyBag = {} /\ WeightOf(EmptyBag) = 0
    BY BagOfNone DEF WeightOf
  <2> QED BY <1>2, <2>1 DEF Some, Weighed
<1> QED BY <1>1, <1>2

(* Weight staked is an amount. *)
LEMMA WeightNat ==
  ASSUME NEW b, Weighed(b)
  PROVE  WeightOf(b) \in Nat
<1> DEFINE f == [x \in DOMAIN b |-> b[x] * [y \in DOMAIN b |-> y.weight][x]]
<1>1. \A x \in DOMAIN b : f[x] \in Nat
  <2> SUFFICES ASSUME NEW x \in DOMAIN b PROVE f[x] \in Nat
    OBVIOUS
  <2>1. b[x] \in Nat /\ x.weight \in Nat
    BY DEF Weighed, FiniteBag, IsABag
  <2>2. f[x] = b[x] * x.weight
    OBVIOUS
  <2> QED BY <2>1, <2>2
<1>2. WeightOf(b) = SumOver(f, DOMAIN b)
  BY DEF WeightOf, BagTotal, BagToSet
<1>3. IsFiniteSet(DOMAIN b)
  BY DEF Weighed, FiniteBag
<1> HIDE DEF f
<1> QED BY <1>1, <1>2, <1>3, SumNat

\* A backer's stake: the rows of the profile's table and the markers are of this form.
Rows == [owner : Ids, weight : Nat \ {0}]

\* The types of the credit side.  The last conjunct is a fact about the profile: without
\* backers nothing is staked, so the pool stays idle.
CreditOK ==
  /\ emission \in Nat /\ treasury \in Nat
  /\ Valued(credits) /\ Weighed(stakes) /\ DOMAIN stakes \subseteq Rows
  /\ bpool \in [value : Nat, staked : Nat, accrual : Nat]
  /\ cbody \in [fees : Nat, rent : Nat, unstakes : Seq(Rows)]
  /\ BackerTable = {} => bpool.staked = 0

(* What CreditAssumption gives. *)
LEMMA CreditConstants ==
  /\ EmissionTotal \in Nat /\ InitialReward \in Nat /\ Reduction \in Nat /\ FixedRateBlocks \in Nat
  /\ RewardDelay \in Nat /\ TreasuryPct \in Nat /\ BackerPct \in Nat /\ BonusPct \in Nat
  /\ MinerFloorPct \in Nat /\ UnstakeMinPct \in Nat /\ RentPeriod \in Nat
  /\ EpochBlocks \in Nat \ {0} /\ BonusK \in Nat \ {0} /\ BackerSupply \in Nat \ {0}
  /\ Charge \in Nat \ {0} /\ MinValue \in Nat \ {0}
  /\ TreasuryPct + BackerPct + BonusPct + MinerFloorPct = 100
BY CreditAssumption DEF CreditAssumption

(* The two bounds of a quotient rounded down. *)
LEMMA Quotient ==
  ASSUME NEW m \in Int, NEW d \in Nat \ {0}
  PROVE  /\ m \div d \in Int /\ d * (m \div d) <= m /\ m < d * (m \div d) + d
         /\ m >= 0 => m \div d >= 0
OBVIOUS

(* The two bounds of a quotient rounded up, as the draw is. *)
LEMMA RoundedUp ==
  ASSUME NEW m \in Nat, NEW d \in Nat \ {0}
  PROVE  /\ (m + d - 1) \div d \in Nat
         /\ m <= d * ((m + d - 1) \div d) /\ d * ((m + d - 1) \div d) <= m + d - 1
<1> DEFINE q == (m + d - 1) \div d
<1>1. m + d - 1 \in Nat
  OBVIOUS
<1>2. q \in Int /\ d * q <= m + d - 1 /\ m + d - 1 < d * q + d /\ q >= 0
  BY <1>1, Quotient
<1>3. d * q \in Int
  BY <1>2
<1> HIDE DEF q
<1> QED BY <1>2, <1>3 DEF q

(* The markers of a body are finitely many rows, and each is owed an amount. *)
LEMMA Markers ==
  ASSUME CreditOK
  PROVE  /\ IsFiniteSet(markers)
         /\ \A n \in markers : cbody.unstakes[n] \in Rows
         /\ \A n \in markers : releaseOf(cbody.unstakes[n]) \in Nat
<1>1. cbody.unstakes \in Seq(Rows)
  BY DEF CreditOK
<1>2. markers = 1 .. Len(cbody.unstakes) /\ Len(cbody.unstakes) \in Nat
  BY <1>1 DEF markers
<1>3. IsFiniteSet(markers)
  BY <1>2, FS_Interval
<1>4. \A n \in markers : cbody.unstakes[n] \in Rows
  BY <1>1, <1>2
<1>5. ASSUME NEW n \in markers PROVE releaseOf(cbody.unstakes[n]) \in Nat
  <2>1. cbody.unstakes[n].weight \in Nat /\ bpool.accrual \in Nat
    BY <1>4 DEF Rows, CreditOK
  <2>2. cbody.unstakes[n].weight * bpool.accrual \in Nat
    BY <2>1
  <2> QED BY <2>2, Quotient, CreditConstants DEF releaseOf
<1> QED BY <1>3, <1>4, <1>5

(* The releases, each rounded down, never pass what the weight unstaked had accrued. *)
LEMMA Releases ==
  ASSUME CreditOK
  PROVE  /\ totalUnstaked \in Nat /\ released \in Nat
         /\ BackerSupply * released <= bpool.accrual * totalUnstaked
<1> DEFINE w == [n \in markers |-> cbody.unstakes[n].weight]
           r == [n \in markers |-> releaseOf(cbody.unstakes[n])]
           aw == [n \in markers |-> bpool.accrual * w[n]]
           br == [n \in markers |-> BackerSupply * r[n]]
<1>1. /\ IsFiniteSet(markers) /\ BackerSupply \in Nat \ {0} /\ bpool.accrual \in Nat
  BY Markers, CreditConstants DEF CreditOK
<1>2. \A n \in markers : w[n] \in Nat /\ r[n] \in Nat
  BY Markers DEF Rows
<1>3. \A n \in markers : aw[n] \in Nat /\ br[n] \in Nat /\ br[n] <= aw[n]
  <2> SUFFICES ASSUME NEW n \in markers PROVE aw[n] \in Nat /\ br[n] \in Nat /\ br[n] <= aw[n]
    OBVIOUS
  <2>1. w[n] \in Nat /\ r[n] \in Nat /\ aw[n] = bpool.accrual * w[n] /\ br[n] = BackerSupply * r[n]
    BY <1>2
  <2>2. r[n] = (w[n] * bpool.accrual) \div BackerSupply
    BY DEF releaseOf
  <2> HIDE DEF w, r, aw, br
  <2>3. w[n] * bpool.accrual \in Int /\ w[n] * bpool.accrual = bpool.accrual * w[n]
    BY <1>1, <2>1
  <2>4. BackerSupply * r[n] <= w[n] * bpool.accrual
    BY <1>1, <2>2, <2>3, Quotient
  <2> QED BY <1>1, <2>1, <2>3, <2>4
<1>4. totalUnstaked = SumOver(w, markers) /\ released = SumOver(r, markers)
  BY DEF totalUnstaked, released
<1>5. \A n \in markers : aw[n] = bpool.accrual * w[n] /\ br[n] = BackerSupply * r[n]
  OBVIOUS
<1> HIDE DEF w, r, aw, br
<1>6. SumOver(aw, markers) = bpool.accrual * SumOver(w, markers)
  BY <1>1, <1>2, <1>5, SumScale
<1>7. SumOver(br, markers) = BackerSupply * SumOver(r, markers)
  BY <1>1, <1>2, <1>5, SumScale
<1>8. SumOver(br, markers) <= SumOver(aw, markers)
  BY <1>1, <1>3, SumLeq
<1>9. SumOver(w, markers) \in Nat /\ SumOver(r, markers) \in Nat
  BY <1>1, <1>2, SumNat
<1> QED BY <1>4, <1>6, <1>7, <1>8, <1>9

(* The release boxes pay what was released, the markers owed nothing having none. *)
LEMMA ReleasesBoxed ==
  ASSUME CreditOK
  PROVE  Valued(releaseBoxes) /\ ValueOf(releaseBoxes) = released
<1> DEFINE of == [n \in paidMarkers |-> releaseBox(n)]
           worth == [n \in paidMarkers |-> releaseOf(cbody.unstakes[n])]
           D == {releaseBox(n) : n \in paidMarkers}
           G == [b \in D |-> {n \in paidMarkers : of[n] = b}]
           F == [b \in D |-> releaseBoxes[b] * b.value]
           r == [n \in markers |-> releaseOf(cbody.unstakes[n])]
<1>1. /\ paidMarkers \subseteq markers /\ IsFiniteSet(paidMarkers) /\ IsFiniteSet(markers)
      /\ \A n \in markers : r[n] \in Nat
      /\ \A n \in paidMarkers : worth[n] = r[n] /\ worth[n] > 0
      /\ \A n \in markers \ paidMarkers : r[n] = 0
  BY Markers, FS_Subset DEF paidMarkers
<1>2. \A n \in paidMarkers : of[n] \in D /\ of[n].value = worth[n]
  BY DEF releaseBox
<1>3. IsFiniteSet(D)
  <2>1. of \in Surjection(paidMarkers, D)
    BY DEF Surjection
  <2> QED BY <1>1, <2>1, FS_Surjection
<1>4. DOMAIN releaseBoxes = D
  BY DEF releaseBoxes
<1>5. ASSUME NEW b \in D
      PROVE  /\ releaseBoxes[b] = Cardinality(G[b]) /\ IsFiniteSet(G[b]) /\ G[b] # {}
             /\ G[b] \subseteq paidMarkers /\ b.value \in Nat /\ \A n \in G[b] : worth[n] = b.value
  <2>1. G[b] = {n \in paidMarkers : releaseBox(n) = b}
    OBVIOUS
  <2>2. releaseBoxes[b] = Cardinality(G[b])
    BY <2>1 DEF releaseBoxes
  <2>3. PICK n \in paidMarkers : releaseBox(n) = b
    OBVIOUS
  <2>4. n \in G[b] /\ \A m \in G[b] : worth[m] = b.value
    BY <1>2, <2>1, <2>3
  <2>5. b.value \in Nat
    BY <1>1, <2>4, <2>1
  <2>6. IsFiniteSet(G[b])
    BY <1>1, <2>1, FS_Subset
  <2> QED BY <2>1, <2>2, <2>4, <2>5, <2>6
<1>6. \A b \in D : F[b] = SumOver(worth, G[b]) /\ releaseBoxes[b] \in {n \in Nat : n > 0}
  <2> SUFFICES ASSUME NEW b \in D
               PROVE  F[b] = SumOver(worth, G[b]) /\ releaseBoxes[b] \in {n \in Nat : n > 0}
    OBVIOUS
  <2> DEFINE ones == [n \in G[b] |-> 1]
             c == G[b]
             val == b.value
  <2>1. /\ releaseBoxes[b] = Cardinality(c) /\ IsFiniteSet(c) /\ c # {} /\ val \in Nat
        /\ \A n \in c : worth[n] = val /\ ones[n] = 1
    BY <1>5
  <2>2. F[b] = releaseBoxes[b] * val
    OBVIOUS
  <2> HIDE DEF c, val, ones, worth, F, G, D
  <2>3. SumOver(ones, c) = Cardinality(c)
    BY <2>1, SumOnes
  <2>4. \A n \in c : ones[n] \in Int /\ worth[n] = val * ones[n]
    BY <2>1
  <2>5. SumOver(worth, c) = val * SumOver(ones, c)
    BY <2>1, <2>4, SumScale
  <2>6. Cardinality(c) \in Nat /\ Cardinality(c) > 0
    BY <2>1, FS_CardinalityType, FS_EmptySet
  <2>7. releaseBoxes[b] * val = SumOver(worth, c)
    BY <2>1, <2>3, <2>5, <2>6
  <2> QED BY <2>1, <2>2, <2>6, <2>7 DEF c
<1>7. Valued(releaseBoxes)
  <2>1. releaseBoxes \in [D -> {n \in Nat : n > 0}]
    BY <1>6 DEF releaseBoxes
  <2>2. \A b \in D : b.value \in Nat
    BY <1>5
  <2> QED BY <1>3, <1>4, <2>1, <2>2 DEF Valued, FiniteBag, IsABag
<1>8. ValueOf(releaseBoxes) = SumOver(F, D)
  <2>1. [x \in DOMAIN releaseBoxes |-> releaseBoxes[x] * [y \in DOMAIN releaseBoxes |-> y.value][x]] = F
    BY <1>4
  <2> HIDE DEF F, D
  <2> QED BY <1>4, <2>1 DEF ValueOf, BagTotal, BagToSet
<1>9. released = SumOver(r, markers)
  BY DEF released
<1>10. \A b \in D : F[b] = SumOver(worth, G[b]) /\ G[b] = {n \in paidMarkers : of[n] = b}
  BY <1>6
<1>11. \A n \in paidMarkers : of[n] \in D /\ worth[n] \in Int
  BY <1>1, <1>2
<1> HIDE DEF of, worth, D, G, F, r
<1>12. SumOver(F, D) = SumOver(worth, paidMarkers)
  BY <1>1, <1>3, <1>10, <1>11, SumGroups
<1>13. SumOver(r, markers) = SumOver(r, paidMarkers) + SumOver(r, markers \ paidMarkers)
  BY <1>1, SumSubset
<1>14. SumOver(r, markers \ paidMarkers) = 0
  BY <1>1, FS_Difference, SumZero
<1>15. SumOver(r, paidMarkers) = SumOver(worth, paidMarkers)
  BY <1>1, SumEqual
<1>16. SumOver(r, paidMarkers) \in Int
  BY <1>1, SumInt
<1> QED BY <1>7, <1>8, <1>9, <1>12, <1>13, <1>14, <1>15, <1>16

(* What a block draws from the emission box is there. *)
LEMMA Released ==
  ASSUME CreditOK, TypeOK
  PROVE  /\ release \in Nat /\ release <= emission /\ taxable \in Nat
         /\ taxable = release + cbody.fees
         /\ cbody.fees \in Nat /\ cbody.rent \in Nat /\ emission \in Nat
<1> DEFINE reward == computeBlockReward(height)
<1>1. /\ cbody.fees \in Nat /\ cbody.rent \in Nat /\ emission \in Nat /\ height \in Nat
  BY DEF CreditOK, TypeOK
<1>2. (height - FixedRateBlocks - 1) \div EpochBlocks \in Int
  BY <1>1, CreditConstants, Quotient
<1>3. reward \in Nat
  BY <1>1, <1>2, CreditConstants DEF computeBlockReward, Greater
<1> HIDE DEF reward
<1>4. release = Lesser(reward, emission)
  BY DEF release, reward
<1>5. release \in Nat /\ release <= emission
  BY <1>1, <1>3, <1>4 DEF Lesser
<1> QED BY <1>1, <1>5 DEF taxable

(* A percentage, rounded down. *)
LEMMA Percent ==
  ASSUME NEW m \in Nat, NEW p \in Nat
  PROVE  (m * p) \div 100 \in Nat /\ 100 * ((m * p) \div 100) <= p * m
<1>1. m * p \in Nat /\ m * p = p * m
  OBVIOUS
<1>2. 100 \in Nat \ {0}
  OBVIOUS
<1> DEFINE k == m * p
<1> HIDE DEF k
<1>3. k \in Nat => k \div 100 \in Int /\ 100 * (k \div 100) <= k /\ k \div 100 >= 0
  BY <1>2, Quotient
<1> QED BY <1>1, <1>3 DEF k

(* The treasury's two rounded cuts stay within its percentage of the sum. *)
LEMMA TreasuryShare ==
  ASSUME CreditOK, TypeOK
  PROVE  treasuryCut \in Nat /\ 100 * treasuryCut <= TreasuryPct * taxable
<1> DEFINE a == (release * TreasuryPct) \div 100
           b == (cbody.fees * TreasuryPct) \div 100
<1>1. /\ release \in Nat /\ cbody.fees \in Nat /\ TreasuryPct \in Nat
      /\ taxable = release + cbody.fees
  BY Released, CreditConstants
<1>2. /\ a \in Nat /\ 100 * a <= TreasuryPct * release
      /\ b \in Nat /\ 100 * b <= TreasuryPct * cbody.fees
  BY <1>1, Percent
<1>3. TreasuryPct * taxable = TreasuryPct * release + TreasuryPct * cbody.fees
  BY <1>1
<1>4. treasuryCut = a + b
  BY DEF treasuryCut
<1>5. TreasuryPct * release \in Nat /\ TreasuryPct * cbody.fees \in Nat
  BY <1>1
<1> HIDE DEF a, b
<1> QED BY <1>2, <1>3, <1>4, <1>5

(* What of the bonus is not earned is within the bonus. *)
LEMMA BonusShare ==
  ASSUME CreditOK, TypeOK, body \in OpenBodies
  PROVE  unearned \in Nat /\ 100 * unearned <= BonusPct * taxable
<1>1. taxable \in Nat /\ BonusPct \in Nat /\ BonusK \in Nat \ {0}
  BY Released, CreditConstants
<1>2. actors \in Nat
  <2>1. body.actors \subseteq Ids
    BY DEF OpenBodies
  <2>2. IsFiniteSet(body.actors \ {Validator})
    BY <2>1, Constants, FS_Subset
  <2> QED BY <2>2, FS_CardinalityType DEF actors
<1>3. bonusPool \in Nat /\ 100 * bonusPool <= BonusPct * taxable
  BY <1>1, Percent DEF bonusPool
<1> DEFINE d == actors + BonusK
           e == (bonusPool * actors) \div d
<1>4. bonusPool * actors \in Nat /\ d \in Nat \ {0}
  BY <1>1, <1>2, <1>3
<1>5. e \in Int /\ e >= 0 /\ d * e <= bonusPool * actors
  BY <1>4, Quotient
<1>6. e <= bonusPool
  <2> SUFFICES ASSUME e > bonusPool PROVE FALSE
    BY <1>3, <1>5
  <2> HIDE DEF e
  <2>1. d * e >= d * (bonusPool + 1)
    BY <1>3, <1>4, <1>5
  <2>2. d * (bonusPool + 1) = bonusPool * actors + BonusK * bonusPool + d
    BY <1>1, <1>2, <1>3
  <2>3. BonusK * bonusPool \in Nat
    BY <1>1, <1>3
  <2> HIDE DEF d
  <2> QED BY <1>4, <1>5, <2>1, <2>2, <2>3
<1>7. unearned = bonusPool - e
  BY DEF unearned
<1> HIDE DEF e, d
<1>8. unearned \in Nat /\ unearned <= bonusPool
  BY <1>3, <1>5, <1>6, <1>7
<1>9. BonusPct * taxable \in Nat
  BY <1>1
<1> QED BY <1>3, <1>8, <1>9

(* The draw is rounded up, so it covers the accrual of every unit staked, and it passes
   the backers' percentage by less than one unit. *)
LEMMA BackerShare ==
  ASSUME CreditOK, TypeOK, backerActive => totalUnstaked <= bpool.staked
  PROVE  /\ backerDraw \in Nat /\ 100 * backerDraw <= BackerPct * taxable + 99
         /\ accrualStep \in Nat
         /\ backerActive => stakedAfter * accrualStep <= BackerSupply * backerDraw
         /\ ~backerActive => backerDraw = 0
<1>1. /\ taxable \in Nat /\ BackerPct \in Nat /\ BackerSupply \in Nat \ {0}
      /\ totalUnstaked \in Nat /\ bpool.staked \in Nat
      /\ stakedAfter = bpool.staked - totalUnstaked /\ stakedAfter \in Int
  BY Released, Releases, CreditConstants DEF CreditOK, stakedAfter
<1> DEFINE cap == BackerPct * taxable
           claim == BackerPct * BackerSupply
           whole == taxable * BackerPct * BackerSupply
<1>2. cap \in Nat /\ claim \in Nat /\ whole \in Nat /\ whole = claim * taxable /\ whole = BackerSupply * cap
  BY <1>1
<1>3. /\ accrualStep \in Nat
      /\ stakedAfter > 0 => 100 * (stakedAfter * accrualStep) <= whole
  <2>1. CASE ~inWindow
    <3>1. accrualStep = 0
      BY <2>1 DEF accrualStep
    <3> QED BY <1>1, <1>2, <3>1
  <2>2. CASE inWindow /\ 100 * stakedAfter <= claim
    <3>1. accrualStep = taxable
      BY <2>2 DEF accrualStep
    <3>2. stakedAfter > 0 => (100 * stakedAfter) * taxable <= claim * taxable
      BY <1>1, <1>2, <2>2
    <3>3. 100 * (stakedAfter * taxable) = (100 * stakedAfter) * taxable
      BY <1>1
    <3> QED BY <1>1, <1>2, <3>1, <3>2, <3>3
  <2>3. CASE inWindow /\ ~(100 * stakedAfter <= claim)
    <3>1. 100 * stakedAfter \in Nat \ {0} /\ 100 * stakedAfter > claim
      BY <1>1, <1>2, <2>3
    <3>2. accrualStep = whole \div (100 * stakedAfter)
      BY <2>3 DEF accrualStep
    <3> DEFINE d == 100 * stakedAfter
    <3> HIDE DEF whole, d, claim, cap
    <3>3. accrualStep \in Int /\ accrualStep >= 0 /\ d * accrualStep <= whole
      <4>1. accrualStep = whole \div d /\ d \in Nat \ {0} /\ whole \in Int /\ whole >= 0
        BY <1>2, <3>1, <3>2 DEF d
      <4> QED BY <4>1, Quotient
    <3>4. 100 * (stakedAfter * accrualStep) = d * accrualStep
      BY <1>1, <3>3 DEF d
    <3> QED BY <3>3, <3>4
  <2> QED BY <2>1, <2>2, <2>3
<1> DEFINE x == stakedAfter * accrualStep
<1>4. CASE backerActive /\ stakedAfter > 0
  <2>1. x \in Nat /\ 100 * x <= whole
    BY <1>1, <1>3, <1>4
  <2>2. backerDraw = (x + BackerSupply - 1) \div BackerSupply
    BY <1>4 DEF backerDraw
  <2> HIDE DEF x, whole, cap, claim
  <2>3. backerDraw \in Nat /\ x <= BackerSupply * backerDraw
        /\ BackerSupply * backerDraw <= x + BackerSupply - 1
    BY <1>1, <2>1, <2>2, RoundedUp
  <2> DEFINE y == BackerSupply * backerDraw
  <2>4. y \in Nat /\ 100 * y = BackerSupply * (100 * backerDraw)
    BY <1>1, <2>3
  <2>5. 100 * y <= BackerSupply * cap + 100 * BackerSupply - 100
    BY <1>1, <1>2, <2>1, <2>3, <2>4
  <2>6. 100 * backerDraw <= cap + 99
    <3> SUFFICES ASSUME 100 * backerDraw >= cap + 100 PROVE FALSE
      BY <1>2, <2>3
    <3>1. BackerSupply * (100 * backerDraw) >= BackerSupply * (cap + 100)
      BY <1>1, <1>2, <2>3
    <3>2. BackerSupply * (cap + 100) = BackerSupply * cap + 100 * BackerSupply
      BY <1>1, <1>2
    <3>3. BackerSupply * cap \in Nat
      BY <1>1, <1>2
    <3> HIDE DEF y
    <3> QED BY <1>1, <2>4, <2>5, <3>1, <3>2, <3>3
  <2> QED BY <1>3, <1>4, <2>3, <2>6 DEF x, cap
<1>5. CASE ~(backerActive /\ stakedAfter > 0)
  <2>1. backerDraw = 0
    BY <1>5 DEF backerDraw
  <2>2. backerActive => stakedAfter = 0
    BY <1>1, <1>5
  <2>3. backerActive => stakedAfter * accrualStep = 0
    BY <1>3, <2>2
  <2>4. BackerSupply * backerDraw = 0
    BY <1>1, <2>1
  <2> QED BY <1>2, <1>3, <2>1, <2>3, <2>4
<1> QED BY <1>4, <1>5

(* The percentages sum to a hundred and the draw passes its own by less than a unit, so
   the miner's floor, which is rounded down, is left. *)
LEMMA MinerShare ==
  ASSUME CreditOK, TypeOK, body \in OpenBodies, backerActive => totalUnstaked <= bpool.staked
  PROVE  /\ minerSlice \in Nat
         /\ minerSlice >= (MinerFloorPct * taxable) \div 100 + cbody.rent
         /\ minerSlice = taxable + cbody.rent - treasuryCut - unearned - backerDraw
<1>1. /\ taxable \in Nat /\ cbody.rent \in Nat /\ TreasuryPct \in Nat /\ BonusPct \in Nat
      /\ BackerPct \in Nat /\ MinerFloorPct \in Nat
      /\ TreasuryPct + BackerPct + BonusPct + MinerFloorPct = 100
  BY Released, CreditConstants
<1>2. /\ treasuryCut \in Nat /\ 100 * treasuryCut <= TreasuryPct * taxable
      /\ unearned \in Nat /\ 100 * unearned <= BonusPct * taxable
      /\ backerDraw \in Nat /\ 100 * backerDraw <= BackerPct * taxable + 99
  BY TreasuryShare, BonusShare, BackerShare
<1> DEFINE t == TreasuryPct * taxable
           b == BonusPct * taxable
           k == BackerPct * taxable
           m == MinerFloorPct * taxable
           q == m \div 100
<1>3. t + k + b + m = 100 * taxable /\ t \in Nat /\ b \in Nat /\ k \in Nat /\ m \in Nat
  <2>1. t + k + b + m = (TreasuryPct + BackerPct + BonusPct + MinerFloorPct) * taxable
    BY <1>1
  <2> QED BY <1>1, <2>1
<1>4. q \in Int /\ 100 * q <= m /\ q >= 0
  BY <1>3, Quotient
<1>5. minerSlice = taxable + cbody.rent - treasuryCut - unearned - backerDraw
  BY DEF minerSlice
<1> HIDE DEF t, b, k, m, q
<1>6. 100 * treasuryCut <= t /\ 100 * unearned <= b /\ 100 * backerDraw <= k + 99
  BY <1>2 DEF t, b, k
<1>7. minerSlice \in Int /\ minerSlice >= q + cbody.rent
  BY <1>1, <1>2, <1>3, <1>4, <1>5, <1>6
<1> QED BY <1>1, <1>4, <1>5, <1>7 DEF q, m

\* A body without fees, rent and markers.
Emptied ==
  /\ cbody.fees = 0 /\ cbody.rent = 0 /\ totalUnstaked = 0
  /\ cbody \in [fees : Nat, rent : Nat, unstakes : Seq(Rows)]

(* NoCredits is such a body. *)
LEMMA NoMarkers ==
  cbody = NoCredits => Emptied
<1> SUFFICES ASSUME cbody = NoCredits PROVE Emptied
  OBVIOUS
<1>1. cbody.fees = 0 /\ cbody.rent = 0 /\ cbody.unstakes = <<>>
  BY DEF NoCredits
<1>2. markers = {}
  BY <1>1 DEF markers
<1>3. totalUnstaked = 0
  BY <1>2, SumEmpty DEF totalUnstaked
<1>4. cbody \in [fees : Nat, rent : Nat, unstakes : Seq(Rows)]
  BY DEF NoCredits
<1> QED BY <1>1, <1>3, <1>4 DEF Emptied

(* The same of the state a step ends in. *)
LEMMA NoMarkersThen ==
  cbody' = NoCredits => Emptied'
<1>1. (cbody = NoCredits)' => Emptied'
  BY NoMarkers, PTL
<1> QED BY <1>1 DEF NoCredits

(* At genesis the emission box holds everything. *)
LEMMA GenesisCredits ==
  ASSUME CreditInit
  PROVE  CreditOK /\ CreditsSound
<1> DEFINE b == SetToBag(BackerTable)
<1>1. /\ emission = EmissionTotal /\ treasury = 0 /\ credits = EmptyBag /\ stakes = b
      /\ bpool.value = 0 /\ bpool.staked = WeightOf(b) /\ bpool.accrual = 0
      /\ bpool = [value |-> 0, staked |-> WeightOf(b), accrual |-> 0] /\ cbody = NoCredits
  BY DEF CreditInit
<1>2. DOMAIN b = BackerTable /\ b \in [BackerTable -> {n \in Nat : n > 0}]
  BY DEF SetToBag
<1>3. IsFiniteSet(BackerTable) /\ BackerTable \subseteq Rows
  BY CreditAssumption DEF CreditAssumption, Rows
<1>4. Weighed(b) /\ DOMAIN b \subseteq Rows
  <2>1. FiniteBag(b)
    BY <1>2, <1>3 DEF FiniteBag, IsABag
  <2> QED BY <1>2, <1>3, <2>1 DEF Weighed, Rows
<1> HIDE DEF b
<1>5. WeightOf(b) \in Nat
  BY <1>4, WeightNat
<1>6. Valued(EmptyBag) /\ ValueOf(EmptyBag) = 0
  BY BagOfNone DEF Valued, ValueOf
<1>7. BackerTable = {} => WeightOf(b) = 0
  <2> SUFFICES ASSUME BackerTable = {} PROVE WeightOf(b) = 0
    OBVIOUS
  <2>1. b = EmptyBag
    BY DEF b, EmptyBag
  <2> QED BY <2>1, BagOfNone DEF WeightOf
<1>8. /\ cbody.fees = 0 /\ cbody.rent = 0 /\ totalUnstaked = 0
      /\ cbody \in [fees : Nat, rent : Nat, unstakes : Seq(Rows)]
  BY <1>1, NoMarkers DEF Emptied
<1>9. EmissionTotal \in Nat /\ BackerSupply \in Nat
  BY CreditConstants
<1>10. CreditOK
  BY <1>1, <1>4, <1>5, <1>6, <1>7, <1>8, <1>9 DEF CreditOK
<1>11. CreditsConserved
  BY <1>1, <1>6, <1>8, <1>9 DEF CreditsConserved
<1>12. BackersSolvent
  BY <1>1, <1>5, <1>8, <1>9 DEF BackersSolvent
<1> QED BY <1>10, <1>11, <1>12 DEF CreditsSound

(* A step of the karma side leaves the credit side as it is. *)
LEMMA CreditsStay ==
  ASSUME CreditOK, CreditsSound, UNCHANGED creditVars
  PROVE  CreditOK' /\ CreditsSound'
<1>1. /\ emission' = emission /\ treasury' = treasury /\ credits' = credits /\ stakes' = stakes
      /\ bpool' = bpool /\ cbody' = cbody
  BY DEF creditVars
<1>2. totalUnstaked' = totalUnstaked
  BY <1>1 DEF totalUnstaked, markers
<1>3. CreditOK'
  BY <1>1 DEF CreditOK
<1>4. CreditsSound'
  BY <1>1, <1>2 DEF CreditsSound, CreditsConserved, BackersSolvent
<1> QED BY <1>3, <1>4

(* One element of a bag is a bag in it. *)
LEMMA InBag ==
  ASSUME NEW b, FiniteBag(b), NEW x \in DOMAIN b
  PROVE  FiniteBag(One(x)) /\ One(x) \sqsubseteq b /\ DOMAIN One(x) = {x}
<1>1. One(x) = [y \in {x} |-> 1]
  BY DEF One, SetToBag
<1>2. DOMAIN One(x) = {x}
  BY <1>1
<1>3. b[x] \in Nat /\ b[x] > 0
  BY DEF FiniteBag, IsABag
<1>4. One(x) \sqsubseteq b
  BY <1>1, <1>2, <1>3 DEF \sqsubseteq
<1>5. FiniteBag(One(x))
  <2>1. One(x) \in [DOMAIN One(x) -> {n \in Nat : n > 0}]
    BY <1>1, <1>2
  <2>2. IsFiniteSet(DOMAIN One(x))
    BY <1>2, FS_Singleton
  <2> QED BY <2>1, <2>2 DEF FiniteBag, IsABag
<1> QED BY <1>2, <1>4, <1>5

(* The inputs of a transfer are bags of boxes that are there. *)
LEMMA InputBags ==
  ASSUME CreditOK, NEW ins \in Inputs
  PROVE  FiniteBag(ins) /\ ins \sqsubseteq credits
<1>1. Valued(credits) /\ FiniteBag(credits)
  BY DEF CreditOK, Valued
<1>2. CASE \E x \in DOMAIN credits : ins = One(x)
  BY <1>1, <1>2, InBag
<1>3. CASE ins \sqsubseteq credits /\ \E x, y \in DOMAIN credits : ins = One(x) (+) One(y)
  <2>1. PICK x \in DOMAIN credits, y \in DOMAIN credits : ins = One(x) (+) One(y)
    BY <1>3
  <2>2. Valued(One(x)) /\ Valued(One(y))
    <3>1. FiniteBag(One(x)) /\ FiniteBag(One(y)) /\ DOMAIN One(x) = {x} /\ DOMAIN One(y) = {y}
      BY <1>1, InBag
    <3> QED BY <1>1, <3>1 DEF Valued
  <2>3. Valued(ins)
    BY <2>1, <2>2, ValueSum
  <2> QED BY <1>3, <2>3 DEF Valued
<1> QED BY <1>2, <1>3 DEF Inputs, BagToSet

(* A credit transaction turns its inputs into its outputs and the fee. *)
LEMMA SpendValue ==
  ASSUME CreditOK, NEW ins, NEW outs, NEW fee \in Nat, FiniteBag(ins), ins \sqsubseteq credits,
         Valued(outs), CreditSpend(ins, outs, fee)
  PROVE  Valued(credits') /\ ValueOf(credits') + fee = ValueOf(credits)
<1> DEFINE kept == credits (-) ins
<1>1. credits' = kept (+) outs /\ ValueOf(ins) = ValueOf(outs) + fee
  BY DEF CreditSpend, mayCreditSpend
<1>2. Valued(kept) /\ Valued(ins) /\ ValueOf(kept) + ValueOf(ins) = ValueOf(credits)
  BY ValueLess DEF CreditOK
<1> HIDE DEF kept
<1>3. Valued(kept (+) outs) /\ ValueOf(kept (+) outs) = ValueOf(kept) + ValueOf(outs)
  BY <1>2, ValueSum
<1>4. ValueOf(kept) \in Nat /\ ValueOf(outs) \in Nat /\ ValueOf(ins) \in Nat
  BY <1>2, ValueNat
<1> QED BY <1>1, <1>2, <1>3, <1>4

(* What leaves the boxes is in the block's fees or its rent. *)
LEMMA SpendSound ==
  ASSUME CreditOK, CreditsSound, NEW kind, CreditTx(kind), UNCHANGED stakes, Valued(credits'),
         NEW fee \in Nat, ValueOf(credits') + fee = ValueOf(credits),
         cbody' = [cbody EXCEPT !.fees = @ + fee] \/ cbody' = [cbody EXCEPT !.rent = @ + fee]
  PROVE  CreditOK' /\ CreditsSound'
<1>1. emission' = emission /\ treasury' = treasury /\ bpool' = bpool /\ stakes' = stakes
  BY DEF CreditTx
<1>2. /\ cbody' \in [fees : Nat, rent : Nat, unstakes : Seq(Rows)]
      /\ cbody'.unstakes = cbody.unstakes
      /\ cbody'.fees + cbody'.rent = cbody.fees + cbody.rent + fee
      /\ cbody.fees \in Nat /\ cbody.rent \in Nat /\ cbody'.fees \in Nat /\ cbody'.rent \in Nat
  <2>1. cbody \in [fees : Nat, rent : Nat, unstakes : Seq(Rows)]
    BY DEF CreditOK
  <2>2. CASE cbody' = [cbody EXCEPT !.fees = @ + fee]
    BY <2>1, <2>2
  <2>3. CASE cbody' = [cbody EXCEPT !.rent = @ + fee]
    BY <2>1, <2>3
  <2> QED BY <2>2, <2>3
<1>3. totalUnstaked' = totalUnstaked
  BY <1>2 DEF totalUnstaked, markers
<1>4. CreditOK'
  BY <1>1, <1>2 DEF CreditOK
<1>5. /\ emission \in Nat /\ treasury \in Nat /\ bpool.value \in Nat
      /\ ValueOf(credits) \in Nat /\ ValueOf(credits') \in Nat
  BY ValueNat DEF CreditOK
<1>6. CreditsConserved'
  <2>1. emission + treasury + bpool.value + ValueOf(credits) + cbody.fees + cbody.rent = EmissionTotal
    BY DEF CreditsSound, CreditsConserved
  <2> DEFINE f == cbody.fees
             r == cbody.rent
             g == cbody'.fees
             q == cbody'.rent
             m == emission + treasury + bpool.value
             c == ValueOf(credits)
             d == ValueOf(credits')
  <2>3. f \in Nat /\ r \in Nat /\ g \in Nat /\ q \in Nat /\ m \in Nat /\ c \in Nat /\ d \in Nat
        /\ g + q = f + r + fee /\ d + fee = c
    <3>1. f \in Nat /\ r \in Nat /\ g \in Nat /\ q \in Nat /\ g + q = f + r + fee
      BY <1>2
    <3>2. m \in Nat /\ c \in Nat /\ d \in Nat
      BY <1>5
    <3>3. d + fee = c
      OBVIOUS
    <3> QED BY <3>1, <3>2, <3>3
  <2>4. m + c + f + r = EmissionTotal
    BY <2>1
  <2> HIDE DEF f, r, g, q, m, c, d
  <2>5. m + d + g + q = EmissionTotal
    BY <2>3, <2>4
  <2>2. emission + treasury + bpool.value + ValueOf(credits') + cbody'.fees + cbody'.rent = EmissionTotal
    BY <2>5 DEF m, d, g, q
  <2> QED BY <1>1, <2>2 DEF CreditsConserved
<1>7. BackersSolvent'
  BY <1>1, <1>3 DEF CreditsSound, BackersSolvent
<1> QED BY <1>4, <1>6, <1>7 DEF CreditsSound

(* A transfer keeps credits conserved. *)
LEMMA TransferSound ==
  ASSUME CreditOK, CreditsSound, NEW ins \in Inputs, NEW to, NEW amount \in TransferAmounts,
         NEW fee \in Fees, NEW lock, NEW born, Transfer(ins, to, amount, fee, lock, born)
  PROVE  CreditOK' /\ CreditsSound'
<1> DEFINE change == ValueOf(ins) - amount - fee
           payer == (CHOOSE x \in BagToSet(ins) : TRUE).owner
           paid == Some([owner |-> to, value |-> amount, born |-> born, lock |-> lock], amount > 0)
           back == Some([owner |-> payer, value |-> change, born |-> born, lock |-> 0], change > 0)
<1>1. amount \in Nat /\ fee \in Nat
  BY CreditAssumption DEF CreditAssumption
<1>2. FiniteBag(ins) /\ ins \sqsubseteq credits
  BY InputBags
<1>3. ValueOf(ins) \in Nat
  BY <1>2, ValueLess, ValueNat DEF CreditOK
<1>4. change \in Int
  BY <1>1, <1>3
<1>5. Valued(paid)
  <2> DEFINE x == [owner |-> to, value |-> amount, born |-> born, lock |-> lock]
             p == amount > 0
  <2>1. p \in BOOLEAN /\ x.value \in Nat
    BY <1>1
  <2> HIDE DEF x, p
  <2>2. Valued(Some(x, p))
    BY <2>1, ValueSome
  <2> QED BY <2>2 DEF x, p
<1>6. Valued(back)
  <2> DEFINE x == [owner |-> payer, value |-> change, born |-> born, lock |-> 0]
             p == change > 0
  <2>1. p \in BOOLEAN /\ (p => x.value \in Nat)
    BY <1>4
  <2> HIDE DEF x, p
  <2>2. Valued(Some(x, p))
    BY <2>1, ValueSome
  <2> QED BY <2>2 DEF x, p
<1>7. /\ CreditTx("transfer") /\ CreditSpend(ins, paid (+) back, fee)
      /\ cbody' = [cbody EXCEPT !.fees = @ + fee] /\ UNCHANGED stakes
  BY DEF Transfer
<1> HIDE DEF paid, back, change, payer
<1>8. Valued(paid (+) back)
  BY <1>5, <1>6, ValueSum
<1>9. Valued(credits') /\ ValueOf(credits') + fee = ValueOf(credits)
  BY <1>1, <1>2, <1>7, <1>8, SpendValue
<1> QED BY <1>1, <1>7, <1>9, SpendSound

(* Collecting rent keeps credits conserved. *)
LEMMA RentSound ==
  ASSUME CreditOK, CreditsSound, NEW x \in DOMAIN credits, Rent(x)
  PROVE  CreditOK' /\ CreditsSound'
<1> DEFINE next == [owner |-> x.owner, value |-> x.value - Charge, born |-> height, lock |-> 0]
<1>1. FiniteBag(One(x)) /\ One(x) \sqsubseteq credits
  BY InBag DEF CreditOK, Valued
<1>2. x.value \in Nat /\ Charge \in Nat
  BY CreditConstants DEF CreditOK, Valued
<1>3. chargeOf(x) \in Nat
  BY <1>2 DEF chargeOf
<1>4. coversCharge(x) \in BOOLEAN /\ (coversCharge(x) => next.value \in Nat)
  BY <1>2 DEF coversCharge
<1>5. Valued(successorOf(x, height))
  <2>1. successorOf(x, height) = Some(next, coversCharge(x))
    BY DEF successorOf
  <2> HIDE DEF next
  <2> QED BY <1>4, <2>1, ValueSome
<1>6. /\ CreditTx("rent") /\ CreditSpend(One(x), successorOf(x, height), chargeOf(x))
      /\ cbody' = [cbody EXCEPT !.rent = @ + chargeOf(x)] /\ UNCHANGED stakes
  BY DEF Rent
<1>7. Valued(credits') /\ ValueOf(credits') + chargeOf(x) = ValueOf(credits)
  BY <1>1, <1>3, <1>5, <1>6, SpendValue
<1> QED BY <1>3, <1>6, <1>7, SpendSound

(* An unstake moves its weight from the stake box to a marker. *)
LEMMA UnstakeSound ==
  ASSUME CreditOK, CreditsSound, NEW s \in DOMAIN stakes, NEW weight \in 1 .. s.weight,
         Unstake(s, weight)
  PROVE  CreditOK' /\ CreditsSound'
<1> DEFINE less == [s EXCEPT !.weight = @ - weight]
           kept == stakes (-) One(s)
           back == Some(less, weight < s.weight)
           u == [owner |-> s.owner, weight |-> weight]
<1>1. /\ emission' = emission /\ treasury' = treasury /\ bpool' = bpool /\ credits' = credits
      /\ stakes' = kept (+) back
      /\ cbody' = [cbody EXCEPT !.unstakes = Append(@, u)]
  BY DEF Unstake, CreditTx
<1>2. s \in Rows /\ weight \in Nat \ {0} /\ s.weight \in Nat /\ weight <= s.weight
  BY DEF CreditOK, Rows
<1>3. u \in Rows /\ less.weight = s.weight - weight /\ (weight < s.weight => less \in Rows /\ less.weight \in Nat)
  BY <1>2 DEF Rows
<1>4. FiniteBag(One(s)) /\ One(s) \sqsubseteq stakes /\ DOMAIN One(s) = {s}
  BY InBag DEF CreditOK, Weighed
<1>5. /\ Weighed(kept) /\ DOMAIN kept \subseteq DOMAIN stakes
      /\ WeightOf(kept) + WeightOf(One(s)) = WeightOf(stakes)
  BY <1>4, WeightLess DEF CreditOK
<1>6. WeightOf(One(s)) = s.weight
  <2>1. TRUE \in BOOLEAN
    OBVIOUS
  <2>2. WeightOf(Some(s, TRUE)) = s.weight
    BY <1>2, <2>1, WeightSome
  <2> QED BY <2>2 DEF Some
<1>7. /\ Weighed(back) /\ WeightOf(back) = s.weight - weight
      /\ DOMAIN back \subseteq Rows
  <2> DEFINE p == weight < s.weight
  <2>1. p \in BOOLEAN /\ (p => less.weight \in Nat) /\ less.weight = s.weight - weight
        /\ (p => less \in Rows) /\ (~p => s.weight - weight = 0)
    BY <1>2, <1>3
  <2> HIDE DEF less, p
  <2>2. /\ Weighed(Some(less, p)) /\ WeightOf(Some(less, p)) = IF p THEN less.weight ELSE 0
        /\ DOMAIN Some(less, p) \subseteq {less}
    BY <2>1, WeightSome
  <2>3. ~p => DOMAIN Some(less, p) = {}
    BY BagOfNone DEF Some
  <2>4. back = Some(less, p)
    BY DEF p
  <2> QED BY <2>1, <2>2, <2>3, <2>4
<1>8. DOMAIN (kept (+) back) = DOMAIN kept \cup DOMAIN back
  BY DEF (+)
<1> HIDE DEF kept, back, less
<1>9. Weighed(kept (+) back) /\ WeightOf(kept (+) back) = WeightOf(kept) + WeightOf(back)
  BY <1>5, <1>7, WeightSum
<1>10. WeightOf(kept) \in Nat /\ WeightOf(stakes) \in Nat
  BY <1>5, WeightNat DEF CreditOK
<1>11. WeightOf(stakes') + weight = WeightOf(stakes)
  BY <1>1, <1>2, <1>5, <1>6, <1>7, <1>9, <1>10
<1>12. Weighed(stakes') /\ DOMAIN stakes' \subseteq Rows
  BY <1>1, <1>5, <1>7, <1>8, <1>9 DEF CreditOK
<1> HIDE DEF u
<1>13. /\ cbody.unstakes \in Seq(Rows) /\ cbody'.unstakes = Append(cbody.unstakes, u)
       /\ cbody'.fees = cbody.fees /\ cbody'.rent = cbody.rent
       /\ cbody' \in [fees : Nat, rent : Nat, unstakes : Seq(Rows)]
  <2>1. cbody \in [fees : Nat, rent : Nat, unstakes : Seq(Rows)]
    BY DEF CreditOK
  <2>2. Append(cbody.unstakes, u) \in Seq(Rows)
    BY <1>3, <2>1
  <2> QED BY <1>1, <2>1, <2>2
<1>14. totalUnstaked' = totalUnstaked + weight
  <2> DEFINE n == Len(cbody.unstakes) + 1
             f == [k \in markers |-> cbody.unstakes[k].weight]
             g == [k \in markers' |-> cbody'.unstakes[k].weight]
  <2>1. /\ markers = 1 .. Len(cbody.unstakes) /\ Len(cbody.unstakes) \in Nat
        /\ markers' = 1 .. n
    BY <1>13 DEF markers
  <2>2. markers' \ {n} = markers /\ n \in markers' /\ IsFiniteSet(markers') /\ IsFiniteSet(markers)
    <3>1. IsFiniteSet(markers') /\ IsFiniteSet(markers)
      BY <2>1, FS_Interval
    <3>2. \A l \in Nat : (1 .. (l + 1)) \ {l + 1} = 1 .. l /\ l + 1 \in 1 .. (l + 1)
      OBVIOUS
    <3> QED BY <2>1, <3>1, <3>2
  <2>3. g[n] = weight
    BY <1>13, <2>2 DEF u
  <2>4. \A k \in markers : g[k] = f[k] /\ f[k] \in Int
    <3> SUFFICES ASSUME NEW k \in markers PROVE g[k] = f[k] /\ f[k] \in Int
      OBVIOUS
    <3>1. cbody'.unstakes[k] = cbody.unstakes[k] /\ cbody.unstakes[k] \in Rows
      BY <1>13, <2>1
    <3> QED BY <2>2, <3>1 DEF Rows
  <2>5. totalUnstaked = SumOver(f, markers) /\ totalUnstaked' = SumOver(g, markers')
    BY DEF totalUnstaked
  <2>6. \A k \in markers' : g[k] \in Int
    BY <1>2, <2>2, <2>3, <2>4
  <2> HIDE DEF f, g, n
  <2>7. SumOver(g, markers') = g[n] + SumOver(g, markers' \ {n})
    BY <2>2, <2>6, SumSplit
  <2>8. SumOver(g, markers) = SumOver(f, markers)
    BY <2>2, <2>4, SumEqual
  <2>9. SumOver(f, markers) \in Int
    BY <2>2, <2>4, SumInt
  <2> QED BY <1>2, <2>2, <2>3, <2>5, <2>7, <2>8, <2>9
<1>15. totalUnstaked \in Nat
  BY Releases
<1>16. CreditOK'
  BY <1>1, <1>12, <1>13 DEF CreditOK
<1>17. CreditsConserved'
  BY <1>1, <1>13 DEF CreditsSound, CreditsConserved
<1>18. BackersSolvent'
  <2>1. /\ bpool.value * BackerSupply >= bpool.staked * bpool.accrual
        /\ WeightOf(stakes) + totalUnstaked = bpool.staked
    BY DEF CreditsSound, BackersSolvent
  <2>2. WeightOf(stakes') \in Nat
    BY <1>12, WeightNat
  <2>3. WeightOf(stakes') + totalUnstaked' = bpool.staked
    BY <1>2, <1>10, <1>11, <1>14, <1>15, <2>1, <2>2
  <2> QED BY <1>1, <2>1, <2>3 DEF BackersSolvent
<1> QED BY <1>16, <1>17, <1>18 DEF CreditsSound

(* The settlement creates the releases and the coinbase, and no other box. *)
LEMMA SettledBoxes ==
  ASSUME TypeOK, body \in OpenBodies, CreditOK, CreditSettle
  PROVE  /\ Valued(credits') /\ ValueOf(credits') = ValueOf(credits) + released + minerSlice
         /\ minerSlice \in Nat /\ released \in Nat /\ ValueOf(credits) \in Nat
<1> DEFINE c1 == credits (+) releaseBoxes
           p == minerSlice > 0
           coin == Some(coinbaseBox, p)
<1>1. minerSlice \in Nat
  BY MinerShare DEF CreditSettle
<1>2. Valued(credits) /\ Valued(releaseBoxes) /\ ValueOf(releaseBoxes) = released /\ released \in Nat
  BY ReleasesBoxed, Releases DEF CreditOK
<1>3. Valued(coin) /\ ValueOf(coin) = minerSlice
  <2>1. p \in BOOLEAN /\ coinbaseBox.value = minerSlice /\ (~p => minerSlice = 0)
    BY <1>1 DEF coinbaseBox
  <2> HIDE DEF p
  <2>2. Valued(Some(coinbaseBox, p)) /\ ValueOf(Some(coinbaseBox, p)) = IF p THEN coinbaseBox.value ELSE 0
    BY <1>1, <2>1, ValueSome
  <2> QED BY <2>1, <2>2
<1>4. credits' = c1 (+) coin
  BY DEF CreditSettle
<1> HIDE DEF coin
<1>5. Valued(c1) /\ ValueOf(c1) = ValueOf(credits) + ValueOf(releaseBoxes)
  BY <1>2, ValueSum
<1> HIDE DEF c1
<1>6. Valued(c1 (+) coin) /\ ValueOf(c1 (+) coin) = ValueOf(c1) + ValueOf(coin)
  BY <1>3, <1>5, ValueSum
<1>7. ValueOf(credits) \in Nat
  BY <1>2, ValueNat
<1>8. ValueOf(credits') = ValueOf(credits) + released + minerSlice
  BY <1>1, <1>2, <1>3, <1>4, <1>5, <1>6, <1>7
<1> QED BY <1>1, <1>2, <1>4, <1>6, <1>7, <1>8

(* A block in which the backers are not active has no markers: none was staked. *)
LEMMA IdleBackers ==
  ASSUME CreditOK, BackersSolvent, ~backerActive
  PROVE  totalUnstaked = 0 /\ released = 0
<1>1. /\ totalUnstaked \in Nat /\ released \in Nat /\ bpool.accrual \in Nat /\ BackerSupply \in Nat \ {0}
      /\ BackerSupply * released <= bpool.accrual * totalUnstaked
  BY Releases, CreditConstants DEF CreditOK
<1>2. totalUnstaked = 0
  <2>1. CASE BackerTable = {}
    <3>1. WeightOf(stakes) \in Nat /\ bpool.staked = 0
      BY <2>1, WeightNat DEF CreditOK
    <3>2. WeightOf(stakes) + totalUnstaked = bpool.staked
      BY DEF BackersSolvent
    <3> QED BY <1>1, <3>1, <3>2
  <2>2. CASE ~(totalUnstaked > 0)
    BY <1>1, <2>2
  <2> QED BY <2>1, <2>2 DEF backerActive
<1>3. bpool.accrual * totalUnstaked = 0
  BY <1>1, <1>2
<1>4. released = 0
  <2> SUFFICES ASSUME released > 0 PROVE FALSE
    BY <1>1
  <2>1. BackerSupply * released > 0
    BY <1>1
  <2> QED BY <1>1, <1>3, <2>1
<1> QED BY <1>2, <1>4

(* After the draw and the releases the pool still covers the weight that is left. *)
LEMMA PoolSolvent ==
  ASSUME TypeOK, body \in OpenBodies, CreditOK, BackersSolvent, backerActive,
         totalUnstaked <= bpool.staked
  PROVE  /\ bpool.value + backerDraw - released \in Nat
         /\ (bpool.value + backerDraw - released) * BackerSupply
              >= stakedAfter * (bpool.accrual + accrualStep)
         /\ stakedAfter \in Nat /\ accrualStep \in Nat /\ stakedAfter + totalUnstaked = bpool.staked
<1> DEFINE v == bpool.value
           s == bpool.staked
           a == bpool.accrual
           d == backerDraw
           k == BackerSupply
           w == totalUnstaked
           r == released
           x == stakedAfter
           y == accrualStep
<1>1. /\ v \in Nat /\ s \in Nat /\ a \in Nat /\ k \in Nat \ {0} /\ w \in Nat /\ r \in Nat
      /\ k * r <= a * w /\ v * k >= s * a /\ w <= s /\ x = s - w
  <2>1. v \in Nat /\ s \in Nat /\ a \in Nat
    BY DEF CreditOK
  <2>2. k \in Nat \ {0} /\ w \in Nat /\ r \in Nat /\ k * r <= a * w
    BY Releases, CreditConstants
  <2>3. v * k >= s * a /\ x = s - w
    BY DEF BackersSolvent, stakedAfter
  <2> QED BY <2>1, <2>2, <2>3
<1>2. d \in Nat /\ y \in Nat /\ x * y <= k * d
  BY BackerShare
<1> HIDE DEF v, s, a, d, k, w, r, x, y
<1>3. x \in Nat /\ x + w = s
  BY <1>1
<1>4. s * a = x * a + a * w
  BY <1>1, <1>3
<1>5. (v + d - r) * k = v * k + k * d - k * r
  BY <1>1, <1>2
<1>6. x * (a + y) = x * a + x * y
  BY <1>1, <1>2, <1>3
<1>7. (v + d - r) * k >= x * (a + y) /\ x * (a + y) >= 0
  <2> DEFINE vk == v * k
             kd == k * d
             kr == k * r
             xa == x * a
             aw == a * w
             xy == x * y
             sa == s * a
  <2>1. vk \in Nat /\ kd \in Nat /\ kr \in Nat /\ xa \in Nat /\ aw \in Nat /\ xy \in Nat /\ sa \in Nat
    BY <1>1, <1>2, <1>3
  <2>2. kr <= aw /\ vk >= sa /\ xy <= kd /\ sa = xa + aw
    BY <1>1, <1>2, <1>4
  <2>3. (v + d - r) * k = vk + kd - kr /\ x * (a + y) = xa + xy
    BY <1>5, <1>6
  <2> HIDE DEF vk, kd, kr, xa, aw, xy, sa
  <2> QED BY <2>1, <2>2, <2>3
<1>8. v + d - r \in Nat
  <2> SUFFICES ASSUME v + d - r < 0 PROVE FALSE
    BY <1>1, <1>2
  <2>1. (v + d - r) * k < 0
    BY <1>1, <1>2
  <2> QED BY <1>1, <1>2, <1>3, <1>7, <2>1
<1> QED BY <1>2, <1>3, <1>7, <1>8 DEF v, s, a, d, k, w, r, x, y

(* The coinbase split loses and mints nothing. *)
LEMMA SettleSound ==
  ASSUME TypeOK, body \in OpenBodies, CreditOK, CreditsSound, CreditSettle
  PROVE  CreditOK' /\ CreditsSound'
<1>1. /\ emission' = emission - release + unearned /\ treasury' = treasury + treasuryCut
      /\ stakes' = stakes /\ cbody' = NoCredits
      /\ backerActive => totalUnstaked <= bpool.staked
      /\ bpool' = IF backerActive
                  THEN [value |-> bpool.value + backerDraw - released,
                        staked |-> stakedAfter, accrual |-> bpool.accrual + accrualStep]
                  ELSE bpool
  BY DEF CreditSettle
<1>2. /\ Valued(credits') /\ ValueOf(credits') = ValueOf(credits) + released + minerSlice
      /\ minerSlice \in Nat /\ released \in Nat /\ ValueOf(credits) \in Nat
  BY SettledBoxes
<1>3. Emptied'
  BY <1>1, NoMarkersThen
<1>4. /\ cbody'.fees = 0 /\ cbody'.rent = 0 /\ totalUnstaked' = 0
      /\ cbody' \in [fees : Nat, rent : Nat, unstakes : Seq(Rows)]
  BY <1>3 DEF Emptied
<1>5. /\ release \in Nat /\ release <= emission /\ taxable = release + cbody.fees
      /\ cbody.fees \in Nat /\ cbody.rent \in Nat /\ emission \in Nat /\ treasury \in Nat
      /\ treasuryCut \in Nat /\ unearned \in Nat /\ bpool.value \in Nat /\ bpool.staked \in Nat
      /\ bpool.accrual \in Nat
  <2>1. treasury \in Nat /\ bpool.value \in Nat /\ bpool.staked \in Nat /\ bpool.accrual \in Nat
    BY DEF CreditOK
  <2> QED BY <2>1, Released, TreasuryShare, BonusShare
<1>6. /\ backerDraw \in Nat /\ accrualStep \in Nat
      /\ ~backerActive => backerDraw = 0
      /\ minerSlice = taxable + cbody.rent - treasuryCut - unearned - backerDraw
  BY <1>1, BackerShare, MinerShare
<1>7. /\ bpool' \in [value : Nat, staked : Nat, accrual : Nat]
      /\ bpool'.value * BackerSupply >= bpool'.staked * bpool'.accrual
      /\ WeightOf(stakes') + totalUnstaked' = bpool'.staked
      /\ bpool'.value + released = bpool.value + backerDraw
      /\ BackerTable = {} => bpool'.staked = 0
  <2>1. WeightOf(stakes) \in Nat /\ WeightOf(stakes) + totalUnstaked = bpool.staked /\ BackersSolvent
        /\ bpool.value * BackerSupply >= bpool.staked * bpool.accrual
    BY WeightNat DEF CreditOK, CreditsSound, BackersSolvent
  <2>2. CASE backerActive
    <3>1. /\ bpool.value + backerDraw - released \in Nat
          /\ (bpool.value + backerDraw - released) * BackerSupply
               >= stakedAfter * (bpool.accrual + accrualStep)
          /\ stakedAfter \in Nat /\ accrualStep \in Nat /\ stakedAfter + totalUnstaked = bpool.staked
      BY <1>1, <2>1, <2>2, PoolSolvent
    <3>2. /\ bpool'.value = bpool.value + backerDraw - released
          /\ bpool'.staked = stakedAfter /\ bpool'.accrual = bpool.accrual + accrualStep
          /\ bpool' = [value |-> bpool.value + backerDraw - released,
                       staked |-> stakedAfter, accrual |-> bpool.accrual + accrualStep]
      BY <1>1, <2>2
    <3>3. bpool' \in [value : Nat, staked : Nat, accrual : Nat]
      BY <1>5, <3>1, <3>2
    <3>4. totalUnstaked \in Nat
      BY Releases
    <3>5. WeightOf(stakes') + totalUnstaked' = bpool'.staked
      BY <1>1, <1>4, <2>1, <3>1, <3>2, <3>4
    <3>6. bpool'.value + released = bpool.value + backerDraw
      BY <1>2, <1>5, <1>6, <3>1, <3>2
    <3>7. BackerTable # {}
      BY <2>2 DEF backerActive
    <3> QED BY <3>1, <3>2, <3>3, <3>5, <3>6, <3>7
  <2>3. CASE ~backerActive
    <3>1. totalUnstaked = 0 /\ released = 0
      BY <2>1, <2>3, IdleBackers
    <3>2. bpool' = bpool /\ backerDraw = 0
      BY <1>1, <1>6, <2>3
    <3>3. bpool' \in [value : Nat, staked : Nat, accrual : Nat] /\ (BackerTable = {} => bpool'.staked = 0)
      BY <3>2 DEF CreditOK
    <3> QED BY <1>1, <1>4, <1>5, <2>1, <3>1, <3>2, <3>3
  <2> QED BY <2>2, <2>3
<1>8. emission' \in Nat /\ treasury' \in Nat
  BY <1>1, <1>5
<1>9. CreditOK'
  BY <1>1, <1>2, <1>4, <1>7, <1>8 DEF CreditOK
<1>10. CreditsConserved'
  <2> DEFINE c == ValueOf(credits)
             p == bpool.value
             q == bpool'.value
             f == cbody.fees
             t == cbody.rent
             d == ValueOf(credits')
  <2>1. emission + treasury + p + c + f + t = EmissionTotal
    BY DEF CreditsSound, CreditsConserved
  <2>2. /\ c \in Nat /\ p \in Nat /\ q \in Nat /\ f \in Nat /\ t \in Nat
        /\ d = c + released + minerSlice /\ q + released = p + backerDraw
        /\ taxable = release + f
        /\ minerSlice = taxable + t - treasuryCut - unearned - backerDraw
    BY <1>2, <1>5, <1>6, <1>7
  <2>3. cbody'.fees = 0 /\ cbody'.rent = 0
    BY <1>4
  <2> HIDE DEF c, p, q, f, t, d
  <2>4. emission' + treasury' + q + d = EmissionTotal
    BY <1>1, <1>2, <1>5, <1>6, <2>1, <2>2
  <2>5. emission' + treasury' + q + d \in Int
    BY <1>2, <1>8, <2>2
  <2>6. emission' + treasury' + q + d + 0 + 0 = EmissionTotal
    BY <2>4, <2>5
  <2> QED BY <2>3, <2>6 DEF CreditsConserved, q, d
<1>11. BackersSolvent'
  BY <1>7 DEF BackersSolvent
<1> QED BY <1>9, <1>10, <1>11 DEF CreditsSound

(* Every credit transaction keeps credits sound. *)
LEMMA CreditTxSound ==
  ASSUME CreditOK, CreditsSound, CreditTransaction
  PROVE  CreditOK' /\ CreditsSound'
<1>1. ASSUME NEW ins \in Inputs, NEW to \in Payees, NEW amount \in TransferAmounts, NEW fee \in Fees,
             NEW lock \in Locks, NEW born \in {height, highestInput(ins)},
             Transfer(ins, to, amount, fee, IF lock = 0 THEN 0 ELSE height + lock, born)
      PROVE  CreditOK' /\ CreditsSound'
  <2> DEFINE until == IF lock = 0 THEN 0 ELSE height + lock
  <2>1. Transfer(ins, to, amount, fee, until, born)
    BY <1>1
  <2> HIDE DEF until
  <2> QED BY <2>1, TransferSound
<1>2. ASSUME NEW x \in BagToSet(credits), Rent(x)
      PROVE  CreditOK' /\ CreditsSound'
  BY <1>2, RentSound DEF BagToSet
<1>3. ASSUME NEW s \in BagToSet(stakes), NEW weight \in 1 .. s.weight, Unstake(s, weight)
      PROVE  CreditOK' /\ CreditsSound'
  BY <1>3, UnstakeSound DEF BagToSet
<1> QED BY <1>1, <1>2, <1>3, Zenon DEF CreditTransaction

(* Every step of the ledger keeps credits sound. *)
LEMMA CreditLedgerStep ==
  ASSUME IInv, CreditOK, CreditsSound, [LedgerNext]_ledgerVars
  PROVE  CreditOK' /\ CreditsSound'
<1>1. CASE UNCHANGED creditVars
  BY <1>1, CreditsStay
<1>2. CASE CreditTransaction
  BY <1>2, CreditTxSound
<1>3. CASE EndBlock /\ CreditSettle
  <2>1. TypeOK /\ body \in OpenBodies
    BY <1>3, OpenBody DEF IInv, EndBlock
  <2> QED BY <1>3, <2>1, SettleSound
<1>4. CASE UNCHANGED ledgerVars
  BY <1>4, CreditsStay DEF ledgerVars
<1> QED BY <1>1, <1>2, <1>3, <1>4 DEF LedgerNext

(* The inductive invariant of the whole ledger. *)
LEMMA CreditInductive ==
  /\ LedgerInit => IInv /\ CreditOK /\ CreditsSound
  /\ IInv /\ CreditOK /\ CreditsSound /\ [LedgerNext]_ledgerVars
       => (IInv /\ CreditOK /\ CreditsSound)'
<1>1. LedgerInit => IInv /\ CreditOK /\ CreditsSound
  BY InitStanding, GenesisCredits DEF LedgerInit, IInv
<1>2. IInv /\ CreditOK /\ CreditsSound /\ [LedgerNext]_ledgerVars
        => (IInv /\ CreditOK /\ CreditsSound)'
  BY LedgerStep, CreditLedgerStep
<1> QED BY <1>1, <1>2

\* No credit is minted or lost by any rounding of the coinbase split, a fee, a rent or a
\* release, and the backers' pool covers the claims of every unit staked.
THEOREM CreditsHold ==
  LedgerSpec => []CreditsSound
BY CreditInductive, PTL DEF LedgerSpec

\* Whatever the treasury, the bonus for included identities and the backers take of a
\* block, its miner is left the floor of emission and fees, and all of the rent.
THEOREM MinerFloorHolds ==
  LedgerSpec => MinerFloorHeld
<1>1. IInv /\ CreditOK /\ CreditsSound /\ [LedgerNext]_ledgerVars =>
        [body.open /\ ~body'.open =>
           ValueOf(credits') - ValueOf(credits) - released
             >= (MinerFloorPct * taxable) \div 100 + cbody.rent]_ledgerVars
  <2> SUFFICES ASSUME IInv, CreditOK, [LedgerNext]_ledgerVars, body.open, ~body'.open
               PROVE  ValueOf(credits') - ValueOf(credits) - released
                        >= (MinerFloorPct * taxable) \div 100 + cbody.rent
    OBVIOUS
  <2>1. body \in OpenBodies /\ TypeOK
    BY OpenBody DEF IInv
  <2>2. CASE EndBlock /\ CreditSettle
    <3>1. /\ minerSlice \in Nat /\ released \in Nat /\ ValueOf(credits) \in Nat
          /\ ValueOf(credits') = ValueOf(credits) + released + minerSlice
      BY <2>1, <2>2, SettledBoxes
    <3>2. minerSlice >= (MinerFloorPct * taxable) \div 100 + cbody.rent
      BY <2>1, <2>2, MinerShare DEF CreditSettle
    <3>3. ValueOf(credits') - ValueOf(credits) - released = minerSlice
      BY <3>1
    <3> QED BY <3>2, <3>3
  <2>3. CASE BeginBlock
    BY <2>3 DEF BeginBlock
  <2>4. CASE Transaction
    BY <2>4, TransactionStep DEF BodyGoesOn, OpenBodies
  <2>5. CASE CreditTransaction
    <3>1. PICK kind : CreditTx(kind)
      BY <2>5, CreditKinds
    <3>2. body' \in OpenBodies
      BY <3>1, CreditStep DEF IInv, Quiet
    <3> QED BY <3>2 DEF OpenBodies
  <2>6. CASE UNCHANGED ledgerVars
    BY <2>6 DEF ledgerVars, vars
  <2> QED BY <2>2, <2>3, <2>4, <2>5, <2>6 DEF LedgerNext
<1> QED BY <1>1, CreditInductive, PTL DEF LedgerSpec, MinerFloorHeld

=============================================================================
