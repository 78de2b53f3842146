---------------------------- MODULE KarmaLedger ----------------------------
(***************************************************************************)
(* The karma side of block application: posts, likes, names, vouches and   *)
(* invites, the settlement that ends every block, decay and membership.    *)
(*                                                                         *)
(* A block is opened (BeginBlock takes the captures applyBlock takes from  *)
(* the state before the body), takes transactions one by one, and is       *)
(* closed by EndBlock, which is the settlement and everything after it.  A *)
(* transaction a block refuses is a transaction no body holds: the action  *)
(* is not enabled.  A refused block's overlay is dropped and leaves no     *)
(* trace.                                                                  *)
(*                                                                         *)
(* An identity holds at most one karma box of its own and one income box,  *)
(* so each is an amount, zero where there is no box.  Box ids, signatures  *)
(* and encodings are left out.  A block confirms its posts before its      *)
(* first transaction: a like may stand ahead of the post it names, and the *)
(* two commute, so only the other order is taken.                          *)
(***************************************************************************)
EXTENDS Integers, FiniteSets, Sums

CONSTANTS
  Ids,               \* identities, named by their public keys
  Committee,         \* the roots the genesis state seeds
  Posts,             \* post ids
  Names,             \* canonical usernames
  GenesisKarma,      \* genesisKarmaPerMember
  Supply,            \* KARMA_SUPPLY_TOTAL
  KarmaMinimum, DecayAmount, StaleThreshold, DecayInterval,  \* decayCfg
  ThreadPrice, ReplyPrice, ReplyShare, LikeCost, BurnPrice, VouchAmount,
  LikesPerPayout,    \* LIKES_PER_KARMA_PAYOUT
  VestPerLikes,      \* INVITE_BOND_VEST_PER_LIKES
  BondMin, BondMax,  \* the network's bounds of an invite bond
  BondAmounts,       \* the bonds an invite may offer
  Probation, Cooldown, CastWindow,
  BarMultiplier,     \* membershipBarMultiplier
  LikesMultiplier,   \* MEMBER_LIKES_MULTIPLIER
  MaxEscrowReturns, MaxLapses, MaxBondSettlements,  \* MAX_..._PER_BLOCK
  MaxHeight,         \* bound on blocks
  MaxBody,           \* bound on the transactions of one block
  MaxTxs,            \* bound on the transactions of a behaviour
  Scopes             \* bound: a behaviour's transactions are of one scope's kinds

AllKinds == {"thread", "reply", "like", "withdraw", "claim", "burn", "vouch",
             "unvouch", "invite", "merge", "transfer", "rent", "unstake"}

ASSUME KarmaAssumption ==
  /\ IsFiniteSet(Ids) /\ Committee \subseteq Ids /\ Scopes \subseteq SUBSET AllKinds
  /\ {GenesisKarma, Supply, KarmaMinimum, DecayAmount, StaleThreshold, LikeCost,
      ReplyShare, Probation, Cooldown, CastWindow, BarMultiplier, LikesMultiplier,
      BondMin, MaxHeight, MaxBody, MaxTxs} \subseteq Nat
  /\ {DecayInterval, LikesPerPayout, VestPerLikes, ThreadPrice, BurnPrice,
      VouchAmount, MaxEscrowReturns, MaxLapses, MaxBondSettlements} \subseteq Nat \ {0}
  /\ ReplyPrice \in Nat /\ ReplyShare <= ReplyPrice
  /\ BondMax \in Nat /\ BondMin <= BondMax /\ BondAmounts \subseteq Nat
  /\ Cardinality(Committee) * GenesisKarma <= Supply

VARIABLES
  height,    \* the last applied block, or the open block
  known,     \* the identities that hold an IdentityRecord
  rec,       \* their records, EmptyRecord where there is none
  own, inc,  \* the own and the income karma box of each identity
  vouches, escrows, bonds,
  carry,     \* per author, the LikeAccrualBox left over by earlier blocks
  pool,      \* the karma pool box
  posts, liked, names,
  members,   \* NetworkRecord.memberCount
  body,      \* the open block's captures and accumulators
  txs,       \* transactions applied so far, at most MaxTxs
  scope      \* the kinds of transaction of this behaviour

boxVars == <<own, inc, vouches, escrows, bonds, carry, pool>>
recordVars == <<known, rec, posts, liked, names, members>>
vars == <<height, boxVars, recordVars, body, txs, scope>>

EmptyRecord ==
  [act |-> 0, decay |-> 0, invited |-> 0, likes |-> 0, since |-> 0, bar |-> 0,
   vouched |-> 0, mlikes |-> 0, used |-> 0]

NoPost == [author |-> "none", at |-> 0, live |-> FALSE]

\* newTxApplyAcc beside the captures.  `pre` is the pre-body view.
NoBody ==
  [open |-> FALSE, pre |-> <<>>, escrows |-> {}, lapsed |-> {}, size |-> 0,
   spenders |-> {}, actors |-> {}, price |-> 0, marks |-> [i \in Ids |-> 0], invited |-> {},
   likes |-> [i \in Ids |-> 0], mlikes |-> [i \in Ids |-> 0],
   touched |-> {}, was |-> {}, withdrawn |-> {}]

Zero == [i \in Ids |-> 0]
Lesser(a, b) == IF a <= b THEN a ELSE b
Greater(a, b) == IF a >= b THEN a ELSE b
Total(f) == SumOver(f, Ids)

\* The genesis state: every committee member is a root of height 1.
Init ==
  /\ height = 0
  /\ known = Committee
  /\ rec = [i \in Ids |-> IF i \in Committee
                          THEN [EmptyRecord EXCEPT !.act = 1, !.since = 1]
                          ELSE EmptyRecord]
  /\ own = [i \in Ids |-> IF i \in Committee THEN GenesisKarma ELSE 0]
  /\ inc = Zero /\ carry = Zero
  /\ vouches = {} /\ escrows = {} /\ bonds = {}
  /\ pool = Supply - Cardinality(Committee) * GenesisKarma
  /\ posts = [p \in Posts |-> NoPost]
  /\ liked = {} /\ names = {}
  /\ members = Cardinality(Committee)
  /\ body = NoBody
  /\ txs = 0 /\ scope \in Scopes

-----------------------------------------------------------------------------
(* Membership and decay *)

isMember(r) == r.since > 0 /\ r.vouched >= r.bar
isRoot(r) == r.since > 0 /\ r.bar = 0 /\ r.invited = 0
isLapsedMember(r) == r.since > 0 /\ r.vouched < r.bar

icbrt(n) == Max({m \in 0 .. n : m * m * m <= n})
membershipBar(n) == Greater(1, icbrt(n * BarMultiplier))
memberLikesBar(n) == LikesMultiplier * membershipBar(n)

isVouchCounted(voucher, target) == target.since = 0 \/ voucher.since < target.since

\* vouches naming t that count toward its standing, for the records r
Counted(vs, r, t) == {v \in vs : v.target = t /\ isVouchCounted(r[v.voucher], r[t])}

clockStart(r) == Greater(r.act + StaleThreshold, r.decay)
owedPeriods(r, h) == (h - clockStart(r)) \div DecayInterval
decaySettledThrough(r, h) == clockStart(r) + owedPeriods(r, h) * DecayInterval

effectiveKarma(face, r, h) ==
  IF owedPeriods(r, h) <= 0 THEN face
  ELSE Greater(face - owedPeriods(r, h) * DecayAmount, Lesser(face, KarmaMinimum))

karmaOwed(face, r, h) == face - effectiveKarma(face, r, h)

-----------------------------------------------------------------------------
(* The open block *)

\* The first n of S in the order of key; the box ids that break a tie are hashes.
FirstOf(S, n, key(_)) ==
  {T \in SUBSET S : /\ Cardinality(T) = Lesser(n, Cardinality(S))
                    /\ \A x \in T, y \in S \ T : key(x) <= key(y)}

BeginBlock ==
  /\ ~body.open /\ height < MaxHeight
  /\ height' = height + 1
  /\ \E returned \in FirstOf({e \in escrows : e.release <= height + 1}, MaxEscrowReturns,
                             LAMBDA e : e.release),
        lapsed \in FirstOf({v \in vouches : isLapsedMember(rec[v.voucher])}, MaxLapses,
                           LAMBDA v : 0) :
       body' = [NoBody EXCEPT
                  !.open = TRUE, !.escrows = returned, !.lapsed = lapsed,
                  !.pre = [own |-> own, inc |-> inc, rec |-> rec, vouches |-> vouches]]
  /\ UNCHANGED <<boxVars, recordVars, txs, scope>>

\* A body's transaction: within the bounds, of a kind the behaviour uses.
InBody(kind) ==
  /\ body.open /\ kind \in scope /\ body.size < MaxBody /\ txs < MaxTxs
  /\ txs' = txs + 1 /\ UNCHANGED scope

preFace(i) == body.pre.own[i] + body.pre.inc[i]

\* Mutated form of KarmaSpend: the decay owed is read from the record as the body has left it.
KarmaSpendFresh(i, withIncome, spend, isPost) ==
  LET inputs == own[i] + (IF withIncome THEN inc[i] ELSE 0)
      remaining == own[i] + inc[i] - karmaOwed(preFace(i), rec[i], height)
  IN  /\ withIncome => inc[i] > 0
      /\ inputs > 0 /\ inputs >= spend
      /\ spend > 0 => IF isPost THEN remaining >= spend
                                ELSE remaining - spend >= KarmaMinimum
      /\ own' = [own EXCEPT ![i] = inputs - spend]
      /\ inc' = IF withIncome THEN [inc EXCEPT ![i] = 0] ELSE inc

\* checkTransitions' karma arm: i's own box is an input, its income box may be,
\* and what does not leave as the change is spent.  Only a post spends the floor.
KarmaSpend(i, withIncome, spend, isPost) ==
  LET inputs == own[i] + (IF withIncome THEN inc[i] ELSE 0)
      remaining == own[i] + inc[i] - karmaOwed(preFace(i), body.pre.rec[i], height)
  IN  /\ withIncome => inc[i] > 0
      /\ inputs > 0 /\ inputs >= spend
      /\ spend > 0 => IF isPost THEN remaining >= spend
                                ELSE remaining - spend >= KarmaMinimum
      /\ own' = [own EXCEPT ![i] = inputs - spend]
      /\ inc' = IF withIncome THEN [inc EXCEPT ![i] = 0] ELSE inc

\* The identities whose vouches a transaction moves, and their standing before it.
Touch(b, ts) ==
  [b EXCEPT !.touched = @ \cup ts,
            !.was = @ \cup {t \in ts \ b.touched : isMember(rec[t])}]

\* A karma transaction is a spend of i's; unless it is bare, i counts as an actor.
Recorded(b, i) == [b EXCEPT !.size = @ + 1, !.spenders = @ \cup {i}, !.actors = @ \cup {i}]

Thread(i, withIncome, p) ==
  /\ InBody("thread")
  /\ posts[p] = NoPost
  /\ KarmaSpend(i, withIncome, ThreadPrice, TRUE)
  /\ posts' = [posts EXCEPT ![p] = [author |-> i, at |-> height, live |-> TRUE]]
  /\ rec' = [rec EXCEPT ![i].act = height]
  /\ known' = known \cup {i}
  /\ body' = [Recorded(body, i) EXCEPT !.price = @ + ThreadPrice]
  /\ UNCHANGED <<height, vouches, escrows, bonds, carry, pool, liked, names, members>>

\* A reply shares its price with the parent's author, withdrawn or not.
Reply(i, withIncome, p, parent) ==
  /\ InBody("reply")
  /\ posts[p] = NoPost /\ posts[parent] # NoPost
  /\ KarmaSpend(i, withIncome, ReplyPrice, TRUE)
  /\ posts' = [posts EXCEPT ![p] = [author |-> i, at |-> height, live |-> TRUE]]
  /\ rec' = [rec EXCEPT ![i].act = height]
  /\ known' = known \cup {i}
  /\ body' = [Recorded(body, i) EXCEPT
                !.price = @ + (ReplyPrice - ReplyShare),
                !.marks[posts[parent].author] = @ + ReplyShare]
  /\ UNCHANGED <<height, vouches, escrows, bonds, carry, pool, liked, names, members>>

Like(i, withIncome, p) ==
  /\ InBody("like")
  /\ posts[p].live /\ posts[p].author # i /\ <<p, i>> \notin liked
  /\ KarmaSpend(i, withIncome, LikeCost, FALSE)
  /\ liked' = liked \cup {<<p, i>>}
  /\ body' = LET a == posts[p].author
                 b == [Recorded(body, i) EXCEPT !.marks[a] = @ + LikeCost, !.likes[a] = @ + 1]
             IN  IF i \in known /\ isMember(rec[i]) THEN [b EXCEPT !.mlikes[a] = @ + 1] ELSE b
  /\ UNCHANGED <<height, vouches, escrows, bonds, carry, pool, known, rec, posts, names,
                 members>>

\* The withdrawal itself lands after the body's last transaction.
Withdraw(i, withIncome, p) ==
  /\ InBody("withdraw")
  /\ posts[p].live /\ posts[p].author = i /\ posts[p].at < height
  /\ p \notin body.withdrawn
  /\ KarmaSpend(i, withIncome, 0, FALSE)
  /\ body' = [Recorded(body, i) EXCEPT !.withdrawn = @ \cup {p}]
  /\ UNCHANGED <<height, vouches, escrows, bonds, carry, pool, recordVars>>

Claim(i, withIncome, n) ==
  /\ InBody("claim")
  /\ \A held \in names : held[1] # n /\ held[2] # i
  /\ KarmaSpend(i, withIncome, 0, FALSE)
  /\ names' = names \cup {<<n, i>>}
  /\ body' = Recorded(body, i)
  /\ UNCHANGED <<height, vouches, escrows, bonds, carry, pool, known, rec, posts, liked,
                 members>>

Burn(i, withIncome, n) ==
  /\ InBody("burn")
  /\ <<n, i>> \in names
  /\ KarmaSpend(i, withIncome, BurnPrice, FALSE)
  /\ names' = names \ {<<n, i>>}
  /\ body' = [Recorded(body, i) EXCEPT !.price = @ + BurnPrice]
  /\ UNCHANGED <<height, vouches, escrows, bonds, carry, pool, known, rec, posts, liked,
                 members>>

\* A consolidation: a karma transaction that spends nothing, and still touches.
Merge(i, withIncome) ==
  /\ InBody("merge")
  /\ KarmaSpend(i, withIncome, 0, FALSE)
  /\ body' = [Recorded(body, i) EXCEPT !.actors = body.actors]
  /\ UNCHANGED <<height, vouches, escrows, bonds, carry, pool, recordVars>>

\* Mutated form of AdjustedVouch: every vouch counts, whoever casts it.
AdjustedEveryVouch(v, delta) == [rec EXCEPT ![v.target].vouched = @ + delta]

\* adjustVouchCount.
AdjustedVouch(v, delta) ==
  IF isVouchCounted(rec[v.voucher], rec[v.target])
  THEN [rec EXCEPT ![v.target].vouched = @ + delta]
  ELSE rec

\* The height a cast declares may lie up to CastWindow blocks back.
Vouch(i, withIncome, t, cast) ==
  LET v == [voucher |-> i, target |-> t, cast |-> cast]
  IN  /\ InBody("vouch")
      /\ cast \in Greater(1, height - CastWindow) .. height
      /\ \A e \in escrows : e.owner # i
      /\ i \in known /\ isMember(rec[i])
      /\ t \in known /\ t # i
      /\ \A w \in vouches : w.voucher # i \/ w.target # t
      /\ KarmaSpend(i, withIncome, VouchAmount, FALSE)
      /\ vouches' = vouches \cup {v}
      /\ rec' = AdjustedVouch(v, 1)
      /\ body' = Touch(Recorded(body, i), {t})
      /\ UNCHANGED <<height, escrows, bonds, carry, pool, known, posts, liked, names,
                     members>>

\* The stake waits in escrow for the cooldown, counted from the cast.
EscrowOf(v) == [owner |-> v.voucher, target |-> v.target, release |-> v.cast + Cooldown]

Unvouch(v) ==
  /\ InBody("unvouch")
  /\ vouches' = vouches \ {v}
  /\ escrows' = escrows \cup {EscrowOf(v)}
  /\ rec' = AdjustedVouch(v, -1)
  /\ body' = Touch([body EXCEPT !.size = @ + 1, !.actors = @ \cup {v.voucher}], {v.target})
  /\ UNCHANGED <<height, own, inc, bonds, carry, pool, known, posts, liked, names, members>>

\* availableInvites: a root invites freely, a member by its vouches.
MayInvite(i) ==
  /\ i \in known
  /\ \/ isRoot(rec[i])
     \/ isMember(rec[i]) /\ rec[i].vouched \div membershipBar(members) - rec[i].used >= 1

Invite(i, withIncome, j, amount) ==
  /\ InBody("invite")
  /\ amount \in BondMin .. BondMax
  /\ j \notin known
  /\ MayInvite(i)
  /\ \A pair \in body.invited : pair[1] # j
  /\ KarmaSpend(i, withIncome, amount, FALSE)
  /\ bonds' = bonds \cup {[inviter |-> i, invitee |-> j, value |-> amount]}
  /\ rec' = [rec EXCEPT ![i].used = @ + 1]
  /\ body' = [Recorded(body, i) EXCEPT !.invited = @ \cup {<<j, i>>}]
  /\ UNCHANGED <<height, vouches, escrows, carry, pool, known, posts, liked, names, members>>

-----------------------------------------------------------------------------
(* The settlement *)

\* computeLikePayouts: of every LikesPerPayout an author is paid all but one.
markedAuthors == {a \in Ids : body.marks[a] > 0}
markTotal(a) == body.marks[a] + carry[a]
payoutOf(a) == IF a \in markedAuthors
               THEN (markTotal(a) \div LikesPerPayout) * (LikesPerPayout - 1) ELSE 0
pooledOf(a) == IF a \in markedAuthors THEN markTotal(a) \div LikesPerPayout ELSE 0
\* Mutated form of carryOf: the remainder of a payout is dropped.
carryOfUnpaid(a) == IF payoutOf(a) > 0 THEN 0 ELSE carry[a] + body.marks[a]

carryOf(a) == IF a \in markedAuthors THEN markTotal(a) % LikesPerPayout ELSE carry[a]

vestedPart(b) == Lesser(rec[b.invitee].likes \div VestPerLikes, b.value)

bondsSettlingAt(h) ==
  {b \in bonds : b.invitee \in known /\ rec[b.invitee].invited \in 1 .. h - Probation}

\* What the income leg pays i: like payouts, vested bonds, returned stakes.
incomeOf(i, settled) ==
  payoutOf(i)
  + SumOver([b \in settled |-> vestedPart(b)], {b \in settled : b.inviter = i})
  + VouchAmount * Cardinality({e \in body.escrows : e.owner = i})

\* deriveKarmaDecay, over the pre-body records and the boxes the body left.
squaredSet(settled) == body.spenders \cup {i \in Ids : incomeOf(i, settled) > 0}
decayPlans(settled) == {i \in squaredSet(settled) : owedPeriods(body.pre.rec[i], height) > 0}
postBodyKarma(i) == own[i] + inc[i]
burnOf(i, plans) == IF i \in plans
                    THEN karmaOwed(postBodyKarma(i), body.pre.rec[i], height) ELSE 0

bondOf(j) == CHOOSE b \in bonds : b.invitee = j
grantOf(j) == IF \E pair \in body.invited : pair[1] = j THEN bondOf(j).value ELSE 0

\* Mutated form of lapseLeg: a lapsed vouch stays until its cooldown is over.
lapseLegCooled == {v \in body.lapsed \cap vouches : v.cast + Cooldown <= height}

lapseLeg == body.lapsed \cap vouches

\* The records once the settlement has applied: lapsed vouches are taken back.
recAfterLapses ==
  [t \in Ids |-> [rec[t] EXCEPT !.vouched =
                    @ - Cardinality(Counted(lapseLeg, rec, t))]]

\* The grants and the like counters.
recAfterGrants ==
  [i \in Ids |->
     LET r == recAfterLapses[i]
         granted == {pair \in body.invited : pair[1] = i}
         conferred == \E pair \in granted : isRoot(recAfterLapses[pair[2]])
         g == IF granted = {} THEN r
              ELSE [r EXCEPT !.act = IF i \in known THEN @ ELSE height,
                             !.invited = height,
                             !.since = IF conferred THEN height ELSE @,
                             !.bar = IF conferred THEN 0 ELSE @]
     IN  [g EXCEPT !.likes = @ + body.likes[i], !.mlikes = @ + body.mlikes[i]]]

invitees == {pair[1] : pair \in body.invited}
lapseTargets == {v.target : v \in lapseLeg}

\* The membership pass: the bars are those of the block's first state.
touchedAtEnd == body.touched \cup lapseTargets \cup invitees \cup
                {a \in Ids : body.mlikes[a] > 0}
wasMember(i) ==
  /\ i \notin invitees
  /\ IF i \in body.touched THEN i \in body.was
     ELSE IF i \in lapseTargets THEN isMember(rec[i])
     ELSE isMember(recAfterGrants[i])

gains(i) == /\ recAfterGrants[i].since = 0
            /\ recAfterGrants[i].vouched >= membershipBar(members)
            /\ recAfterGrants[i].mlikes >= memberLikesBar(members)
joined == {i \in touchedAtEnd : \/ gains(i)
                                \/ isMember(recAfterGrants[i]) /\ ~wasMember(i)}
left == {i \in touchedAtEnd : recAfterGrants[i].since > 0 /\ recAfterGrants[i].bar > 0
                              /\ ~isMember(recAfterGrants[i]) /\ wasMember(i)}

recAfterPass ==
  [i \in Ids |-> IF i \in touchedAtEnd /\ gains(i)
                 THEN [recAfterGrants[i] EXCEPT !.since = height,
                                                !.bar = membershipBar(members)]
                 ELSE recAfterGrants[i]]

\* A squaring writes the height it settles through, of the pre-body record.
recAfterDecay(plans) ==
  [i \in Ids |->
     IF i \in plans
     THEN [recAfterPass[i] EXCEPT !.decay = decaySettledThrough(body.pre.rec[i], height)]
     ELSE recAfterPass[i]]

\* What returns to the pool: prices, the likes' last parts, unvested bonds, decay.
poolSink(settled, plans) ==
  body.price + Total([a \in Ids |-> pooledOf(a)])
  + SumOver([b \in settled |-> b.value - vestedPart(b)], settled)
  + Total([i \in Ids |-> burnOf(i, plans)])

\* What leaves it: each invitee is granted the value of the bond that names it.
poolDraw == SumOver([j \in invitees |-> grantOf(j)], invitees)

\* The settlement and what follows it.  A pool that falls short refuses the block.
Settle(settled, plans) ==
  /\ pool - poolDraw + poolSink(settled, plans) >= 0
  /\ pool' = pool - poolDraw + poolSink(settled, plans)
  /\ own' = [i \in Ids |-> grantOf(i) + (IF burnOf(i, plans) > 0
                                         THEN postBodyKarma(i) - burnOf(i, plans)
                                         ELSE own[i])]
  /\ inc' = [i \in Ids |-> incomeOf(i, settled) + (IF burnOf(i, plans) > 0 THEN 0 ELSE inc[i])]
  /\ bonds' = bonds \ settled
  /\ rec' = recAfterDecay(plans)
  /\ known' = known \cup invitees \cup plans \cup {a \in Ids : body.likes[a] > 0}

EndBlock ==
  /\ body.open
  /\ \E settled \in FirstOf(bondsSettlingAt(height), MaxBondSettlements,
                            LAMBDA b : rec[b.invitee].invited) :
       Settle(settled, decayPlans(settled))
  /\ carry' = [a \in Ids |-> carryOf(a)]
  /\ vouches' = vouches \ lapseLeg
  /\ escrows' = (escrows \ body.escrows) \cup {EscrowOf(v) : v \in lapseLeg}
  /\ members' = members + Cardinality(joined) - Cardinality(left)
  /\ posts' = [p \in Posts |-> IF p \in body.withdrawn THEN [posts[p] EXCEPT !.live = FALSE]
                               ELSE posts[p]]
  /\ body' = NoBody
  /\ UNCHANGED <<height, liked, names, txs, scope>>

-----------------------------------------------------------------------------
Transaction ==
  \/ \E i \in Ids, w \in BOOLEAN :
       \/ Merge(i, w)
       \/ \E p \in Posts : Thread(i, w, p) \/ Like(i, w, p) \/ Withdraw(i, w, p)
       \/ \E p, parent \in Posts : Reply(i, w, p, parent)
       \/ \E n \in Names : Claim(i, w, n) \/ Burn(i, w, n)
       \/ \E t \in Ids, cast \in 1 .. MaxHeight : Vouch(i, w, t, cast)
       \/ \E j \in Ids, amount \in BondAmounts : Invite(i, w, j, amount)
  \/ \E v \in vouches : Unvouch(v)

Next == BeginBlock \/ Transaction \/ EndBlock

Spec == Init /\ [][Next]_vars

-----------------------------------------------------------------------------
(* Properties *)

Records == [act : Nat, decay : Nat, invited : Nat, likes : Nat, since : Nat, bar : Nat,
            vouched : Nat, mlikes : Nat, used : Nat]

\* Every record, box and accumulator has its type; no amount of karma and no
\* count of vouches is ever negative.
TypeOK ==
  /\ height \in 0 .. MaxHeight /\ txs \in 0 .. MaxTxs
  /\ known \subseteq Ids /\ rec \in [Ids -> Records]
  /\ own \in [Ids -> Nat] /\ inc \in [Ids -> Nat] /\ carry \in [Ids -> Nat]
  /\ pool \in Nat /\ members \in Nat
  /\ vouches \subseteq [voucher : Ids, target : Ids, cast : 1 .. MaxHeight]
  /\ escrows \subseteq [owner : Ids, target : Ids, release : Nat]
  /\ bonds \subseteq [inviter : Ids, invitee : Ids, value : BondMin .. BondMax]
  /\ liked \subseteq Posts \X Ids /\ names \subseteq Names \X Ids
  /\ body.open \in BOOLEAN

\* The conservation axiom over many blocks: pool, spendable karma, stakes,
\* escrows, bonds, carries and the open block's price boxes and markers add up
\* to the one supply, so every settlement leg names both of its ends.
KarmaConserved ==
  pool + Total(own) + Total(inc) + Total(carry)
    + VouchAmount * (Cardinality(vouches) + Cardinality(escrows))
    + SumOver([b \in bonds |-> b.value], bonds)
    + body.price + Total(body.marks) = Supply

\* memberVouches counts the live counted vouches naming the identity, although
\* it moves by casts, withdrawals and lapses and what counts depends on when
\* both ends became members (adjustVouchCount, isVouchCounted).
VouchCountsExact ==
  \A t \in Ids : rec[t].vouched = Cardinality(Counted(vouches, rec, t))

\* Between blocks memberCount is the number of identities that are members: the
\* membership pass sees every identity whose standing a block moved, once.
MemberCountExact ==
  ~body.open => members = Cardinality({i \in known : isMember(rec[i])})

\* What a body spends of an identity's karma totals at most its effective karma
\* before the body, and a body with no post of its leaves the floor.
SpendsWithinEffective ==
  body.open =>
    \A i \in Ids :
      LET spent == preFace(i) - (own[i] + inc[i])
          effective == effectiveKarma(preFace(i), body.pre.rec[i], height)
          posted == \E p \in Posts : posts[p].author = i /\ posts[p].at = height
      IN  spent <= effective /\ (spent > 0 /\ ~posted => effective - spent >= KarmaMinimum)

\* A bond stands for one invitee, who holds a record or gets it in this block:
\* the tree's bond entry is keyed by that record's invitedAtBlock.
BondsHaveInvitees ==
  /\ \A b \in bonds :
       \/ b.invitee \in known /\ rec[b.invitee].invited > 0
       \/ <<b.invitee, b.inviter>> \in body.invited
  /\ \A b, c \in bonds : b.invitee = c.invitee => b = c

\* What the records keep is what the boxes say: the type, the vouch and member counts and
\* the bonds, all moved by increments and never recounted by the code.
RecordsExact == TypeOK /\ VouchCountsExact /\ MemberCountExact /\ BondsHaveInvitees

\* A stake outlives its voucher's standing by one block: a block's end leaves no
\* vouch that stood when the block began and whose voucher had lapsed by then,
\* whatever the body did to either, unless the block took as many lapses as one
\* may (getLapsedVouches, the lapse leg, MAX_LAPSE_WITHDRAWALS_PER_BLOCK).
LapsedStakesLeave ==
  [][body.open /\ ~body'.open =>
       \/ Cardinality(body.lapsed) = MaxLapses
       \/ \A v \in body.pre.vouches \cap vouches' : isMember(body.pre.rec[v.voucher])]_vars
=============================================================================
