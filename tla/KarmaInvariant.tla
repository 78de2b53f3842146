--------------------------- MODULE KarmaInvariant ---------------------------
(***************************************************************************)
(* The inductive invariant of the karma ledger.  RecordsExact says that    *)
(* the counters of the records agree with the boxes; it is not inductive,  *)
(* since what a vouch counts for is decided by the heights at which both   *)
(* ends became members, and since memberCount moves by a comparison of the *)
(* state before the body with the state after it.  Each definition below   *)
(* is one of the facts that the code relies on between two blocks without  *)
(* ever checking it.                                                       *)
(***************************************************************************)
EXTENDS CreditLedger

\* The vouches there can be.
VouchSet == [voucher : Ids, target : Ids, cast : 1 .. MaxHeight]
\* An escrow box returns a stake of the vouch its owner had cast on the target.
EscrowSet == [owner : Ids, target : Ids, release : Nat]
\* What a block captures before its body (BeginBlock).
Views == [own : [Ids -> Nat], inc : [Ids -> Nat], rec : [Ids -> Records],
          vouches : SUBSET VouchSet]

\* The captures and accumulators of an open block, newTxApplyAcc's fields among them.
OpenBodies ==
  [open : {TRUE}, pre : Views, escrows : SUBSET EscrowSet, lapsed : SUBSET VouchSet,
   size : Nat, spenders : SUBSET Ids, actors : SUBSET Ids, price : Nat, marks : [Ids -> Nat],
   invited : SUBSET (Ids \X Ids), likes : [Ids -> Nat], mlikes : [Ids -> Nat],
   touched : SUBSET Ids, was : SUBSET Ids, withdrawn : SUBSET Posts]

\* A body is closed, or open with its captures.
BodyOK == body = NoBody \/ body \in OpenBodies
\* The type of the posts a block's likes and replies refer to.
PostsOK == posts \in [Posts -> {NoPost} \cup [author : Ids, at : Nat, live : BOOLEAN]]
\* The box set is finite: the sums over boxes have a value.
BoxesFinite == IsFiniteSet(vouches) /\ IsFiniteSet(escrows) /\ IsFiniteSet(bonds)

\* A stake is in one place: one live vouch for each voucher and target, none while the
\* voucher's escrow of that vouch still waits (the vouch rule), and the escrows a block is
\* to return are still there when it ends.
StakesApart ==
  /\ \A v, w \in vouches : v.voucher = w.voucher /\ v.target = w.target => v = w
  /\ \A v \in vouches, e \in escrows : e.owner # v.voucher \/ e.target # v.target
  /\ body.escrows \subseteq escrows

\* Every invite of the open body has its bond, which the settlement's grant copies.
InvitedBonds == \A pair \in body.invited : \E b \in bonds : b.invitee = pair[1]

\* A voucher has been a member since some height, and where its target is none yet, since
\* an earlier one: a target that joins at this block's height counts every vouch it has.
VouchersStand ==
  /\ \A v \in vouches : rec[v.voucher].since > 0 /\ v.target \in known
  /\ \A v \in vouches : rec[v.target].since = 0 => rec[v.voucher].since < height

\* Standing dates from the height of a block that has ended; the committee's from 1.
SinceBounded ==
  /\ \A i \in Ids : rec[i].since <= Greater(1, height)
  /\ body.open /\ height > 1 => \A i \in Ids : rec[i].since < height
  /\ body.open => height > 0

\* Before the second block only the committee stands and holds karma, so no standing that
\* dates from height 1 can be a newcomer's.
Young ==
  height = 0 \/ (height = 1 /\ body.open) =>
    /\ known = Committee
    /\ \A i \in Ids \ Committee : own[i] = 0 /\ inc[i] = 0
    /\ \A i \in Committee : rec[i].since > 0

\* An identity without a record has no standing.
UnknownStandNot == \A i \in Ids \ known : rec[i].since = 0

\* A body moves nobody's standing or bar, only the vouch counts of those it touched, and
\* of these it remembers who was a member (membershipTouched, wasMember).
StandingKept ==
  body.open =>
    /\ \A i \in Ids : /\ rec[i].since = body.pre.rec[i].since
                      /\ rec[i].bar = body.pre.rec[i].bar
                      /\ i \notin body.touched => rec[i].vouched = body.pre.rec[i].vouched
                      /\ i \in body.touched => (i \in body.was <=> isMember(body.pre.rec[i]))
    /\ body.was \subseteq body.touched
    /\ \A pair \in body.invited : body.pre.rec[pair[1]].since = 0

\* The members by the records r.
MembersOf(r) == {i \in Ids : isMember(r[i])}
\* memberCount is the number of members when the block began, until its end.
MembersCounted ==
  members = Cardinality(MembersOf(IF body.open THEN body.pre.rec ELSE rec))

\* A block takes every vouch of a lapsed voucher, or as many as one block may.
LapsesTaken ==
  body.open =>
    /\ \A v \in body.pre.vouches : body.pre.rec[v.voucher].since > 0
    /\ \/ Cardinality(body.lapsed) = MaxLapses
       \/ \A v \in body.pre.vouches : isLapsedMember(body.pre.rec[v.voucher]) => v \in body.lapsed

\* All that concerns membership and stakes.
Standing ==
  /\ BoxesFinite /\ StakesApart /\ InvitedBonds /\ VouchersStand /\ SinceBounded
  /\ Young /\ UnknownStandNot /\ StandingKept /\ MembersCounted /\ LapsesTaken
  /\ VouchCountsExact /\ BondsHaveInvitees

\* Type and standing: inductive, and RecordsExact follows from it.
IInv == TypeOK /\ BodyOK /\ PostsOK /\ Standing
=============================================================================
