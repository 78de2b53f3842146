---------------------------- MODULE CreditLedger ----------------------------
(***************************************************************************)
(* The credit side of block application, composed with the karma side: the *)
(* emission schedule, fees, storage rent, the backers' pool and the        *)
(* coinbase split that the settlement of every block carries out.          *)
(*                                                                         *)
(* Two credit boxes may agree in every field, so the boxes are a bag.      *)
(* A box's record length is left out: Charge and MinValue are the rent and *)
(* the least value of a box.                                               *)
(***************************************************************************)
EXTENDS KarmaLedger, Bags, Sequences

CONSTANTS
  EmissionTotal,     \* the network's credit emission total
  InitialReward, Reduction, FixedRateBlocks, EpochBlocks,  \* the reward curve
  RewardDelay,       \* creditMinerRewardDelay
  TreasuryPct, BackerPct, BonusPct, MinerFloorPct,  \* COINBASE_..._PCT
  BonusK,            \* INCLUSION_BONUS_K
  BackerSupply,      \* the profile's backerSupply
  BackerTable,       \* the profile's backerTable, rows of an owner and a weight
  UnstakeMinPct,     \* BACKER_UNSTAKE_MIN_PCT
  Charge,            \* STORAGE_RENT_PER_BYTE times the record's length
  MinValue,          \* MIN_BOX_VALUE_PER_BYTE times the record's length
  RentPeriod,        \* storageRentPeriodBlocks
  Validator,         \* the key that mines every block of a behaviour
  Payees, TransferAmounts, Fees, Locks,  \* bound: the inputs of a transfer
  YoungHeight        \* bound on the blocks of a behaviour from genesis

ASSUME CreditAssumption ==
  /\ {EmissionTotal, InitialReward, Reduction, FixedRateBlocks, RewardDelay, TreasuryPct,
      BackerPct, BonusPct, MinerFloorPct, UnstakeMinPct, RentPeriod} \subseteq Nat
  /\ {EpochBlocks, BonusK, BackerSupply, Charge, MinValue} \subseteq Nat \ {0}
  /\ TreasuryPct + BackerPct + BonusPct + MinerFloorPct = 100
  /\ Payees \subseteq Ids /\ YoungHeight \in Nat
  /\ TransferAmounts \subseteq Nat /\ Fees \subseteq Nat /\ Locks \subseteq Nat
  /\ IsFiniteSet(BackerTable) /\ \A row \in BackerTable : row \in [owner : Ids, weight : Nat \ {0}]

VARIABLES
  emission, treasury,  \* the values of the two protocol boxes
  credits,   \* bag of credit boxes; lock 0 is no lockedUntilBlock
  stakes,    \* bag of backer stake boxes
  bpool,     \* the backer pool box
  cbody      \* the open block's fees, rent and unstake markers

creditVars == <<emission, treasury, credits, stakes, bpool, cbody>>
ledgerVars == <<vars, creditVars>>

NoCredits == [fees |-> 0, rent |-> 0, unstakes |-> <<>>]

\* A bag of one box, and of one box or none.
One(x) == SetToBag({x})
Some(x, present) == IF present THEN One(x) ELSE EmptyBag
\* What the boxes of a bag add up to, each as often as it is there.
BagTotal(bag, f) == SumOver([x \in BagToSet(bag) |-> bag[x] * f[x]], BagToSet(bag))
ValueOf(bag) == BagTotal(bag, [x \in BagToSet(bag) |-> x.value])
WeightOf(bag) == BagTotal(bag, [x \in BagToSet(bag) |-> x.weight])

CreditInit ==
  /\ emission = EmissionTotal /\ treasury = 0
  /\ credits = EmptyBag
  /\ stakes = SetToBag(BackerTable)
  /\ bpool = [value |-> 0, staked |-> WeightOf(SetToBag(BackerTable)), accrual |-> 0]
  /\ cbody = NoCredits

-----------------------------------------------------------------------------
(* Credit transactions *)

Inputs == {One(x) : x \in BagToSet(credits)} \cup
          {ins \in {One(x) (+) One(y) : x, y \in BagToSet(credits)} : ins \sqsubseteq credits}

unlocked(ins) == \A x \in BagToSet(ins) : x.lock <= height
highestInput(ins) == Max({x.born : x \in BagToSet(ins)})

\* What every spend of credit boxes passes, whatever its shape.
mayCreditSpend(ins, outs, fee) ==
  /\ unlocked(ins)
  /\ \A out \in BagToSet(outs) :
       /\ out.born \in highestInput(ins) .. height
       /\ out.value >= MinValue
  /\ ValueOf(ins) = ValueOf(outs) + fee
  /\ outs # EmptyBag \/ fee > 0

CreditSpend(ins, outs, fee) ==
  /\ mayCreditSpend(ins, outs, fee)
  /\ credits' = (credits (-) ins) (+) outs

CreditTx(kind) ==
  /\ InBody(kind)
  /\ body' = [body EXCEPT !.size = @ + 1]
  /\ UNCHANGED <<height, boxVars, recordVars, emission, treasury, bpool>>

\* A transfer every owner has signed: one payment, perhaps locked, the change to
\* the owner of an input, and a fee.  The sender dates the outputs.
Transfer(ins, to, amount, fee, lock, born) ==
  LET change == ValueOf(ins) - amount - fee
      payer == (CHOOSE x \in BagToSet(ins) : TRUE).owner
      outs == Some([owner |-> to, value |-> amount, born |-> born, lock |-> lock], amount > 0)
              (+) Some([owner |-> payer, value |-> change, born |-> born, lock |-> 0], change > 0)
  IN  /\ CreditTx("transfer")
      /\ change >= 0
      /\ CreditSpend(ins, outs, fee)
      /\ cbody' = [cbody EXCEPT !.fees = @ + fee]
      /\ UNCHANGED stakes

pastPeriod(x, h) == h - x.born > RentPeriod
coversCharge(x) == x.value >= Charge
chargeOf(x) == IF coversCharge(x) THEN Charge ELSE x.value

\* The successor of a box that pays its rent; one that cannot is taken entire.
successorOf(x, h) ==
  Some([owner |-> x.owner, value |-> x.value - Charge, born |-> h, lock |-> 0], coversCharge(x))

\* A rent collection carries no signature: the producer offers one box at a time.
Rent(x) ==
  /\ CreditTx("rent")
  /\ pastPeriod(x, height)
  /\ CreditSpend(One(x), successorOf(x, height), chargeOf(x))
  /\ cbody' = [cbody EXCEPT !.rent = @ + chargeOf(x)]
  /\ UNCHANGED stakes

Unstake(s, weight) ==
  /\ CreditTx("unstake")
  /\ weight \in 1 .. s.weight
  /\ weight * 100 >= s.weight * UnstakeMinPct
  /\ stakes' = (stakes (-) One(s)) (+)
               Some([s EXCEPT !.weight = @ - weight], weight < s.weight)
  /\ cbody' = [cbody EXCEPT !.unstakes = Append(@, [owner |-> s.owner, weight |-> weight])]
  /\ UNCHANGED credits

-----------------------------------------------------------------------------
(* The settlement's credit legs *)

computeBlockReward(h) ==
  IF h <= FixedRateBlocks THEN InitialReward
  ELSE Greater(0, InitialReward
                  - ((h - FixedRateBlocks - 1) \div EpochBlocks + 1) * Reduction)

release == Lesser(computeBlockReward(height), emission)
taxable == release + cbody.fees
actors == Cardinality(body.actors \ {Validator})

inWindow == height <= FixedRateBlocks
\* The unstake markers of the body (BackerAcc.unstakeOutputs), by their position.
markers == DOMAIN cbody.unstakes
totalUnstaked == SumOver([n \in markers |-> cbody.unstakes[n].weight], markers)
backerActive == BackerTable # {} /\ (inWindow \/ totalUnstaked > 0)

\* An unstaking backer is released its share of what accrued before this block.
releaseOf(u) == (u.weight * bpool.accrual) \div BackerSupply
released == SumOver([n \in markers |-> releaseOf(cbody.unstakes[n])], markers)
stakedAfter == bpool.staked - totalUnstaked

\* Mutated form of accrualStep: the backers' claim on a block is not capped.
accrualStepUncapped == IF inWindow THEN taxable ELSE 0

\* The accrual per unit of supply, scaled down where the claims would pass the cap.
accrualStep ==
  CASE ~inWindow -> 0
    [] inWindow /\ 100 * stakedAfter <= BackerPct * BackerSupply -> taxable
    [] OTHER -> (taxable * BackerPct * BackerSupply) \div (100 * stakedAfter)

\* The draw is rounded up, so the pool covers every claim on it.
backerDraw ==
  IF backerActive /\ stakedAfter > 0
  THEN (stakedAfter * accrualStep + BackerSupply - 1) \div BackerSupply ELSE 0

treasuryCut == (release * TreasuryPct) \div 100 + (cbody.fees * TreasuryPct) \div 100
bonusPool == (taxable * BonusPct) \div 100
unearned == bonusPool - (bonusPool * actors) \div (actors + BonusK)

\* Mutated form of minerSlice: the miner keeps what the backers draw.
minerSliceUndrawn == taxable + cbody.rent - treasuryCut - unearned

minerSlice == taxable + cbody.rent - treasuryCut - unearned - backerDraw

coinbaseBox == [owner |-> Validator, value |-> minerSlice, born |-> height,
                lock |-> height + RewardDelay]
\* The boxes that pay the releases, one for each marker that is owed anything.
releaseBox(n) == [owner |-> cbody.unstakes[n].owner, value |-> releaseOf(cbody.unstakes[n]),
                  born |-> height, lock |-> 0]
paidMarkers == {n \in markers : releaseOf(cbody.unstakes[n]) > 0}
releaseBoxes == [box \in {releaseBox(n) : n \in paidMarkers} |->
                   Cardinality({n \in paidMarkers : releaseBox(n) = box})]

CreditSettle ==
  /\ backerActive => totalUnstaked <= bpool.staked
  /\ emission' = emission - release + unearned
  /\ treasury' = treasury + treasuryCut
  /\ bpool' = IF backerActive
              THEN [value |-> bpool.value + backerDraw - released,
                    staked |-> stakedAfter, accrual |-> bpool.accrual + accrualStep]
              ELSE bpool
  /\ credits' = credits (+) releaseBoxes (+) Some(coinbaseBox, minerSlice > 0)
  /\ cbody' = NoCredits
  /\ UNCHANGED stakes

-----------------------------------------------------------------------------
LedgerInit == Init /\ CreditInit

CreditTransaction ==
  \/ \E ins \in Inputs, to \in Payees, amount \in TransferAmounts, fee \in Fees, lock \in Locks :
       \E born \in {height, highestInput(ins)} :
         Transfer(ins, to, amount, fee, IF lock = 0 THEN 0 ELSE height + lock, born)
  \/ \E x \in BagToSet(credits) : Rent(x)
  \/ \E s \in BagToSet(stakes) : \E weight \in 1 .. s.weight : Unstake(s, weight)

LedgerNext ==
  \/ /\ BeginBlock /\ UNCHANGED creditVars
     /\ height # YoungHeight
  \/ Transaction /\ UNCHANGED creditVars
  \/ CreditTransaction
  \/ EndBlock /\ CreditSettle

LedgerSpec == LedgerInit /\ [][LedgerNext]_ledgerVars

-----------------------------------------------------------------------------
(* Properties *)

\* No credit is minted: the emission box, the treasury, the backers' pool, every
\* credit box and the open block's fee boxes add up to the emission total, through
\* every rounding of the coinbase split.
CreditsConserved ==
  emission + treasury + bpool.value + ValueOf(credits) + cbody.fees + cbody.rent
    = EmissionTotal

\* The backers' pool covers the claim of every unit still staked, and the stakes
\* outstanding are the ones the pool counts: no order of unstakes and blocks leaves
\* a backer whose release the pool cannot pay.
BackersSolvent ==
  /\ bpool.value * BackerSupply >= bpool.staked * bpool.accrual
  /\ WeightOf(stakes) + totalUnstaked = bpool.staked

\* Credits are neither made nor owed beyond what is held (coinbase split, backer accrual).
CreditsSound == CreditsConserved /\ BackersSolvent

\* A block pays its miner at least the floor of emission and fees, and all of the
\* rent: neither the treasury, the bonus nor the backers reach into either.
MinerFloorHeld ==
  [][body.open /\ ~body'.open =>
       ValueOf(credits') - ValueOf(credits) - released
         >= (MinerFloorPct * taxable) \div 100 + cbody.rent]_ledgerVars
=============================================================================
