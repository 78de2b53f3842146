------------------------------ MODULE MCLedger -----------------------------
(***************************************************************************)
(* Instances of CreditLedger for TLC.  A behaviour starts at the genesis    *)
(* state or at height 9 of a chain in which the root R invited A (block 2) *)
(* and vouched for it (3), A invited B (4), B posted p and R vouched for B *)
(* (5), R liked p and B became a member (6), B invited C (7), C posted q   *)
(* and B vouched for C (8), R liked q and C became a member (9).  Standing *)
(* there is a chain of vouches, R for B and B for C.                       *)
(***************************************************************************)
EXTENDS CreditLedger, TLC

CONSTANTS R, A, B, C

Record(act, invited, likes, since, bar, vouched, used) ==
  [act |-> act, decay |-> 0, invited |-> invited, likes |-> likes, since |-> since,
   bar |-> bar, vouched |-> vouched, mlikes |-> likes, used |-> used]

Settled ==
  /\ height = 9
  /\ known = Ids
  /\ rec = R :> Record(1, 0, 0, 1, 0, 0, 1) @@ A :> Record(2, 2, 0, 2, 0, 1, 1)
           @@ B :> Record(5, 4, 1, 6, 1, 1, 1) @@ C :> Record(8, 7, 1, 9, 1, 1, 0)
  /\ own = R :> 16 @@ A :> 4 @@ B :> 2 @@ C :> 1
  /\ inc = Zero
  /\ carry = [Zero EXCEPT ![B] = 1, ![C] = 1]
  /\ vouches = {[voucher |-> R, target |-> A, cast |-> 3],
                [voucher |-> R, target |-> B, cast |-> 5],
                [voucher |-> B, target |-> C, cast |-> 8]}
  /\ escrows = {}
  /\ bonds = {[inviter |-> A, invitee |-> B, value |-> 6],
              [inviter |-> B, invitee |-> C, value |-> 2]}
  /\ pool = 14
  /\ posts = [p \in Posts |->
                CASE p = "p" -> [author |-> B, at |-> 5, live |-> TRUE]
                  [] p = "q" -> [author |-> C, at |-> 8, live |-> TRUE]
                  [] OTHER -> NoPost]
  /\ liked = {<<"p", R>>, <<"q", R>>}
  /\ names = {}
  /\ members = 4
  /\ body = NoBody
  /\ txs = 0 /\ scope \in Scopes

\* The coinbases of the first five blocks; the emission box is drained by then.
Coinbase(value, h) == [owner |-> Validator, value |-> value, born |-> h, lock |-> h + RewardDelay]

SettledCredits ==
  /\ emission = 0 /\ treasury = 5
  /\ credits = SetToBag({Coinbase(15, 1), Coinbase(16, 2), Coinbase(10, 3), Coinbase(4, 4),
                         Coinbase(1, 5)})
  /\ stakes = SetToBag(BackerTable)
  /\ bpool = [value |-> 39, staked |-> 5, accrual |-> 52]
  /\ cbody = NoCredits

MCInit == \/ Settled /\ SettledCredits /\ "transfer" \notin scope
          \/ Init /\ CreditInit /\ scope \cap {"invite", "transfer"} # {}

\* Standing moves by vouches and invites; karma moves by posts, likes and names;
\* credits move by transfers, rent and unstakes, beside one kind of karma work.
StandingScope == {"vouch", "unvouch", "invite", "like"}
SpendingScope == {"thread", "reply", "like", "withdraw", "claim", "burn", "merge"}
CreditScope == {"transfer", "rent", "unstake", "thread"}
MCScopes == {StandingScope, SpendingScope, CreditScope}

MCBackerTable == {[owner |-> A, weight |-> 3], [owner |-> B, weight |-> 2]}

MCSpec == MCInit /\ [][LedgerNext]_ledgerVars
=============================================================================
