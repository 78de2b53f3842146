---------------------------- MODULE AppliedChain ----------------------------
(***************************************************************************)
(* What the node promises of its applied chain: the ledger is the replay   *)
(* of the chain from genesis, whatever was refused, reverted or killed on  *)
(* the way, and the chain changes only by one more block or by a whole     *)
(* switch no deeper than the reorg bound.                                  *)
(*                                                                         *)
(*   chain    the applied blocks, each by its effects                      *)
(*   ledger   the tables a reader sees                                     *)
(*                                                                         *)
(* An effects record has the posts it confirms, its row mutations in the   *)
(* order they are made, and the posts it withdraws.                        *)
(***************************************************************************)
EXTENDS Naturals, Sequences

CONSTANTS
  Records,        \* keys of replaced rows (identity, network and name records)
  Boxes,          \* keys of inserted and consumed rows
  Posts,          \* posts
  Menu,           \* the effects a block may have
  MaxReorgDepth   \* the profile's maxReorgDepth

VARIABLES chain, ledger

\* An absent record is 0; a post's `at` and `gone` are 0 until it is confirmed and withdrawn.
Genesis ==
  [rec |-> [k \in Records |-> 0],
   box |-> [b \in Boxes |-> "none"],
   at |-> [p \in Posts |-> 0],
   gone |-> [p \in Posts |-> 0]]

\* One row mutation <<op, key, value>>.
Mutated(l, m) ==
  CASE m[1] = "put"     -> [l EXCEPT !.rec[m[2]] = m[3]]
    [] m[1] = "insert"  -> [l EXCEPT !.box[m[2]] = "live"]
    [] m[1] = "consume" -> [l EXCEPT !.box[m[2]] = "spent"]

\* The ledger l after each number of these mutations.
Mutations(l, muts) ==
  LET after[i \in 0 .. Len(muts)] == IF i = 0 THEN l ELSE Mutated(after[i - 1], muts[i])
  IN after

\* A block's effects on the ledger.
Effected(l, e, h) ==
  LET confirmed == [l EXCEPT !.at = [p \in Posts |-> IF p \in e.posts THEN h ELSE @[p]]]
      mutated == Mutations(confirmed, e.muts)[Len(e.muts)]
  IN [mutated EXCEPT !.gone = [p \in Posts |-> IF p \in e.gone THEN h ELSE @[p]]]

\* A block consumes what is live, inserts what is new, confirms once and withdraws
\* what an earlier block confirmed.
Valid(l, e) ==
  /\ \A i \in 1 .. Len(e.muts) :
       LET before == Mutations(l, e.muts)[i - 1]
           m == e.muts[i]
       IN /\ m[1] = "insert" => before.box[m[2]] = "none"
          /\ m[1] = "consume" => before.box[m[2]] = "live"
  /\ \A p \in e.posts : l.at[p] = 0
  /\ \A p \in e.gone : l.at[p] # 0 /\ l.gone[p] = 0

\* The ledger of the first n blocks of a chain.
Replay(c, n) ==
  LET at[i \in 0 .. n] == IF i = 0 THEN Genesis ELSE Effected(at[i - 1], c[i], i)
  IN at[n]

Init == chain = <<>> /\ ledger = Genesis

Extend ==
  \E e \in Menu :
    /\ Valid(ledger, e)
    /\ chain' = Append(chain, e)
    /\ ledger' = Effected(ledger, e, Len(chain) + 1)

\* A switch keeps the chain up to the fork point and applies at least one block on it.
Switch ==
  /\ \E fork \in 0 .. Len(chain) :
       /\ Len(chain) <= fork + MaxReorgDepth
       /\ Len(chain') > fork
       /\ SubSeq(chain', 1, fork) = SubSeq(chain, 1, fork)
  /\ ledger' = Replay(chain', Len(chain'))

Next == Extend \/ Switch
Spec == Init /\ [][Next]_<<chain, ledger>>
=============================================================================
