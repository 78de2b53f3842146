----------------------------- MODULE MCStateTree -----------------------------
(***************************************************************************)
(* Instances of StateTree for TLC: a post, the transaction that makes it,  *)
(* its withdrawal and a rival for its input, and the blocks that a record  *)
(* written twice, a box spent again and a withdrawal make interesting.     *)
(***************************************************************************)
EXTENDS StateTree, TLC

CONSTANTS k, c, b, p, post, withdraw, rival

MCTx ==
  [t \in {post, withdraw, rival} |->
     [ins |-> IF t = withdraw THEN {b} ELSE {c}, outs |-> IF t = post THEN {b} ELSE {},
      posts |-> IF t = post THEN {p} ELSE {}, parents |-> {}]]

Effects(posts, muts, gone, txs) == [posts |-> posts, muts |-> muts, gone |-> gone, txs |-> txs]

MCMenu ==
  {Effects({}, <<<<"insert", c, 0>>, <<"put", k, 1>>, <<"put", k, 2>>>>, {}, {}),
   Effects({p}, <<<<"consume", c, 0>>, <<"insert", b, 0>>>>, {}, {post}),
   Effects({}, <<<<"consume", b, 0>>>>, {p}, {withdraw}),
   Effects({}, <<<<"consume", c, 0>>>>, {}, {rival}),
   Effects({}, <<>>, {}, {})}
=============================================================================
