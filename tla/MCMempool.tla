----------------------------- MODULE MCMempool -----------------------------
(***************************************************************************)
(* Instances of Mempool for TLC.  Three credit transactions compete for a  *)
(* class of two: t1 makes y that t2 spends, t3 spends the box c that a     *)
(* settlement makes.                                                       *)
(* k1 posts p, k2 replies to it, k3 and k4 like it for the same identity.  *)
(***************************************************************************)
EXTENDS Mempool, TLC

Transaction(ins, outs, class, rate) ==
  [ins |-> ins, outs |-> outs, class |-> class, rate |-> rate, ceiling |-> 0,
   post |-> NoPost, parent |-> NoPost, likes |-> NoPost, once |-> {}]
Like(in) == [Transaction({in}, {}, "karma", 0) EXCEPT !.likes = "p", !.once = {"like"}]

MCTx ==
  "t1" :> Transaction({"x"}, {"y"}, "credit", 1)
  @@ "t2" :> Transaction({"y"}, {}, "credit", 3)
  @@ "t3" :> [Transaction({"c"}, {}, "credit", 2) EXCEPT !.ceiling = 2]
  @@ "k1" :> [Transaction({"k"}, {"l"}, "karma", 0) EXCEPT !.post = "p"]
  @@ "k2" :> [Transaction({"m"}, {}, "karma", 0) EXCEPT !.post = "q", !.parent = "p"]
  @@ "k3" :> Like("l")
  @@ "k4" :> Like("m")

Block(txs, spends, makes, spoils) ==
  [txs |-> txs, spends |-> spends, makes |-> makes, spoils |-> spoils]

MCPeerBlocks ==
  {Block(<<>>, {}, {"c"}, {}), Block(<<"t1">>, {}, {}, {}), Block(<<"k1", "k3">>, {}, {}, {"k2"}),
   Block(<<>>, {"k", "x"}, {}, {})}
=============================================================================
