------------------------------ MODULE MCIntake ------------------------------
(***************************************************************************)
(* Instances of Intake for TLC.  A tree is given by its parent table and   *)
(* the work of each block; a peer's page is a run of consecutive headers   *)
(* of some path, at most PageSize long.                                    *)
(***************************************************************************)
EXTENDS Intake

CONSTANTS a1, a2, a3, b1, b2, b3, c2, c3

ChainVia(parent) ==
  LET path[x \in Nodes] == IF x = Root THEN <<>> ELSE Append(path[parent[x]], x)
  IN  path

WorkVia(parent, own) ==
  LET sum[x \in Nodes] == IF x = Root THEN 0 ELSE sum[parent[x]] + own[x]
  IN  sum

\* Two chains from the root and a fork off the first at height 1.
MCParent == a1 :> Root @@ a2 :> a1 @@ a3 :> a2 @@ b1 :> Root @@ b2 :> b1
            @@ b3 :> b2 @@ c2 :> a1 @@ c3 :> c2

DistinctWork == a1 :> 20 @@ a2 :> 22 @@ a3 :> 24 @@ b1 :> 21 @@ b2 :> 26
                @@ b3 :> 30 @@ c2 :> 23 @@ c3 :> 25

MCChain == ChainVia(MCParent)
MCDistinctWork == WorkVia(MCParent, DistinctWork)

Pages == {SubSeq(Chain[b], lo, Height(b)) : b \in Blocks, lo \in 1 .. 3} \ {<<>>}

\* Whole pages from peers that name no claim.
UnclaimedPages == {<<NoClaim, page>> : page \in Pages}

\* Pages that end at the claim they were asked toward.
SettledPages == UnclaimedPages \cup {<<Last(page), page>> : page \in Pages}

\* And one whose second header is not the first one's child.
FaultyPages == SettledPages \cup {<<NoClaim, <<b1, a2>>>>}

\* Short pages toward a claim further up the peer's chain.
ClaimedPages ==
  UNION {{<<b, SubSeq(Chain[b], lo, hi)>> :
            lo \in 1 .. Height(b), hi \in 1 .. Height(b)} : b \in Blocks}

ShortPages ==
  {input \in ClaimedPages : Len(input[2]) \in 1 .. PageSize}

SingleBlocks == {<<b>> : b \in Blocks}

\* Answers of one block, or of two consecutive ones in either order.
BlockAnswers ==
  SingleBlocks \cup
  UNION {{<<Parent(b), b>>, <<b, Parent(b)>>} : b \in {c \in Blocks : Height(c) > 1}}
=============================================================================
