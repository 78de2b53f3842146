----------------------------- MODULE HeaderTree -----------------------------
(***************************************************************************)
(* The block tree every peer can show this node, and what is true of one   *)
(* header by itself.  A header commits to its parent's hash, so a block    *)
(* stands for its whole path: Chain[b] is the sequence of blocks from      *)
(* height 1 to b, Root is the virtual root at height 0.  Work[b] is the    *)
(* cumulative chain_work a block_headers row of b carries.                 *)
(*                                                                         *)
(* The last five sets are what the checks this model does not open would   *)
(* answer: verifyHeaderChain for a header, the three bindings for a        *)
(* delivered body, the apply funnel for a bound one.                       *)
(***************************************************************************)
EXTENDS Integers, Sequences, FiniteSets

CONSTANTS
  Blocks,          \* the blocks that exist anywhere
  Root,            \* GENESIS_PREV_BLOCK_HASH, no row of any table
  Chain,           \* Chain[x]: the path from height 1 to x, <<>> for Root
  Work,            \* Work[x]: cumulative work of the path
  BadHeaders,      \* headers verifyHeaderChain refuses for good
  EarlyHeaders,    \* headers it may refuse as ahead of this node's clock
  ForgedBodies,    \* blocks a peer may deliver with a body that does not bind
  InvalidBodies,   \* bodies the funnel refuses with class consensus
  AbortingBodies   \* bodies the funnel may abort: acceptance or local class

Nodes == Blocks \cup {Root}

ASSUME RootAssumption == Root \notin Blocks
ASSUME ChainAssumption ==
  /\ Chain \in [Nodes -> Seq(Blocks)]
  /\ Chain[Root] = <<>>
  /\ \A b \in Blocks :
       /\ Len(Chain[b]) >= 1
       /\ Chain[b][Len(Chain[b])] = b
       /\ \A h \in 1 .. Len(Chain[b]) :
            Chain[Chain[b][h]] = SubSeq(Chain[b], 1, h)
ASSUME WorkAssumption ==
  /\ Work \in [Nodes -> Nat]
  /\ Work[Root] = 0
  /\ \A b \in Blocks : \A h \in 1 .. Len(Chain[b]) - 1 :
       Work[Chain[b][h]] < Work[b]
ASSUME ClassAssumption ==
  /\ BadHeaders \subseteq Blocks /\ EarlyHeaders \subseteq Blocks
  /\ ForgedBodies \subseteq Blocks
  /\ InvalidBodies \subseteq Blocks /\ AbortingBodies \subseteq Blocks

Height(x) == Len(Chain[x])

Parent(b) == IF Height(b) = 1 THEN Root ELSE Chain[b][Height(b) - 1]

\* The blocks on the path to x, x included.
Path(x) == {Chain[x][h] : h \in 1 .. Height(x)}

\* The blocks of the path to x above height h.
PathAbove(x, h) == {Chain[x][i] : i \in (h + 1) .. Height(x)}

=============================================================================
