---------------------------- MODULE MCMeshClient ----------------------------
(***************************************************************************)
(* Instances of MeshClient for TLC: a chain of four, a fork at its third   *)
(* block, a header without work and one off its schedule.                  *)
(***************************************************************************)
EXTENDS MeshClient, TLC

CONSTANTS m1, m2, m3, m4, f3, x4, o4

MCParent == m1 :> Root @@ m2 :> m1 @@ m3 :> m2 @@ m4 :> m3 @@ f3 :> m2 @@ x4 :> m3 @@ o4 :> m3
OwnWork == m1 :> 10 @@ m2 :> 10 @@ m3 :> 10 @@ m4 :> 10 @@ f3 :> 12 @@ x4 :> 30 @@ o4 :> 11

MCChain ==
  LET path[x \in Nodes] == IF x = Root THEN <<>> ELSE Append(path[MCParent[x]], x)
  IN  path
MCWork ==
  LET sum[x \in Nodes] == IF x = Root THEN 0 ELSE sum[MCParent[x]] + OwnWork[x]
  IN  sum

CONSTANTS a, h, l
MCStartList == <<a, l, h>>
MCStartTips == {[k \in Keys |-> IF k = a THEN m3 ELSE IF k \in Honest THEN b ELSE Root]
                  : b \in {m2, f3}}
=============================================================================
