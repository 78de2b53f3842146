------------------------------- MODULE MCSync -------------------------------
(***************************************************************************)
(* Instances of SyncMachine for TLC: two peers, and a tip nobody holds.    *)
(***************************************************************************)
EXTENDS SyncMachine

CONSTANTS p, q

FalseTip == {[tipHeight |-> Top, tipHash |-> Top + 1]}

AnyTips == [Peers -> 0 .. Top]
\* Honest tips rise from anywhere; a liar holds the whole chain.
RisingTips == {f \in AnyTips : \A x \in Liars : f[x] = Top}
=============================================================================
