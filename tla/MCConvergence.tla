--------------------------- MODULE MCConvergence ----------------------------
(***************************************************************************)
(* Instances of Convergence for TLC: trees and inputs are MCIntake's.      *)
(***************************************************************************)
EXTENDS Convergence, MCIntake
=============================================================================
