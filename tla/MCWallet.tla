------------------------------ MODULE MCWallet ------------------------------
(***************************************************************************)
(* Two pages of one browser, an identity with one box, two spends.         *)
(***************************************************************************)
EXTENDS Wallet
=============================================================================
