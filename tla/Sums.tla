-------------------------------- MODULE Sums --------------------------------
(***************************************************************************)
(* Amounts summed over a finite set of boxes or identities, as the engine  *)
(* adds up the entries of its maps and lists.                              *)
(***************************************************************************)
EXTENDS Integers, FiniteSets, FiniteSetsExt

\* The sum of f[x] over the x in S.
SumOver(f, S) == MapThenSumSet(LAMBDA x : f[x], S)
=============================================================================
