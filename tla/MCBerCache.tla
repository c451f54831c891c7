------------------------------ MODULE MCBerCache ------------------------------
(***************************************************************************)
(* A small instance of BerCache.  Signals and parameters are only ever     *)
(* compared, so that permuting them changes nothing.                       *)
(***************************************************************************)
EXTENDS BerCache, TLC

Symmetry == Permutations(Signals) \cup Permutations(RxParams)
=============================================================================
