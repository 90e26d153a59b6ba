----------------------------- MODULE MCUserFarms -----------------------------
(* Model-checking instance of UserFarms.                                     *)
EXTENDS UserFarms, TLC

Symmetry == Permutations(Requests)
=============================================================================
