-------------------------------- MODULE MCLegal --------------------------------
(***************************************************************************)
(* Two players, two versions of the terms, one edit of each.               *)
(***************************************************************************)
EXTENDS Legal, TLC

Symmetry == Permutations(Players) \cup Permutations(Versions)
=============================================================================
