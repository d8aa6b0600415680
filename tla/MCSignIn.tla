------------------------------ MODULE MCSignIn ------------------------------
(* SignIn on small instances; ids and codes are interchangeable.           *)
EXTENDS SignIn, TLC

Symmetry ==
  Permutations(Challenges) \cup Permutations(Tokens) \cup Permutations(Calls)
=============================================================================
