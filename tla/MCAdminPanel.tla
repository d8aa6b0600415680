---------------------------- MODULE MCAdminPanel ----------------------------
(* Constants of AdminPanel for TLC. *)
EXTENDS AdminPanel, TLC

\* The slots are interchangeable: no step or property names one.
Symmetry == Permutations(Calls)
=============================================================================
