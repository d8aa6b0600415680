---------------------------- MODULE MCRedemption ----------------------------
(***************************************************************************)
(* Redemption on small instances.  Which instance is chosen in the .cfg by *)
(* the sets of model values; the catalogue below spreads the codes over    *)
(* the batches and cities that are there.                                  *)
(***************************************************************************)
EXTENDS Redemption, TLC

CONSTANTS c1, c2, c3, b1, b2, k1, k2

\* c1 and c2 come from one print batch, c3 from another one.
SplitBatches == [c \in Codes |-> IF c = c3 THEN b2 ELSE b1]
OneBatch == [c \in Codes |-> b1]

OneFlavor == [c \in Codes |-> k1]
TwoFlavors == [c \in Codes |-> IF c = c3 THEN k2 ELSE k1]

\* A lottery-only batch pays no coins.
PaidAndUnpaid == [b \in Batches |-> IF b = b1 THEN 2 ELSE 0]

SwitchedRules == {[amount |-> 1, active |-> TRUE],
                  [amount |-> 1, active |-> FALSE]}
NoRules == {}

Symmetry == Permutations(Users) \cup Permutations(Requests)
=============================================================================
