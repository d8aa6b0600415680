------------------------------ MODULE Allocation ------------------------------
(***************************************************************************)
(* How many codes of each flavor a run of a given size is made of          *)
(* (app/domain/print_runs.py): shares by weight, rounded by the largest    *)
(* remainders.                                                             *)
(***************************************************************************)
EXTENDS Integers, FiniteSets, Sequences, Functions

CONSTANTS
  Skus,   \* SKU_ORDER: a sequence of flavors
  Unit    \* weights are fractions of this denominator

Flavors == {Skus[n] : n \in DOMAIN Skus}

AllocationAssumption ==
  /\ Unit \in Nat \ {0}
  \* No flavor is in SKU_ORDER twice.
  /\ Skus \in Seq(Flavors) /\ \A m, n \in DOMAIN Skus : Skus[m] = Skus[n] => m = n

-----------------------------------------------------------------------------
Total(f) == SumFunctionOnSet(f, Flavors)

ValidWeights(w) == (\A c \in Flavors : w[c] >= 0) /\ Total(w) = Unit

Position(c) == CHOOSE n \in DOMAIN Skus : Skus[n] = c

\* Mutant: what rounding leaves over all goes to the first flavor.
Allocate_First(k, w) ==
  LET floor == [c \in Flavors |-> (w[c] * k) \div Unit]
  IN [floor EXCEPT ![Skus[1]] = @ + k - Total(floor)]

\* Largest remainder; ties in the order of Skus.
Allocate(k, w) ==
  LET floor == [c \in Flavors |-> (w[c] * k) \div Unit]
      rest(c) == (w[c] * k) % Unit
      before(c) == {d \in Flavors : \/ rest(d) > rest(c)
                                    \/ rest(d) = rest(c) /\ Position(d) < Position(c)}
  IN [c \in Flavors |->
        floor[c] + IF Cardinality(before(c)) < k - Total(floor) THEN 1 ELSE 0]

-----------------------------------------------------------------------------
\* What the split of a run promises (allocate): all of k and not one more,
\* each flavor within one code of its share, nothing for a weight of zero.
SplitIsFair(k, w) ==
  LET n == Allocate(k, w) IN
  /\ Total(n) = k
  /\ \A c \in Flavors :
       /\ n[c] * Unit < w[c] * k + Unit /\ n[c] * Unit > w[c] * k - Unit
       /\ w[c] = 0 => n[c] = 0
=============================================================================
