---------------------------------- MODULE Draw ----------------------------------
(***************************************************************************)
(* The reproducible weighted draw (app/domain/draw.py): winners without    *)
(* replacement, each ticket by rejection sampling of hash values.          *)
(* Participants are numbers, in the order of their published ids; a hash   *)
(* value is any number below Space.                                        *)
(***************************************************************************)
EXTENDS Integers, Sequences, FiniteSets, SequencesExt

CONSTANT Space   \* 2^256

DrawAssumption == Space \in Nat \ {0}

-----------------------------------------------------------------------------
\* Mutant: no value is rejected.
SampleLimit_None(bound) == Space
SampleLimit(bound) == Space - (Space % bound)

\* uniform_below: the first value under the limit.
UniformBelow(bound, values) ==
  values[SelectInSeq(values, LAMBDA v : v < SampleLimit(bound))] % bound

Tickets(pool, weights) == SumFunctionOnSet(weights, pool)

\* The first whose cumulative weight passes the ticket.
HolderOf(pool, weights, ticket) ==
  CHOOSE p \in pool :
    /\ ticket < Tickets({q \in pool : q <= p}, weights)
    /\ ticket >= Tickets({q \in pool : q < p}, weights)

\* draw_winners; values[n] are the hash values of round n.
DrawWinners(weights, count, values) ==
  LET entrants == {p \in DOMAIN weights : weights[p] > 0}
      winners[n \in 0..count] ==
        IF n = 0 THEN <<>>
        ELSE LET before == winners[n - 1]
                 pool == entrants \ Range(before)
             IN IF pool = {} THEN before
                ELSE Append(before, HolderOf(pool, weights,
                       UniformBelow(Tickets(pool, weights), values[n])))
  IN winners[count]

\* What a draw is made of: entries that are not negative, and for each round
\* hash values of which one is taken in the end, whatever the tickets.
Drawable(weights, count, values) ==
  /\ weights \in Seq(Nat) /\ count \in Nat
  /\ \A n \in 1..count :
       /\ values[n] \in Seq(0..(Space - 1))
       /\ \A bound \in 1..Tickets(DOMAIN weights, weights) :
            \E i \in DOMAIN values[n] : values[n][i] < SampleLimit(bound)

-----------------------------------------------------------------------------
\* Exactly proportional: of the hash values that are not rejected, the part
\* that draws a participant from a pool is the part of the tickets it holds.
ChancesAreProportional(weights) ==
  \A pool \in SUBSET {p \in DOMAIN weights : weights[p] > 0} \ {{}} :
    LET total == Tickets(pool, weights)
        accepted == {v \in 0..(Space - 1) : v < SampleLimit(total)}
        drawing(p) == {v \in accepted : HolderOf(pool, weights, v % total) = p}
    IN \A p \in pool :
         Cardinality(drawing(p)) * total = weights[p] * Cardinality(accepted)

\* One prize per person, none for who has no entry, and all of the prizes
\* while there are people to win them.
WinnersAreDistinct(weights, count, values) ==
  LET winners == DrawWinners(weights, count, values)
      entrants == {p \in DOMAIN weights : weights[p] > 0}
  IN /\ IsInjective(winners) /\ Range(winners) \subseteq entrants
     /\ Len(winners) = Min({count, Cardinality(entrants)})
=============================================================================
