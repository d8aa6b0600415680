------------------------------- MODULE Rankings -------------------------------
(***************************************************************************)
(* What PostgreSQLLeaderboardReader computes of the accepted runs of a     *)
(* mini game: the board of a period and a player's own place on it.  A run *)
(* is [player, score, at], and the moments of two of them differ.  The one *)
(* board of the registry ranks low scores first.                           *)
(***************************************************************************)
EXTENDS Integers, Sequences, FiniteSets, FiniteSetsExt

CONSTANT TopN

RankingsAssumption == TopN \in Nat \ {0}

\* ORDER BY score, finished_at: ties go to whoever set it first.
Better(r, s) == r.score < s.score \/ (r.score = s.score /\ r.at < s.at)

AreRuns(runs) ==
  /\ IsFiniteSet(runs)
  /\ \A r \in runs : r.score \in Int /\ r.at \in Nat
  /\ \A r, s \in runs : r.at = s.at => r = s

\* The row_number() = 1 of each user.
Bests(runs, since) ==
  LET eligible == {r \in runs : r.at >= since}
  IN {r \in eligible : \A s \in eligible : s.player = r.player => s = r \/ Better(r, s)}

\* row_number() over the bests: one more than there are better ones.
Ranked(runs, since) ==
  LET bests == Bests(runs, since) IN
  [n \in 1..Cardinality(bests) |->
     CHOOSE r \in bests : Cardinality({s \in bests : Better(s, r)}) = n - 1]

TopOf(runs, since) ==
  LET ranked == Ranked(runs, since) IN SubSeq(ranked, 1, Min({TopN, Len(ranked)}))

\* rank_of: rank and score over the same ranking.
RankOf(runs, since, p) ==
  {[rank |-> n, score |-> Ranked(runs, since)[n].score] :
     n \in {n \in DOMAIN Ranked(runs, since) : Ranked(runs, since)[n].player = p}}

-----------------------------------------------------------------------------
(* What the two queries promise each other                                 *)

\* The two queries agree ("top() and rank_of() can never disagree about where
\* a player actually lands"): whoever's place is among the first TopN is shown
\* there with that score, each player once, in the order of the ranking, and
\* nobody who has a run in the period is without a place.
PlacesAgree(runs, since) ==
  LET top == TopOf(runs, since) IN
  /\ \A r \in {r \in runs : r.at >= since} :
       \E place \in RankOf(runs, since, r.player) :
         /\ place.score <= r.score
         /\ place.rank <= TopN =>
              top[place.rank].player = r.player /\ top[place.rank].score = place.score
  /\ \A m, n \in DOMAIN top : m < n => /\ Better(top[m], top[n])
                                       /\ top[m].player # top[n].player
=============================================================================
