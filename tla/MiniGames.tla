----------------------------- MODULE MiniGames -----------------------------
(***************************************************************************)
(* Tap Reflex runs (app/domain/mini_games.py).  What a client reports is   *)
(* one of four attempts:                                                   *)
(*   "malformed"  a number of rounds the run does not have                 *)
(*   "scripted"   a reaction below the human floor, or all of them equal   *)
(*   "slow"       plausible reactions                                      *)
(*   "quick"      plausible ones, below the fast threshold on average      *)
(* The table of runs is a function; a run that was not issued is Unissued. *)
(***************************************************************************)
EXTENDS Integers, FiniteSets

CONSTANTS
  RunIds,
  RunTtl,    \* RUN_TTL
  RunTime,   \* the least time the rounds of a run take
  Nobody

ASSUME MiniGamesAssumption == RunTtl \in Nat /\ RunTime \in Nat

Attempts == {"malformed", "scripted", "slow", "quick"}
Terminal == {"accepted", "rejected", "expired"}

Unissued == [user |-> Nobody, status |-> "none", issuedAt |-> 0,
             finishedAt |-> 0, quick |-> FALSE]

OpenRun(u, now) ==
  [Unissued EXCEPT !.user = u, !.status = "open", !.issuedAt = now]

\* SqlMiniGames.finish; an expired run has no average.
Finish(run, status, now, attempt) ==
  [run EXCEPT !.status = status, !.finishedAt = now,
              !.quick = status # "expired" /\ attempt = "quick"]

\* assess_plausibility
Plausible(run, attempt, now) ==
  /\ attempt \in {"slow", "quick"}
  /\ now - run.issuedAt >= RunTime

\* check_can_finish and the verdict: what finish_run makes of the run.
Verdict(run, u, attempt, now) ==
  IF run.user # u \/ run.status # "open" THEN "refused"
  ELSE IF now > run.issuedAt + RunTtl THEN "expired"
  ELSE IF attempt = "malformed" THEN "refused"
  ELSE IF Plausible(run, attempt, now) THEN "accepted" ELSE "rejected"

RunsOf(runs, u, status) ==
  {r \in RunIds : runs[r].user = u /\ runs[r].status = status}
AcceptedRuns(runs, u) == Cardinality(RunsOf(runs, u, "accepted"))
FastRunsSince(runs, u, since) ==
  Cardinality({r \in RunsOf(runs, u, "accepted") :
                 runs[r].quick /\ runs[r].finishedAt >= since})
RejectedSince(runs, u, since) ==
  Cardinality({r \in RunsOf(runs, u, "rejected") :
                 runs[r].finishedAt >= since})
=============================================================================
