----------------------------- MODULE Challenges -----------------------------
(***************************************************************************)
(* Challenges and the achievements a check-in streak unlocks               *)
(* (app/application/challenges.py): what a claim needs and what it earns.  *)
(* A claim is a row [challenge, user, period], an unlock [id, user].       *)
(***************************************************************************)
EXTENDS Periods, MiniGames, Teams

CONSTANTS
  Catalogue,      \* challenge -> [kind, period, target, reward], active rows
  Achievements    \* id -> [threshold, reward], active checkin_streak rows

Kinds == {"team_choice", "distinct_flavors", "daily_checkin",
          "first_mini_game", "tap_reflex_fast"}

ASSUME ChallengesAssumption ==
  /\ IsFiniteSet(DOMAIN Achievements)
  /\ \A c \in DOMAIN Catalogue :
       Catalogue[c] \in [kind : Kinds, period : {"once", "day", "week", "month"},
                         target : Nat \ {0}, reward : Nat]
  /\ \A a \in DOMAIN Achievements :
       Achievements[a] \in [threshold : Nat \ {0}, reward : Nat]

OnceKey == <<"once">>

PeriodKey(period, now) ==
  CASE period = "once"  -> OnceKey
    [] period = "day"   -> DayKey(now)
    [] period = "week"  -> WeekKey(now)
    [] period = "month" -> MonthKey(now)

PeriodStart(period, now) ==
  CASE period = "day"   -> DayStart(now)
    [] period = "week"  -> WeekStart(now)
    [] period = "month" -> MonthStart(now)

\* The other combinations the table accepts end in an exception: a period
\* start that is None, or a period key that is not a date.
Evaluable(challenge) ==
  CASE challenge.kind = "daily_checkin" -> challenge.period = "day"
    [] challenge.kind \in {"tap_reflex_fast", "distinct_flavors"} ->
         challenge.period # "once"
    [] OTHER -> TRUE

\* _progress_in_transaction
Progress(challenge, u, now, teams, runs, codes) ==
  CASE challenge.kind = "team_choice" ->
         IF Current(teams, u) # {} THEN 1 ELSE 0
    [] challenge.kind = "daily_checkin" -> 1
    [] challenge.kind = "first_mini_game" -> AcceptedRuns(runs, u)
    [] challenge.kind = "tap_reflex_fast" ->
         FastRunsSince(runs, u, PeriodStart(challenge.period, now))
    [] challenge.kind = "distinct_flavors" ->
         FlavorsSince(codes, u, PeriodStart(challenge.period, now))

\* Mutant: one short of the target is enough.
Reached_OffByOne(have, target) == have + 1 >= target

Reached(have, target) == have >= target

\* checkin_dates: the dates behind the day keys of the user's claims.
CheckinDays(claims, c, u) ==
  {k.period[2] : k \in {l \in claims : l.challenge = c /\ l.user = u}}

\* _unlock_streak_achievements
Unlocks(streak, u, unlocked) ==
  {a \in DOMAIN Achievements :
     streak >= Achievements[a].threshold /\ [id |-> a, user |-> u] \notin unlocked}
=============================================================================
