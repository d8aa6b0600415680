----------------------------- MODULE MCEconomy -----------------------------
(* Three scenarios of Economy for TLC: they share tables and constants, and
   differ in the calls that clients make. *)
EXTENDS Economy, TLC

CONSTANTS a, b, s1, s2, c1, c2, r1, r2, j1,
          Scenarios   \* which of them a run explores

VARIABLE scenario

In(u, op, arg, note) == [user |-> u, op |-> op, arg |-> arg, note |-> note]

AllChallenges ==
  "checkin" :> [kind |-> "daily_checkin", period |-> "day", target |-> 1, reward |-> 0] @@
  "first" :> [kind |-> "first_mini_game", period |-> "once", target |-> 1, reward |-> 2] @@
  "fast" :> [kind |-> "tap_reflex_fast", period |-> "day", target |-> 1, reward |-> 1] @@
  "explore" :> [kind |-> "distinct_flavors", period |-> "month", target |-> 2, reward |-> 4]
AllAchievements == "two_days" :> [threshold |-> 2, reward |-> 3]

\* One player over two local days: runs, challenges, a streak, adjustments.
PlayInputs ==
  {In(a, "start_run", r1, ""), In(a, "adjust", -2, ""), In(a, "finish_run", r1, "quick")}
  \cup {In(a, "finish_run", r, "scripted") : r \in RunIds} \cup
  {In(a, "claim", c, "") : c \in {"checkin", "first", "fast"}}

\* An inviter, and an invitee with a run, two teams, a code of each, and a
\* challenge to find both flavors in one month; the second day starts a month.
ReferInputs ==
  {In(b, "bind", a, ""), In(b, "settle", b, ""), In(b, "start_run", r1, ""),
   In(b, "finish_run", r1, "slow")} \cup
  {In(b, "team", f, "") : f \in {"PR", "BE"}} \cup
  {In(b, "redeem", c1, "PR"), In(b, "redeem", c2, "BE"),
   In(b, "claim", "explore", "")}

\* The shortest way to a paid referral.
FirstInputs ==
  {In(b, "bind", a, ""), In(b, "settle", b, ""), In(b, "start_run", r1, ""),
   In(b, "finish_run", r1, "slow"), In(b, "team", "PR", ""),
   In(b, "redeem", c1, "PR"), In(b, "redeem", c2, "PR")}

InputsOf == "play" :> PlayInputs @@ "refer" :> ReferInputs @@ "first" :> FirstInputs
AllInputs == UNION {InputsOf[n] : n \in DOMAIN InputsOf}

-----------------------------------------------------------------------------
IssuedRuns == {r \in RunIds : runs[r] # Unissued}
              \cup UNION {DOMAIN call[s].plan.runs : s \in Calls}

\* The second run belongs to the first scenario; a profile matters of an
\* invitee only.
InScenario ==
  /\ \A s \in Calls : call[s].at # "idle" => call[s].input \in InputsOf[scenario]
  /\ IF scenario = "play" THEN profiled = {}
     ELSE profiled \subseteq {b} /\ Cardinality(IssuedRuns) <= 1

MCInit == Init /\ scenario \in Scenarios
MCNext == Next /\ UNCHANGED scenario /\ InScenario'
MCSpec == MCInit /\ [][MCNext]_<<vars, scenario>>

\* The slots are interchangeable: no step or property names one.
Symmetry == Permutations(Calls)
=============================================================================
