------------------------------- MODULE Replies -------------------------------
(***************************************************************************)
(* What the endpoints that refuse things answer, as functions of what they *)
(* find: a handler is a sequence of checks, and the first that fails is    *)
(* what the client hears (api/v1/*.py, errors.py and the services they     *)
(* call).  Times are in half seconds, so that rounding shows.              *)
(***************************************************************************)
EXTENDS Integers, Sequences, FiniteSets

CONSTANTS
  Cooldown, DailyLimit,        \* AuthenticationSettings: seconds; codes a day
  Window, MaxAttempts,         \* ThrottleSettings: seconds; failures
  RedeemLimit, Day,            \* redemption_daily_limit; length of a day (half seconds)
  Threshold, TeamLock          \* UNLOCK_THRESHOLD; the lock (half seconds)

RepliesAssumption ==
  {Cooldown, DailyLimit, Window, MaxAttempts, RedeemLimit, Day, Threshold, TeamLock} \subseteq Nat \ {0}

Nothing == -1

Answer(status, code) ==
  [status |-> status, code |-> code, after |-> Nothing,
   required |-> Nothing, have |-> Nothing, at |-> Nothing]
Later(answer, seconds) == [answer EXCEPT !.after = seconds]
Lacking(answer, required, have) == [answer EXCEPT !.required = required, !.have = have]
Until(answer, moment) == [answer EXCEPT !.at = moment]

Check(fails, answer) == [fails |-> fails, answer |-> answer]
FirstFailure(checks, success) ==
  LET failing == {n \in DOMAIN checks : checks[n].fails} IN
  IF failing = {} THEN success
  ELSE checks[CHOOSE n \in failing : \A m \in failing : n <= m].answer

-----------------------------------------------------------------------------
(* What a handler may find                                                 *)

CodeRequests ==
  [mobile : BOOLEAN, test : BOOLEAN, listed : BOOLEAN, known : BOOLEAN,
   account : {"none", "active", "inactive"},
   elapsed : {Nothing} \cup Nat, sent : Nat, delivered : BOOLEAN]
Scans ==
  [pepper : BOOLEAN, typed : {"well", "mistyped", "malformed"}, failures : Seq(Nat),
   code : {"unknown", "inactive", "free", "mine", "theirs"}, today : Nat, moment : 0..(Day - 1)]
TeamChoices ==
  {r \in [flavor : BOOLEAN, same : BOOLEAN, codes : Nat, joined : {Nothing} \cup Nat,
          moment : Nat] : r.joined <= r.moment}
Claims ==
  [active : BOOLEAN, claimed : BOOLEAN, evaluable : BOOLEAN, have : Nat, target : Nat]

-----------------------------------------------------------------------------
(* POST /auth/request.  r.elapsed: since the latest code, Nothing if none  *)

\* Mutant: the remaining time rounded down.
WholeSeconds_Floor(halves) == halves \div 2
\* int(remaining) + 1
WholeSeconds(halves) == halves \div 2 + 1

Remaining(r) == IF r.elapsed = Nothing THEN 0 ELSE 2 * Cooldown - r.elapsed

RequestReply(r) == FirstFailure(
  <<Check(~r.mobile, Answer(422, "PHONE_INVALID")),
    Check(~r.test /\ ~r.listed, Answer(403, "PHONE_NOT_ALLOWED")),
    Check(~r.test /\ ~r.known, Answer(422, "PHONE_UNUSUAL")),
    Check(r.account = "inactive", Answer(202, "")),
    Check(Remaining(r) > 0, Later(Answer(429, "OTP_COOLDOWN"), WholeSeconds(Remaining(r)))),
    Check(r.sent >= DailyLimit, Answer(429, "OTP_DAILY_LIMIT")),
    Check(~r.test /\ ~r.delivered, Answer(503, "SERVICE_UNAVAILABLE"))>>,
  Answer(202, IF r.test THEN "test_code" ELSE ""))

-----------------------------------------------------------------------------
(* POST /redemptions.  r.failures: ages of the failures; r.code: what the  *)
(* database holds of the code; r.moment: time of the campaign's day        *)

InWindow(r) == Cardinality({n \in DOMAIN r.failures : r.failures[n] <= 2 * Window})

\* round(): half to even.
Rounded(halves) ==
  LET floor == halves \div 2 IN
  IF halves % 2 = 1 /\ floor % 2 = 1 THEN floor + 1 ELSE floor

RedeemReply(r) == FirstFailure(
  <<Check(~r.pepper, Answer(503, "REDEMPTION_NOT_CONFIGURED")),
    Check(r.typed = "malformed", Answer(400, "CODE_MALFORMED")),
    Check(r.typed = "mistyped", Answer(400, "CODE_MISTYPED")),
    Check(InWindow(r) >= MaxAttempts, Later(Answer(429, "CODE_ATTEMPTS_LIMITED"), Window)),
    Check(r.code = "free" /\ r.today + 1 > RedeemLimit,
          Later(Answer(429, "REDEMPTION_DAILY_LIMIT"), Rounded(Day - r.moment))),
    Check(r.code \in {"unknown", "inactive"}, Answer(404, "CODE_INVALID")),
    Check(r.code = "theirs", Answer(409, "CODE_ALREADY_REDEEMED"))>>,
  Answer(200, IF r.code = "mine" THEN "replayed" ELSE ""))

-----------------------------------------------------------------------------
(* POST /mini-games/runs/{id}/finish                                       *)

NoRun == Answer(404, "NOT_FOUND")
Expired == Answer(409, "MINI_GAME_RUN_EXPIRED")
Finished == Answer(409, "MINI_GAME_RUN_ALREADY_FINISHED")
Miscounted == Answer(422, "MINI_GAME_ROUND_COUNT_MISMATCH")

\* Mutant: the owner is looked at last.
FinishReply_OwnerLast(r) == FirstFailure(
  <<Check(r.run = "absent", NoRun), Check(r.status = "expired", Expired),
    Check(r.status # "open", Finished), Check(r.late, Expired),
    Check(~r.counted, Miscounted), Check(r.run = "theirs", NoRun)>>,
  Answer(200, ""))
FinishReply(r) == FirstFailure(
  <<Check(r.run = "absent", NoRun), Check(r.run = "theirs", NoRun),
    Check(r.status = "expired", Expired), Check(r.status # "open", Finished),
    Check(r.late, Expired), Check(~r.counted, Miscounted)>>,
  Answer(200, ""))

-----------------------------------------------------------------------------
(* POST and GET /me/team.  r.joined: Nothing without a team                *)

Unlocked(r) == r.codes >= Threshold

\* Mutant: the new lock is counted from now.
SwitchAllowedAt_FromNow(r) == r.moment + TeamLock
SwitchAllowedAt(r) == r.joined + TeamLock

TeamReply(r) == FirstFailure(
  <<Check(~r.flavor, Answer(422, "CATALOGUE_UNKNOWN")),
    Check(r.joined # Nothing /\ r.same, Answer(422, "TEAM_SAME")),
    Check(~Unlocked(r), Lacking(Answer(409, "FLAVOR_NOT_UNLOCKED"), Threshold, r.codes)),
    Check(r.joined # Nothing /\ r.moment < SwitchAllowedAt(r),
          Until(Answer(409, "TEAM_LOCKED"), SwitchAllowedAt(r)))>>,
  Answer(200, ""))

TeamStatus(r) ==
  [unlocked |-> Unlocked(r),
   switchAllowedAt |-> IF r.joined = Nothing THEN Nothing ELSE SwitchAllowedAt(r)]

-----------------------------------------------------------------------------
(* POST /challenges/{id}/claim and GET /challenges                         *)

\* A row whose kind needs the start of a period it does not have ends in
\* unhandled_error_handler, for the claim and for everybody's list.
ClaimReply(r) == FirstFailure(
  <<Check(~r.active, Answer(404, "NOT_FOUND")),
    Check(r.claimed, Answer(409, "CHALLENGE_ALREADY_CLAIMED")),
    Check(~r.evaluable, Answer(500, "INTERNAL_ERROR")),
    Check(r.have < r.target, Lacking(Answer(409, "CHALLENGE_NOT_UNLOCKED"), r.target, r.have))>>,
  Answer(200, ""))

Listed(r) == [completed |-> r.have >= r.target, claimed |-> r.claimed]

-----------------------------------------------------------------------------
(* Properties                                                              *)

\* Who asks for a sign-in code cannot tell a deactivated account from one
\* that can sign in, as long as the number's own limits do not speak.
AccountsLookAlike(r) ==
  ~r.test /\ r.delivered /\ Remaining(r) <= 0 /\ r.sent < DailyLimit
  => RequestReply(r) = RequestReply([r EXCEPT !.account = "inactive"])

\* A code that exists but is not released answers exactly like one that does
\* not exist; and a throttled player learns nothing of any well-formed code.
CodesLookAlike(r) ==
  LET With(code) == RedeemReply([r EXCEPT !.code = code]) IN
  /\ With("inactive") = With("unknown")
  /\ InWindow(r) >= MaxAttempts
     => \A code \in {"unknown", "free", "mine", "theirs"} : With(code) = With("inactive")

\* A run's id does not tell whether somebody else's run has it (the comment
\* in _finish_api_error), whatever state that run is in.
RunsLookAlike(r) ==
  FinishReply([r EXCEPT !.run = "theirs"]) = FinishReply([r EXCEPT !.run = "absent"])

\* Who waits as long as Retry-After says, and half a second for its rounding,
\* is not refused for the same reason again.
WaitingForACodeHelps(r) ==
  LET reply == RequestReply(r) IN
  reply.after # Nothing =>
    /\ RequestReply([r EXCEPT !.elapsed = @ + 2 * reply.after]).code # reply.code
    /\ 2 * (reply.after - 1) <= Remaining(r)

WaitingToRedeemHelps(r) ==
  LET reply == RedeemReply(r)
      wait == 2 * reply.after + 1
      later == r.moment + wait
      then == [r EXCEPT !.failures = [n \in DOMAIN @ |-> @[n] + wait],
                        !.moment = later % Day,
                        !.today = IF later >= Day THEN 0 ELSE @] IN
  reply.after # Nothing => RedeemReply(then).code # reply.code

\* What the team page says agrees with what a switch is answered: at the
\* moment it names, and not before, the lock no longer refuses.
TeamPageAgrees(r) ==
  LET reply == TeamReply(r)  page == TeamStatus(r)  At(t) == TeamReply([r EXCEPT !.moment = t]) IN
  /\ reply.code = "FLAVOR_NOT_UNLOCKED" => ~page.unlocked /\ reply.have < reply.required
  /\ reply.code = "TEAM_LOCKED" =>
       /\ reply.at = page.switchAllowedAt /\ reply.at > r.moment
       /\ At(reply.at).status = 200 /\ At(reply.at - 1).code = "TEAM_LOCKED"

\* What the list shows as completed and unclaimed is claimed, and nothing else.
ListAgrees(r) ==
  r.active /\ r.evaluable =>
    LET shown == Listed(r) IN
    (ClaimReply(r).status = 200) = (shown.completed /\ ~shown.claimed)

-----------------------------------------------------------------------------
(* The questions asked                                                     *)

RequestQuestions ==
  {r \in [mobile : BOOLEAN, test : BOOLEAN, listed : BOOLEAN, known : BOOLEAN,
          account : {"none", "active", "inactive"}, elapsed : {Nothing} \cup 0..(2 * Cooldown + 1),
          sent : {0, DailyLimit}, delivered : BOOLEAN] :
     r.account = "none" => r.elapsed = Nothing /\ r.sent = 0}

RedeemQuestions ==
  {r \in [pepper : BOOLEAN, typed : {"well", "mistyped", "malformed"},
          failures : UNION {[1..n -> 0..(2 * Window + 1)] : n \in 0..MaxAttempts},
          code : {"unknown", "inactive", "free", "mine", "theirs"},
          today : 0..RedeemLimit, moment : 0..(Day - 1)] :
     (r.pepper /\ r.typed = "well") \/ (r.failures = <<>> /\ r.moment = 0)}

FinishQuestions ==
  [run : {"absent", "theirs", "own"}, status : {"open", "accepted", "rejected", "expired"},
   late : BOOLEAN, counted : BOOLEAN]

TeamQuestions ==
  {r \in [flavor : BOOLEAN, same : BOOLEAN, codes : 0..(Threshold + 1),
          joined : {Nothing} \cup 0..2, moment : 0..(TeamLock + 2)] :
     r.joined <= r.moment}

ClaimQuestions ==
  [active : BOOLEAN, claimed : BOOLEAN, evaluable : BOOLEAN, have : 0..3, target : 1..3]
=============================================================================
