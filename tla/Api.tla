---------------------------------- MODULE Api ----------------------------------
(***************************************************************************)
(* The order in which one request is refused, from the middleware to the   *)
(* handler (deps.py, v1/auth.py, v1/users.py, v1/redemptions.py), and the  *)
(* walk that scripts/smoke_demo.py makes through it on a deployed server   *)
(* while other people use it.  Every client has a phone and a code of its  *)
(* own; what the calls store is told in detail by SignIn, Accounts and     *)
(* Redemption.                                                             *)
(***************************************************************************)
EXTENDS Integers, Sequences, FiniteSets

CONSTANTS
  Smoke, Others,      \* the script; people
  MaxAttempts,        \* wrong codes before a sign-in code is dead
  CodeCoins, Bonus    \* what a first redemption pays

Clients == {Smoke} \cup Others

ApiAssumption ==
  /\ Smoke \notin Others /\ MaxAttempts \in Nat \ {0}
  /\ CodeCoins \in Nat /\ Bonus \in Nat

VARIABLES
  deployment,  \* [termsRequired, testNumbers, venues, code]: the last two are
               \* whether there are venues, and whether the script gets a code
  jar,         \* client -> has the session cookie of a session that lives
  otp,         \* client -> [state, recent, attempts] of the latest sign-in code
  users,       \* client -> [terms, nickname, venue, redeemed, coins]
  walk         \* the script: [at, failed, balance]

vars == <<deployment, jar, otp, users, walk>>

Call(method, path, csrf, origin, body) ==
  [method |-> method, path |-> path, csrf |-> csrf, origin |-> origin, body |-> body]
Get(path) == Call("GET", path, FALSE, "front", "none")
Post(path, body) == Call("POST", path, FALSE, "front", body)
Patch(body) == Call("PATCH", "/me", TRUE, "front", body)
Redeem(body) == Call("POST", "/redemptions", TRUE, "front", body)
Preflight(origin) == Call("OPTIONS", "/me", FALSE, origin, "none")

Answer(status, code) == [status |-> status, code |-> code, coins |-> 0]

-----------------------------------------------------------------------------
(* What a call is refused with                                             *)

Methods ==
  [path \in {"/health", "/ready", "/config", "/me", "/me/wallet"} |-> {"GET"}
     \cup (IF path = "/me" THEN {"PATCH"} ELSE {})]
Posts == {"/auth/request", "/auth/verify", "/auth/logout", "/redemptions"}
Paths == DOMAIN Methods \cup Posts
MethodsOf(path) == IF path \in Posts THEN {"POST"} ELSE Methods[path]

Unsafe(r) == r.method \in {"POST", "PATCH", "DELETE"}
CsrfRejected(c, r) == Unsafe(r) /\ jar[c] /\ (~r.csrf \/ r.origin # "front")

Gated(r) == r.path \in {"/me", "/me/wallet", "/redemptions"}

\* Mutant: only the nickname counts.
Complete_Nickname(c) == users[c].nickname
\* is_profile_complete
Complete(c) == (deployment.termsRequired => users[c].terms) /\ users[c].nickname

\* require_complete_profile: terms first.
ProfileRefusal(c) ==
  IF deployment.termsRequired /\ ~users[c].terms THEN "TERMS_NOT_ACCEPTED"
  ELSE "PROFILE_INCOMPLETE"

\* The body must have the fields, whatever they say.
Invalid(r) == r.path \in {"/auth/request", "/auth/verify", "/redemptions"} /\ r.body = "empty"

\* Mutant: a code works again.
WrongCode_Reusable(c, r) == r.body # "right" \/ otp[c].state = "none"
WrongCode(c, r) ==
  r.body # "right" \/ otp[c].state # "sent" \/ otp[c].attempts >= MaxAttempts

Refusals(c, r) ==
  <<[if |-> CsrfRejected(c, r), answer |-> Answer(403, "CSRF_REJECTED")],
    [if |-> r.path \notin Paths, answer |-> Answer(404, "NOT_FOUND")],
    [if |-> r.path \in Paths /\ r.method \notin MethodsOf(r.path),
     answer |-> Answer(405, "METHOD_NOT_ALLOWED")],
    [if |-> Gated(r) /\ ~jar[c], answer |-> Answer(401, "AUTH_REQUIRED")],
    [if |-> r.path = "/redemptions" /\ ~Complete(c), answer |-> Answer(403, ProfileRefusal(c))],
    [if |-> Invalid(r), answer |-> Answer(422, "VALIDATION_FAILED")],
    [if |-> r.path = "/auth/request" /\ otp[c].recent, answer |-> Answer(429, "OTP_COOLDOWN")],
    [if |-> r.path = "/auth/verify" /\ WrongCode(c, r), answer |-> Answer(401, "OTP_INVALID")],
    [if |-> r.body = "bad_nickname", answer |-> Answer(422, "NICKNAME_INVALID")],
    [if |-> r.body = "bad_venue" \/ (r.body = "venue" /\ ~deployment.venues),
     answer |-> Answer(422, "CATALOGUE_UNKNOWN")],
    [if |-> r.body = "hello", answer |-> Answer(400, "CODE_MALFORMED")]>>

Refused(c, r) == \E n \in DOMAIN Refusals(c, r) : Refusals(c, r)[n].if

-----------------------------------------------------------------------------
(* What an accepted call does and answers                                  *)

Pays(c, r) == r.path = "/redemptions" /\ ~users[c].redeemed

User(c, r) ==
  CASE r.method = "PATCH" /\ r.body = "complete" ->
         [users[c] EXCEPT !.nickname = TRUE, !.terms = TRUE]
    [] r.method = "PATCH" /\ r.body = "nickname" -> [users[c] EXCEPT !.nickname = TRUE]
    [] r.method = "PATCH" /\ r.body = "terms" -> [users[c] EXCEPT !.terms = TRUE]
    [] r.method = "PATCH" /\ r.body = "venue" -> [users[c] EXCEPT !.venue = TRUE]
    [] Pays(c, r) ->
         [users[c] EXCEPT !.redeemed = TRUE, !.coins = @ + CodeCoins + Bonus]
    [] OTHER -> users[c]

NewOtp(c, r) ==
  CASE r.path = "/auth/request" -> [state |-> "sent", recent |-> TRUE, attempts |-> 0]
    [] r.path = "/auth/verify" -> [otp[c] EXCEPT !.state = "used"]
    [] OTHER -> otp[c]

Cookie(c, r) == r.path = "/auth/verify" \/ (jar[c] /\ r.path # "/auth/logout")

\* AuthenticationRequested: a test number's code is in the answer.
RequestedAnswer(c) ==
  Answer(202, IF c = Smoke /\ deployment.testNumbers THEN "test_code" ELSE "ok")
\* UserResponse: the profile after the change.
UserAnswer(user) ==
  Answer(200, IF (user.terms \/ ~deployment.termsRequired) /\ user.nickname
              THEN "complete" ELSE "incomplete")
\* RedemptionResponse: the balance after the redemption, replayed or not.
RedemptionAnswer(c, user) ==
  [Answer(200, IF users[c].redeemed THEN "replayed" ELSE "first") EXCEPT !.coins = user.coins]
\* WalletResponse
WalletAnswer(c) == [Answer(200, "ok") EXCEPT !.coins = users[c].coins]

Success(c, r) ==
  CASE r.path = "/auth/request" -> RequestedAnswer(c)
    [] r.path = "/auth/logout" -> Answer(204, "ok")
    [] r.path = "/me" -> UserAnswer(User(c, r))
    [] r.path = "/redemptions" -> RedemptionAnswer(c, User(c, r))
    [] r.path = "/me/wallet" -> WalletAnswer(c)
    [] OTHER -> Answer(200, "ok")

\* CORSMiddleware answers a preflight before anything else sees it.
Reply(c, r) ==
  LET refusals == Refusals(c, r)
      first == CHOOSE n \in DOMAIN refusals :
                 refusals[n].if /\ \A m \in 1..(n - 1) : ~refusals[m].if IN
  IF r.method = "OPTIONS"
  THEN IF r.origin = "evil" THEN Answer(400, "not_allowed") ELSE Answer(200, "allowed")
  ELSE IF Refused(c, r) THEN refusals[first].answer ELSE Success(c, r)

\* A wrong sign-in code costs an attempt; any other refusal changes nothing.
Handle(c, r) ==
  IF r.method = "OPTIONS" THEN UNCHANGED <<jar, otp, users>>
  ELSE IF Reply(c, r).code = "OTP_INVALID"
       THEN /\ otp' = [otp EXCEPT ![c].attempts =
                              IF otp[c].state = "sent" /\ @ < MaxAttempts THEN @ + 1 ELSE @]
            /\ UNCHANGED <<jar, users>>
  ELSE IF Refused(c, r) THEN UNCHANGED <<jar, otp, users>>
  ELSE /\ jar' = [jar EXCEPT ![c] = Cookie(c, r)]
       /\ otp' = [otp EXCEPT ![c] = NewOtp(c, r)]
       /\ users' = [users EXCEPT ![c] = User(c, r)]

-----------------------------------------------------------------------------
(* The walk of scripts/smoke_demo.py                                       *)

Step(call, statuses, codes) == [call |-> call, statuses |-> statuses, codes |-> codes]
Any == {"ok", "incomplete", "complete"}

Walk ==
  <<Step(Get("/health"), {200}, Any), Step(Get("/ready"), {200}, Any),
    Step(Get("/config"), {200}, Any),
    Step(Preflight("front"), {200}, {"allowed"}), Step(Preflight("local"), {200}, {"allowed"}),
    Step(Preflight("evil"), {200, 400}, {"not_allowed"}),
    Step(Get("/nope"), {404}, {"NOT_FOUND"}),
    Step(Post("/auth/request", "empty"), {422}, {"VALIDATION_FAILED"}),
    Step(Call("DELETE", "/config", FALSE, "front", "none"), {405}, {"METHOD_NOT_ALLOWED"}),
    Step(Get("/me"), {401}, {"AUTH_REQUIRED"}),
    Step(Post("/auth/request", "phone"), {202}, {"test_code"}),
    Step(Post("/auth/verify", "wrong"), {401}, {"OTP_INVALID"}),
    Step(Post("/auth/verify", "right"), {200}, Any),
    Step(Call("POST", "/auth/verify", TRUE, "front", "right"), {401}, {"OTP_INVALID"}),
    Step(Get("/me"), {200}, {"incomplete"}),
    Step(Call("PATCH", "/me", FALSE, "front", "none"), {403}, {"CSRF_REJECTED"}),
    Step(Call("PATCH", "/me", TRUE, "evil", "none"), {403}, {"CSRF_REJECTED"}),
    Step(Redeem(IF deployment.code THEN "code" ELSE "hello"), {403},
         {"TERMS_NOT_ACCEPTED", "PROFILE_INCOMPLETE"}),
    Step(Patch("complete"), {200}, {"complete"}),
    Step(Patch("venue"), {200}, Any),
    Step(Patch("bad_venue"), {422}, {"CATALOGUE_UNKNOWN"}),
    Step(Patch("bad_nickname"), {422}, {"NICKNAME_INVALID"}),
    Step(Redeem("hello"), {400}, {"CODE_MALFORMED"}),
    Step(Redeem("code"), {200}, {"first"}), Step(Redeem("code"), {200}, {"replayed"}),
    Step(Get("/me/wallet"), {200}, Any),
    Step(Call("POST", "/auth/logout", TRUE, "front", "none"), {204}, Any),
    Step(Get("/me"), {401}, {"AUTH_REQUIRED"})>>

\* The steps that need venues, or a code, are skipped without.
Skipped(n) ==
  \/ Walk[n].call.body = "venue" /\ ~deployment.venues
  \/ n > 19 /\ ~deployment.code /\ Walk[n].call.path \in {"/redemptions", "/me/wallet"}

Walked == Len(Walk) + 1

\* One step of the script; without a test code it ends.
TakeStep ==
  /\ walk.at < Walked
  /\ IF Skipped(walk.at)
     THEN walk' = [walk EXCEPT !.at = @ + 1] /\ UNCHANGED <<jar, otp, users>>
     ELSE LET step == Walk[walk.at]
              reply == Reply(Smoke, step.call)
              passes == /\ reply.status \in step.statuses /\ reply.code \in step.codes
                        /\ step.call.path = "/me/wallet" => reply.coins = walk.balance IN
          /\ Handle(Smoke, step.call)
          /\ walk' = [at |-> IF reply.status = 202 /\ reply.code # "test_code"
                             THEN Walked ELSE walk.at + 1,
                      failed |-> walk.failed \cup (IF passes THEN {} ELSE {walk.at}),
                      balance |-> IF reply.code = "first" THEN reply.coins ELSE walk.balance]
  /\ UNCHANGED deployment

-----------------------------------------------------------------------------
(* Other people                                                            *)

Calls ==
  {Post("/auth/request", body) : body \in {"phone", "empty"}}
    \cup {[Post("/auth/verify", body) EXCEPT !.csrf = csrf] : body \in {"right", "wrong"}, csrf \in BOOLEAN}
    \cup {[Post("/auth/logout", "none") EXCEPT !.csrf = csrf] : csrf \in BOOLEAN}
    \cup {Patch(body) : body \in {"nickname", "terms", "none"}}
    \cup {Redeem(body) : body \in {"code", "hello", "empty"}}

Use(c) == \E r \in Calls : Handle(c, r) /\ UNCHANGED <<deployment, walk>>

\* The resend cooldown passes.
Elapse(c) ==
  /\ otp[c].recent
  /\ otp' = [otp EXCEPT ![c].recent = FALSE]
  /\ UNCHANGED <<deployment, jar, users, walk>>

Init ==
  /\ deployment \in [termsRequired : BOOLEAN, testNumbers : BOOLEAN, venues : BOOLEAN, code : BOOLEAN]
  /\ jar = [c \in Clients |-> FALSE]
  /\ otp = [c \in Clients |-> [state |-> "none", recent |-> FALSE, attempts |-> 0]]
  /\ users = [c \in Clients |-> [terms |-> FALSE, nickname |-> FALSE, venue |-> FALSE,
                                 redeemed |-> FALSE, coins |-> 0]]
  /\ walk = [at |-> 1, failed |-> {}, balance |-> 0]

Next == TakeStep \/ \E c \in Others : Use(c) \/ Elapse(c)

Spec == Init /\ [][Next]_vars

-----------------------------------------------------------------------------
(* Properties                                                              *)

TypeOK ==
  /\ jar \in [Clients -> BOOLEAN]
  /\ \A c \in Clients : otp[c] \in [state : {"none", "sent", "used"}, recent : BOOLEAN,
                                    attempts : 0..MaxAttempts]
  /\ \A c \in Clients : users[c] \in [terms : BOOLEAN, nickname : BOOLEAN, venue : BOOLEAN,
                                      redeemed : BOOLEAN, coins : Nat]
  /\ walk.at \in 1..Walked /\ walk.failed \subseteq DOMAIN Walk /\ walk.balance \in Nat

\* The script fails where the server has no test numbers and nowhere else:
\* the order of the refusals it relies on is the one the server has.  Where a
\* single wrong code kills a sign-in code (OTP_MAX_ATTEMPTS may be 1) it fails
\* as well: it sends a wrong code before the right one.
SmokeTellsTheTruth ==
  MaxAttempts > 1 =>
  walk.failed = IF ~deployment.testNumbers /\ walk.at = Walked
                THEN {n \in DOMAIN Walk : Walk[n].call = Post("/auth/request", "phone")}
                ELSE {}

\* Nobody has scanned a code before signing in and, where they are required,
\* accepting the terms and choosing a nickname.
ScansNeedAProfile ==
  \A c \in Clients : users[c].redeemed =>
    /\ Complete(c) /\ otp[c].state \in {"used", "sent"}
    /\ deployment.termsRequired => users[c].terms
=============================================================================
