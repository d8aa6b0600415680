----------------------------- MODULE AdminPanel -----------------------------
(***************************************************************************)
(* Signing in to the admin panel and enrolling a second factor             *)
(* (PhoneSignInBackend, AdminTotpSetupView, AuthenticationService and      *)
(* scripts/admins.py).                                                     *)
(*                                                                         *)
(* The panel keeps no session of its own: what it knows of a browser is in *)
(* a signed cookie, which a request carries and its response replaces.     *)
(* Every repository call is a transaction of its own, and a step:          *)
(*                                                                         *)
(*   idle -> send -> sms -------------------------------> reply -> idle     *)
(*        -> account -> code -> enrolled? --------------> reply             *)
(*        -> totp --------------------------------------> reply             *)
(*        -> auth -> page ------------------------------> reply             *)
(*                -> shown? -> role -> existing -> save -> reply            *)
(*                -> match -> confirm -------------------> reply            *)
(*                                                                         *)
(* The SMS code is SignIn's business: here it is either usable or not.     *)
(***************************************************************************)
EXTENDS Integers, FiniteSets

CONSTANTS
  Admins,        \* accounts that may be admins
  Browsers,
  Calls,         \* slots in which requests are handled concurrently
  Secrets,       \* TOTP secrets: bound of the model
  Life,          \* ABSOLUTE_SESSION_SECONDS
  MaxAttempts,   \* MAX_TOTP_ATTEMPTS_PER_SIGN_IN
  MaxTime,       \* the clock stops here: bound of the model
  NoSecret, Nobody

ASSUME AdminPanelAssumption ==
  /\ NoSecret \notin Secrets /\ Nobody \notin Admins
  /\ Life \in Nat /\ MaxAttempts \in Nat \ {0} /\ MaxTime \in Nat

VARIABLES
  isAdmin,    \* role is admin and the account is active
  secret,     \* users.totp_secret_encrypted
  confirmed,  \* users.totp_confirmed_at is set
  usable,     \* a delivered sign-in code is unused
  cookie,     \* the cookie of each browser
  scanned,    \* secrets an admin has in an authenticator app
  clock,
  call,
  proven,     \* history: secrets of which a matching code was checked
  grants      \* history: sign-ins [who, at, held]

account == <<isAdmin, secret, confirmed, usable>>
history == <<proven, grants>>
vars == <<isAdmin, secret, confirmed, usable, cookie, scanned, clock, call,
          proven, grants>>

-----------------------------------------------------------------------------
(* Cookies and calls                                                       *)

NoSession == [step |-> "none", who |-> Nobody, attempts |-> 0, iat |-> 0]
AskCode(u) == [NoSession EXCEPT !.step = "code", !.who = u]
AskTotp(u) == [NoSession EXCEPT !.step = "totp", !.who = u]
SignedIn(u, t) == [NoSession EXCEPT !.step = "in", !.who = u, !.iat = t]

\* form is what was posted: an account for "send", right or wrong for
\* "verify", a secret or NoSecret as the source of a TOTP code.
Idle == [at |-> "idle", kind |-> "none", browser |-> Nobody, form |-> "none",
         carried |-> NoSession, session |-> NoSession, admin |-> FALSE,
         shows |-> NoSecret, wasAdmin |-> FALSE, lapsed |-> FALSE,
         authAt |-> 0]

Enrolled(u) == secret[u] # NoSecret /\ confirmed[u]

\* History of the calls in flight, noted when one begins and when an account
\* changes: whether the account was an admin's, and whether it had no second
\* factor, at some moment since the call began.
Observed(calls) ==
  [s \in Calls |->
     LET u == calls[s].carried.who IN
     IF calls[s].at \in {"idle", "reply"} \/ u = Nobody THEN calls[s]
     ELSE [calls[s] EXCEPT
             !.wasAdmin = @ \/ isAdmin'[u],
             !.lapsed = @ \/ secret'[u] = NoSecret \/ ~confirmed'[u]]]

Go(s, at) == call' = [call EXCEPT ![s].at = at]

\* What is left of a call that only has its response to send.
Replying(s, session, shows) ==
  [Idle EXCEPT !.at = "reply", !.browser = call[s].browser,
               !.carried = call[s].carried, !.session = session, !.shows = shows]

Reply(s, session) == call' = [call EXCEPT ![s] = Replying(s, session, NoSecret)]

Who(s) == call[s].carried.who

-----------------------------------------------------------------------------
(* A request starts and ends                                               *)

FirstStep(kind, carried) ==
  CASE kind = "send" -> "send"
    [] kind = "verify" -> IF carried.step = "code" THEN "account" ELSE "reply"
    [] kind = "verify_totp" -> IF carried.step = "totp" THEN "totp" ELSE "reply"
    [] kind = "logout" -> "reply"
    [] kind \in {"page", "setup", "confirm"} ->
         IF carried.step = "in" THEN "auth" ELSE "reply"

Forms(kind, u) ==
  CASE kind = "send" -> Admins
    [] kind = "verify" -> {"right", "wrong"}
    [] kind \in {"verify_totp", "confirm"} ->
         {NoSecret} \cup (IF u = Nobody THEN {} ELSE scanned[u])
    [] OTHER -> {"none"}

Kinds == {"send", "verify", "verify_totp", "logout", "page", "setup", "confirm"}

Begin(s, b, kind) ==
  /\ call[s].at = "idle"
  /\ UNCHANGED <<account, cookie, scanned, clock, history>>
  /\ \E form \in Forms(kind, cookie[b].who) :
       call' = Observed([call EXCEPT ![s] =
         [Idle EXCEPT !.at = FirstStep(kind, cookie[b]), !.kind = kind,
                      !.browser = b, !.form = form, !.carried = cookie[b],
                      !.session = IF kind = "logout" THEN NoSession
                                  ELSE cookie[b]]])

\* Mutant: every response starts the eight hours again.
Rewritten_Sliding(session) ==
  IF session.step = "in" THEN [session EXCEPT !.iat = clock] ELSE session

\* SessionMiddleware writes the session back as the handler left it.
Rewritten(session) == session

\* The response arrives, whatever other responses did to the cookie meanwhile;
\* an empty session leaves a cookie alone only if there was none.  The admin
\* may scan the secret a page shows.
Deliver(s) ==
  LET c == call[s] IN
  /\ c.at = "reply"
  /\ cookie' = IF c.session = NoSession /\ c.carried = NoSession THEN cookie
               ELSE [cookie EXCEPT ![c.browser] = Rewritten(c.session)]
  /\ \/ scanned' = scanned
     \/ /\ c.shows # NoSecret
        /\ scanned' = [scanned EXCEPT ![c.carried.who] = @ \cup {c.shows}]
  /\ call' = [call EXCEPT ![s] = Idle]
  /\ UNCHANGED <<account, clock, history>>

\* A crash, an exception that no handler catches, a lost response.
Fail(s) ==
  /\ call[s].at # "idle"
  /\ call' = [call EXCEPT ![s] = Idle]
  /\ UNCHANGED <<account, cookie, scanned, clock, history>>

-----------------------------------------------------------------------------
(* Signing in                                                              *)

\* request_admin_challenge: strangers get the answer of an admin, and no SMS.
Send(s) ==
  LET u == call[s].form IN
  /\ call[s].at = "send"
  /\ IF isAdmin[u] THEN Go(s, "sms") ELSE Reply(s, AskCode(u))
  /\ UNCHANGED <<account, cookie, scanned, clock, history>>

\* request_challenge delivers a code, or refuses: cooldown, limit, vendor.
SendSms(s) ==
  LET u == call[s].form IN
  /\ call[s].at = "sms"
  /\ \/ /\ usable' = [usable EXCEPT ![u] = TRUE]
        /\ Reply(s, AskCode(u))
     \/ usable' = usable /\ Reply(s, NoSession)
  /\ UNCHANGED <<isAdmin, secret, confirmed, cookie, scanned, clock, history>>

\* _consume_code reads the account; its role is judged on this copy later.
ReadAccount(s) ==
  /\ call[s].at = "account"
  /\ call' = [call EXCEPT ![s].at = "code", ![s].admin = isAdmin[Who(s)]]
  /\ UNCHANGED <<account, cookie, scanned, clock, history>>

UseCode(s) ==
  LET u == Who(s)
      matches == usable[u] /\ call[s].form = "right"
  IN  /\ call[s].at = "code"
      /\ usable' = IF matches THEN [usable EXCEPT ![u] = FALSE] ELSE usable
      /\ IF matches /\ call[s].admin THEN Go(s, "enrolled?")
         ELSE Reply(s, call[s].carried)
      /\ UNCHANGED <<isAdmin, secret, confirmed, cookie, scanned, clock, history>>

Grant(s, held) ==
  /\ grants' = grants \cup {[who |-> Who(s), at |-> clock, held |-> held]}
  /\ Reply(s, SignedIn(Who(s), clock))

\* Mutant: a correct SMS code is all the panel asks for.
AsksTotp_Never(u) == FALSE

AsksTotp(u) == Enrolled(u)

\* has_confirmed_admin_totp after a correct SMS code.
CheckEnrolled(s) ==
  /\ call[s].at = "enrolled?"
  /\ IF AsksTotp(Who(s)) THEN Reply(s, AskTotp(Who(s))) /\ grants' = grants
     ELSE Grant(s, call[s].lapsed)
  /\ UNCHANGED <<account, cookie, scanned, clock, proven>>

\* verify_admin_totp
TotpMatches(u, from) == Enrolled(u) /\ from = secret[u]

\* Mutant: the last attempt allowed is followed by another.
Locked_Late(attempts) == attempts > MaxAttempts

Locked(attempts) == attempts >= MaxAttempts

VerifyTotp(s) ==
  LET u == Who(s)
      attempts == call[s].carried.attempts + 1
  IN  /\ call[s].at = "totp"
      /\ IF TotpMatches(u, call[s].form) THEN Grant(s, Enrolled(u))
         ELSE /\ Reply(s, IF Locked(attempts) THEN NoSession
                          ELSE [call[s].carried EXCEPT !.attempts = attempts])
              /\ grants' = grants
      /\ UNCHANGED <<account, cookie, scanned, clock, proven>>

-----------------------------------------------------------------------------
(* Signed in                                                               *)

\* Mutant: the role in the cookie's day is trusted.
StillAdmin_Trusting(u) == TRUE

\* get_active_admin, on every request.
StillAdmin(u) == isAdmin[u]

Authenticate(s) ==
  /\ call[s].at = "auth"
  /\ IF clock - call[s].carried.iat > Life \/ ~StillAdmin(Who(s))
     THEN Reply(s, NoSession)
     ELSE call' = [call EXCEPT
            ![s].authAt = clock,
            ![s].at = CASE call[s].kind = "page" -> "page"
                        [] call[s].kind = "setup" -> "shown?"
                        [] call[s].kind = "confirm" -> "match"]
  /\ UNCHANGED <<account, cookie, scanned, clock, history>>

\* Any other page of the panel, whatever it does.
Page(s) ==
  /\ call[s].at = "page"
  /\ Reply(s, call[s].carried)
  /\ UNCHANGED <<account, cookie, scanned, clock, history>>

\* GET /security/totp: has_confirmed_admin_totp, then
\* begin_admin_totp_enrollment with its two reads and its write.
CheckShown(s) ==
  /\ call[s].at = "shown?"
  /\ IF Enrolled(Who(s)) THEN Reply(s, call[s].carried) ELSE Go(s, "role")
  /\ UNCHANGED <<account, cookie, scanned, clock, history>>

CheckRole(s) ==
  /\ call[s].at = "role"
  /\ isAdmin[Who(s)]
  /\ Go(s, "existing")
  /\ UNCHANGED <<account, cookie, scanned, clock, history>>

ReadExisting(s) ==
  LET u == Who(s) IN
  /\ call[s].at = "existing"
  /\ ~Enrolled(u)
  /\ IF secret[u] = NoSecret THEN Go(s, "save")
     ELSE call' = [call EXCEPT ![s] = Replying(s, call[s].carried, secret[u])]
  /\ UNCHANGED <<account, cookie, scanned, clock, history>>

\* A secret nobody has seen: generate_secret.
FreshSecrets ==
  {k \in Secrets : /\ \A u \in Admins : k # secret[u] /\ k \notin scanned[u]
                   /\ k \notin proven
                   /\ \A s \in Calls : call[s].shows # k}

SavePending(s) ==
  LET u == Who(s)
      k == CHOOSE k \in FreshSecrets : TRUE
  IN  /\ call[s].at = "save"
      /\ FreshSecrets # {}
      /\ secret' = [secret EXCEPT ![u] = k]
      /\ confirmed' = [confirmed EXCEPT ![u] = FALSE]
      /\ UNCHANGED isAdmin
      /\ call' = Observed([call EXCEPT ![s] = Replying(s, call[s].carried, k)])
      /\ UNCHANGED <<usable, cookie, scanned, clock, history>>

\* POST /security/totp: confirm_admin_totp_enrollment reads the pending secret
\* and compares, then sets the moment by user id.
MatchPending(s) ==
  LET u == Who(s)
      matches == secret[u] # NoSecret /\ ~confirmed[u] /\ call[s].form = secret[u]
  IN  /\ call[s].at = "match"
      /\ proven' = IF matches THEN proven \cup {secret[u]} ELSE proven
      /\ IF matches THEN Go(s, "confirm") ELSE Reply(s, call[s].carried)
      /\ UNCHANGED <<account, cookie, scanned, clock, grants>>

\* A CHECK constraint refuses a confirmation without a secret: the call fails.
Confirm(s) ==
  /\ call[s].at = "confirm"
  /\ secret[Who(s)] # NoSecret
  /\ confirmed' = [confirmed EXCEPT ![Who(s)] = TRUE]
  /\ UNCHANGED <<isAdmin, secret>>
  /\ call' = Observed([call EXCEPT
                ![s] = Replying(s, call[s].carried, NoSecret)])
  /\ UNCHANGED <<usable, cookie, scanned, clock, history>>

-----------------------------------------------------------------------------
(* The operator's script, time                                             *)

SetRole(u, admin) ==
  /\ isAdmin[u] # admin
  /\ isAdmin' = [isAdmin EXCEPT ![u] = admin]
  /\ UNCHANGED <<secret, confirmed>>
  /\ call' = Observed(call)
  /\ UNCHANGED <<usable, cookie, scanned, clock, history>>

ResetTotp(u) ==
  /\ secret[u] # NoSecret
  /\ secret' = [secret EXCEPT ![u] = NoSecret]
  /\ confirmed' = [confirmed EXCEPT ![u] = FALSE]
  /\ UNCHANGED isAdmin
  /\ call' = Observed(call)
  /\ UNCHANGED <<usable, cookie, scanned, clock, history>>

\* The idle timeout of the cookie, and of the SMS code.
Lapse ==
  /\ \/ /\ \E b \in Browsers : cookie[b] # NoSession
                               /\ cookie' = [cookie EXCEPT ![b] = NoSession]
        /\ usable' = usable
     \/ /\ \E u \in Admins : usable[u] /\ usable' = [usable EXCEPT ![u] = FALSE]
        /\ cookie' = cookie
  /\ UNCHANGED <<isAdmin, secret, confirmed, scanned, clock, call, history>>

Tick ==
  /\ clock < MaxTime
  /\ clock' = clock + 1
  /\ UNCHANGED <<account, cookie, scanned, call, history>>

-----------------------------------------------------------------------------
Handle(s) ==
  \/ \E b \in Browsers, kind \in Kinds : Begin(s, b, kind)
  \/ Send(s) \/ SendSms(s) \/ ReadAccount(s) \/ UseCode(s) \/ CheckEnrolled(s)
  \/ VerifyTotp(s) \/ Authenticate(s) \/ Page(s) \/ CheckShown(s) \/ CheckRole(s)
  \/ ReadExisting(s) \/ SavePending(s) \/ MatchPending(s) \/ Confirm(s)
  \/ Deliver(s) \/ Fail(s)

Operate ==
  \E u \in Admins : SetRole(u, TRUE) \/ SetRole(u, FALSE) \/ ResetTotp(u)

Init ==
  /\ isAdmin = [u \in Admins |-> TRUE]
  /\ secret = [u \in Admins |-> NoSecret]
  /\ confirmed = [u \in Admins |-> FALSE]
  /\ usable = [u \in Admins |-> FALSE]
  /\ cookie = [b \in Browsers |-> NoSession]
  /\ scanned = [u \in Admins |-> {}]
  /\ clock = 0
  /\ call = [s \in Calls |-> Idle]
  /\ proven = {} /\ grants = {}

Next == (\E s \in Calls : Handle(s)) \/ Operate \/ Lapse \/ Tick

Spec == Init /\ [][Next]_vars

-----------------------------------------------------------------------------
(* Properties                                                              *)

Sessions == [step : {"none", "code", "totp", "in"}, who : Admins \cup {Nobody},
             attempts : 0..(MaxAttempts - 1), iat : 0..MaxTime]

\* A cookie is one of four kinds, names an account unless it is empty, counts
\* fewer wrong codes than end a sign-in, and does not start in the future; a
\* confirmed account has a secret.
TypeOK ==
  /\ isAdmin \in [Admins -> BOOLEAN] /\ confirmed \in [Admins -> BOOLEAN]
  /\ usable \in [Admins -> BOOLEAN]
  /\ secret \in [Admins -> Secrets \cup {NoSecret}]
  /\ \A u \in Admins : confirmed[u] => secret[u] # NoSecret
  /\ scanned \in [Admins -> SUBSET Secrets]
  /\ cookie \in [Browsers -> Sessions]
  /\ \A b \in Browsers : /\ cookie[b].step = "none" <=> cookie[b].who = Nobody
                         /\ cookie[b].iat <= clock
  /\ clock \in 0..MaxTime
  /\ \A s \in Calls : call[s].session \in Sessions /\ call[s].carried \in Sessions

Authenticated(s) ==
  call[s].at \in {"page", "shown?", "role", "existing", "save", "match", "confirm"}

\* A request that begins after a demotion gets no page of the panel and changes
\* nothing, whatever cookie a late response brought back.
DemotionEndsAccess == \A s \in Calls : Authenticated(s) => call[s].wasAdmin

\* Every page is served within Life of a sign-in of that account, however often
\* responses rewrite the cookie in between.
SignInExpires ==
  \A s \in Calls : Authenticated(s) =>
    \E g \in grants : g.who = Who(s) /\ call[s].authAt - g.at <= Life

\* Every page goes back to a sign-in at the moment its cookie names, and that
\* one was made with all its factors: with the SMS code alone only if the
\* account had no confirmed second factor at some moment of that request, and
\* with a TOTP code only of a secret that was confirmed.
SecondFactorHeld ==
  \A s \in Calls : Authenticated(s) =>
    \E g \in grants : g.who = Who(s) /\ g.at = call[s].carried.iat /\ g.held

\* A page is served on the strength of a sign-in that was made with all its
\* factors and has not ended, whichever response wrote the cookie last.
PagesRestOnSignIns == SignInExpires /\ SecondFactorHeld

\* A second factor that is asked for is one of which the admin has shown a
\* code (app/infrastructure/postgres/models.py:82).
ConfirmedIsProven == \A u \in Admins : Enrolled(u) => secret[u] \in proven
=============================================================================
