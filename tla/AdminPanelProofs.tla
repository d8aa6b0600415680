-------------------------- MODULE AdminPanelProofs --------------------------
(***************************************************************************)
(* Theorems about AdminPanel, for any number of admins, browsers, secrets  *)
(* and concurrent requests, every setting and every length of the clock.   *)
(*                                                                         *)
(* Two requests share nothing but the account and the browser's cookie, so *)
(* the invariant speaks of one session and of one call at a time.          *)
(***************************************************************************)
EXTENDS AdminPanel, TLAPS

-----------------------------------------------------------------------------
(* The inductive invariant                                                 *)

Inside == {"page", "shown?", "role", "existing", "save", "match", "confirm"}
Asking == {"account", "code", "enrolled?", "totp"}
Labels == {"idle", "reply", "send", "sms", "auth"} \cup Asking \cup Inside

Records ==
  [at : Labels, kind : Kinds \cup {"none"}, browser : Browsers \cup {Nobody},
   form : Admins \cup {"right", "wrong", "none", NoSecret} \cup Secrets,
   carried : Sessions, session : Sessions, admin : BOOLEAN,
   shows : Secrets \cup {NoSecret}, wasAdmin : BOOLEAN, lapsed : BOOLEAN,
   authAt : 0..MaxTime]

\* A session, in a cookie or on its way, names an account unless it is empty;
\* if it says that somebody is in, there was such a sign-in.
SessionOK(x) ==
  /\ x.step = "none" <=> x.who = Nobody
  /\ x.iat <= clock
  /\ x.step = "in" => \E g \in grants : g.who = x.who /\ g.at = x.iat /\ g.held

\* What the account was at some moment since the call began has been noted.
Noted(c) ==
  c.at \notin {"idle", "reply"} /\ c.carried.who # Nobody =>
    /\ isAdmin[c.carried.who] => c.wasAdmin
    /\ ~Enrolled(c.carried.who) => c.lapsed

\* What holds of a call at each of its steps.
BaseOK(c) ==
  /\ SessionOK(c.carried) /\ SessionOK(c.session)
  /\ c.at # "idle" => c.browser \in Browsers
  /\ c.at \in {"send", "sms"} => c.form \in Admins
  /\ c.at \in Asking => c.carried.who \in Admins
  /\ c.at = "totp" => c.carried.step = "totp"
  /\ c.at \in {"auth"} \cup Inside => c.carried.step = "in"
  /\ c.at = "auth" => c.kind \in {"page", "setup", "confirm"}
  /\ c.at \in Inside => c.wasAdmin /\ c.authAt - c.carried.iat <= Life
  /\ c.shows # NoSecret => c.carried.who \in Admins

CallOK(c) == BaseOK(c) /\ Noted(c)

\* The tables.
Tables ==
  /\ isAdmin \in [Admins -> BOOLEAN] /\ confirmed \in [Admins -> BOOLEAN]
  /\ usable \in [Admins -> BOOLEAN]
  /\ secret \in [Admins -> Secrets \cup {NoSecret}]
  /\ \A u \in Admins : confirmed[u] => secret[u] # NoSecret
  /\ scanned \in [Admins -> SUBSET Secrets]
  /\ cookie \in [Browsers -> Sessions]
  /\ clock \in 0..MaxTime

IInv ==
  /\ Tables
  /\ call \in [Calls -> Records]
  /\ \A b \in Browsers : SessionOK(cookie[b])
  /\ \A s \in Calls : CallOK(call[s])

LEMMA NoSessionOK ==
  NoSession \in Sessions /\ (IInv => SessionOK(NoSession))
<1>1. NoSession \in Sessions
  BY AdminPanelAssumption DEF NoSession, Sessions
<1>2. IInv => SessionOK(NoSession)
  BY DEF NoSession, SessionOK, IInv, Tables
<1> QED
  BY <1>1, <1>2

LEMMA IdleOK == Idle \in Records
  BY NoSessionOK, AdminPanelAssumption DEF Idle, Records, Labels

LEMMA InitIInv == Init => IInv
<1> SUFFICES ASSUME Init PROVE IInv
  OBVIOUS
<1>1. Tables /\ call \in [Calls -> Records]
  BY IdleOK, NoSessionOK, AdminPanelAssumption DEF Init, Tables
<1>2. SessionOK(NoSession)
  BY DEF Init, NoSession, SessionOK
<1>3. CallOK(Idle)
  BY <1>2 DEF CallOK, BaseOK, Idle, Noted, Asking, Inside
<1> QED
  BY <1>1, <1>2, <1>3 DEF Init, IInv

\* An account names an admin unless it is nobody's.
LEMMA WhoType ==
  ASSUME NEW x \in Sessions, SessionOK(x), x.step # "none"
  PROVE  x.who \in Admins
BY DEF SessionOK, Sessions

\* What a session or a call says outlives other calls' steps.
LEMMA Lasting ==
  ASSUME IInv, UNCHANGED <<isAdmin, secret, confirmed>>,
         clock' \in Nat, clock <= clock', grants \subseteq grants'
  PROVE  /\ \A x \in Sessions : SessionOK(x) => SessionOK(x)'
         /\ \A c \in Records : CallOK(c) => CallOK(c)'
<1>1. \A x \in Sessions : SessionOK(x) => SessionOK(x)'
  BY AdminPanelAssumption DEF SessionOK, Sessions, IInv, Tables
<1>2. \A c \in Records : Noted(c) => Noted(c)'
  BY DEF Noted, Enrolled
<1> QED
  BY <1>1, <1>2 DEF CallOK, BaseOK, Records

\* One call moves on; the accounts stay.
LEMMA MoveCall ==
  ASSUME IInv, NEW s \in Calls, NEW x \in Records, CallOK(x)',
         call' = [call EXCEPT ![s] = x],
         UNCHANGED <<isAdmin, secret, confirmed, cookie, scanned, clock>>,
         usable' \in [Admins -> BOOLEAN], grants \subseteq grants'
  PROVE  IInv'
<1>1. Tables' /\ call' \in [Calls -> Records]
  BY DEF IInv, Tables
<1>2. clock' \in Nat /\ clock <= clock'
  BY AdminPanelAssumption DEF IInv, Tables
<1>3. ASSUME NEW b \in Browsers PROVE SessionOK(cookie[b])'
  <2>1. PICK y \in Sessions : y = cookie[b] /\ y = cookie'[b]
    BY DEF IInv, Tables
  <2>2. SessionOK(y)'
    BY <1>2, <2>1, Lasting DEF IInv, SessionOK
  <2> QED
    BY <2>1, <2>2 DEF SessionOK
<1>4. call'[s] = x /\ \A r \in Calls \ {s} : call'[r] = call[r]
  BY DEF IInv, Tables
<1>5. ASSUME NEW r \in Calls PROVE CallOK(call[r])'
  <2>1. PICK c \in Records : c = call'[r] /\ CallOK(c)'
    <3>1. CASE r = s
      BY <1>4, <3>1
    <3>2. CASE r # s
      <4>1. PICK c \in Records : c = call[r]
        BY DEF IInv, Tables
      <4>2. CallOK(c)
        BY <4>1 DEF IInv, CallOK, BaseOK, Noted, SessionOK
      <4> QED
        BY <1>2, <1>4, <3>2, <4>1, <4>2, Lasting
    <3> QED
      BY <3>1, <3>2
  <2> QED
    BY <2>1 DEF CallOK, BaseOK, Noted, SessionOK, Enrolled
<1> QED
  BY <1>1, <1>3, <1>5 DEF IInv

\* The same when no sign-in is completed.
LEMMA StepCall ==
  ASSUME IInv, NEW s \in Calls, NEW x \in Records, CallOK(x),
         call' = [call EXCEPT ![s] = x],
         UNCHANGED <<isAdmin, secret, confirmed, cookie, scanned, clock>>,
         usable' \in [Admins -> BOOLEAN], grants' = grants
  PROVE  IInv'
<1>1. clock' \in Nat /\ clock <= clock'
  BY AdminPanelAssumption DEF IInv, Tables
<1>2. CallOK(x)'
  BY <1>1, Lasting
<1> QED
  BY <1>2, MoveCall

\* A response that is ready carries a session and, perhaps, a secret.
LEMMA ReplyingOK ==
  ASSUME IInv, NEW s \in Calls, call[s].at # "idle",
         NEW session \in Sessions, SessionOK(session),
         NEW k \in Secrets \cup {NoSecret},
         k # NoSecret => call[s].carried.who \in Admins
  PROVE  Replying(s, session, k) \in Records /\ CallOK(Replying(s, session, k))
<1>1. call[s] \in Records /\ CallOK(call[s])
  BY DEF IInv, Tables
<1>2. Replying(s, session, k) \in Records
  BY <1>1, IdleOK, ZenonT(40) DEF Replying, Records, Labels, Idle
<1>3. SessionOK(call[s].carried)
  BY <1>1 DEF CallOK, BaseOK
<1>4. CallOK(Replying(s, session, k))
  BY <1>1, <1>3 DEF CallOK, BaseOK, Replying, Idle, Noted, Asking, Inside
<1> QED
  BY <1>2, <1>4

\* A call that goes on to another step of the same kind.
LEMMA GoOK ==
  ASSUME IInv, NEW s \in Calls, NEW at \in Labels \ {"idle", "reply", "totp"},
         call[s].at \notin {"idle", "reply"},
         at \in {"send", "sms"} => call[s].at \in {"send", "sms"},
         at \in Asking => call[s].at \in Asking,
         at \in {"auth"} \cup Inside => call[s].at \in Inside,
         at # "auth"
  PROVE  /\ [call[s] EXCEPT !.at = at] \in Records
         /\ CallOK([call[s] EXCEPT !.at = at])
<1>1. call[s] \in Records /\ CallOK(call[s])
  BY DEF IInv, Tables
<1> DEFINE x == [call[s] EXCEPT !.at = at]
<1>2. x \in Records
  BY <1>1 DEF Records
<1>3. /\ x.at = at /\ x.carried = call[s].carried /\ x.session = call[s].session
      /\ x.browser = call[s].browser /\ x.form = call[s].form /\ x.kind = call[s].kind
      /\ x.wasAdmin = call[s].wasAdmin /\ x.lapsed = call[s].lapsed
      /\ x.authAt = call[s].authAt /\ x.shows = call[s].shows
  BY <1>1 DEF Records
<1> HIDE DEF x
<1>4. CallOK(x)
  BY <1>1, <1>3 DEF CallOK, BaseOK, Noted
<1> QED
  BY <1>2, <1>4 DEF x

-----------------------------------------------------------------------------
(* Signing in                                                              *)

LEMMA AskOK ==
  ASSUME IInv, NEW u \in Admins
  PROVE  /\ AskCode(u) \in Sessions /\ SessionOK(AskCode(u))
         /\ AskTotp(u) \in Sessions /\ SessionOK(AskTotp(u))
<1>1. 0 <= clock
  BY AdminPanelAssumption DEF IInv, Tables
<1>2. AskCode(u) \in Sessions /\ AskTotp(u) \in Sessions
  BY NoSessionOK DEF AskCode, AskTotp, Sessions
<1>3. /\ AskCode(u).step = "code" /\ AskCode(u).who = u /\ AskCode(u).iat = 0
      /\ AskTotp(u).step = "totp" /\ AskTotp(u).who = u /\ AskTotp(u).iat = 0
  BY DEF AskCode, AskTotp, NoSession
<1> QED
  BY <1>1, <1>2, <1>3, AdminPanelAssumption DEF SessionOK

LEMMA SendStep ==
  ASSUME IInv, NEW s \in Calls, Send(s)
  PROVE  IInv'
<1>1. call[s].form \in Admins /\ usable' \in [Admins -> BOOLEAN]
  BY DEF Send, IInv, CallOK, BaseOK, Tables, account
<1>2. UNCHANGED <<isAdmin, secret, confirmed, cookie, scanned, clock, grants>>
  BY DEF Send, account, history
<1>3. CASE Go(s, "sms")
  <2>1. call' = [call EXCEPT ![s] = [call[s] EXCEPT !.at = "sms"]]
    BY <1>3 DEF Go, IInv, Tables
  <2>2. call[s].at = "send"
    BY DEF Send
  <2> QED
    BY <1>1, <1>2, <2>1, <2>2, GoOK, StepCall DEF Labels, Asking, Inside
<1>4. CASE Reply(s, AskCode(call[s].form))
  BY <1>1, <1>2, <1>4, AskOK, ReplyingOK, StepCall DEF Reply, Send
<1> QED
  BY <1>3, <1>4 DEF Send

LEMMA SendSmsStep ==
  ASSUME IInv, NEW s \in Calls, SendSms(s)
  PROVE  IInv'
<1>1. call[s].form \in Admins /\ usable' \in [Admins -> BOOLEAN]
  BY DEF SendSms, IInv, CallOK, BaseOK, Tables
<1>2. UNCHANGED <<isAdmin, secret, confirmed, cookie, scanned, clock, grants>>
  BY DEF SendSms, history
<1>3. CASE Reply(s, AskCode(call[s].form))
  BY <1>1, <1>2, <1>3, AskOK, ReplyingOK, StepCall DEF Reply, SendSms
<1>4. CASE Reply(s, NoSession)
  BY <1>1, <1>2, <1>4, NoSessionOK, ReplyingOK, StepCall DEF Reply, SendSms
<1> QED
  BY <1>3, <1>4 DEF SendSms

LEMMA ReadAccountStep ==
  ASSUME IInv, NEW s \in Calls, ReadAccount(s)
  PROVE  IInv'
<1> DEFINE x == [call[s] EXCEPT !.at = "code", !.admin = isAdmin[Who(s)]]
<1>1. call[s] \in Records /\ CallOK(call[s]) /\ call[s].at = "account"
  BY DEF ReadAccount, IInv, Tables
<1>2. Who(s) \in Admins
  BY <1>1 DEF Who, CallOK, BaseOK, Asking
<1>3. call' = [call EXCEPT ![s] = x]
  BY DEF ReadAccount, IInv, Tables
<1>4. x \in Records
  BY <1>1, <1>2 DEF Records, Labels, Asking, IInv, Tables
<1>5. /\ x.at = "code" /\ x.carried = call[s].carried /\ x.session = call[s].session
      /\ x.browser = call[s].browser /\ x.shows = call[s].shows
      /\ x.wasAdmin = call[s].wasAdmin /\ x.lapsed = call[s].lapsed
  BY <1>1 DEF Records
<1> HIDE DEF x
<1>6. CallOK(x)
  BY <1>1, <1>5 DEF CallOK, BaseOK, Noted, Asking, Inside
<1>7. /\ UNCHANGED <<isAdmin, secret, confirmed, cookie, scanned, clock, grants>>
      /\ usable' \in [Admins -> BOOLEAN]
  BY DEF ReadAccount, account, history, IInv, Tables
<1> QED
  BY <1>3, <1>4, <1>6, <1>7, StepCall

LEMMA UseCodeStep ==
  ASSUME IInv, NEW s \in Calls, UseCode(s)
  PROVE  IInv'
<1>1. call[s] \in Records /\ CallOK(call[s]) /\ call[s].at = "code"
  BY DEF UseCode, IInv, Tables
<1>2. UNCHANGED <<isAdmin, secret, confirmed, cookie, scanned, clock, grants>>
  BY DEF UseCode, history
<1>3. usable' \in [Admins -> BOOLEAN]
  <2>1. Who(s) \in Admins
    BY <1>1 DEF Who, CallOK, BaseOK, Asking
  <2> QED
    BY <2>1 DEF UseCode, IInv, Tables
<1>4. CASE Go(s, "enrolled?")
  <2>1. call' = [call EXCEPT ![s] = [call[s] EXCEPT !.at = "enrolled?"]]
    BY <1>4 DEF Go, IInv, Tables
  <2> QED
    BY <1>1, <1>2, <1>3, <2>1, GoOK, StepCall DEF Labels, Asking, Inside
<1>5. CASE Reply(s, call[s].carried)
  <2>1. call[s].carried \in Sessions /\ SessionOK(call[s].carried)
    BY <1>1 DEF Records, CallOK, BaseOK
  <2> QED
    BY <1>1, <1>2, <1>3, <1>5, <2>1, ReplyingOK, StepCall DEF Reply
<1> QED
  BY <1>4, <1>5 DEF UseCode

\* A completed sign-in: the grant is in the history, its session on the way.
LEMMA GrantStep ==
  ASSUME IInv, NEW s \in Calls, Grant(s, TRUE), Who(s) \in Admins,
         call[s].at # "idle",
         UNCHANGED <<isAdmin, secret, confirmed, usable, cookie, scanned, clock>>
  PROVE  IInv'
<1>1. call[s] \in Records /\ CallOK(call[s]) /\ clock \in 0..MaxTime
  BY DEF IInv, Tables
<1>2. SignedIn(Who(s), clock) \in Sessions
  BY <1>1, NoSessionOK DEF SignedIn, Sessions
<1>3. PICK x \in Records : x = Replying(s, SignedIn(Who(s), clock), NoSecret)
  BY <1>1, <1>2, IdleOK, ZenonT(40) DEF Replying, Records, Labels, Idle
<1>4. /\ x.at = "reply" /\ x.browser \in Browsers /\ x.shows = NoSecret
      /\ SessionOK(x.carried)
      /\ x.session.step = "in" /\ x.session.who = Who(s) /\ x.session.iat = clock
  BY <1>1, <1>3 DEF Replying, Idle, SignedIn, NoSession, CallOK, BaseOK
<1>5. /\ grants' = grants \cup {[who |-> Who(s), at |-> clock, held |-> TRUE]}
      /\ call' = [call EXCEPT ![s] = x]
  BY <1>3 DEF Grant, Reply
<1>6. x.carried \in Sessions /\ x.session \in Sessions
  BY <1>3 DEF Records
<1>7. SessionOK(x.session)'
  <2>1. [who |-> Who(s), at |-> clock, held |-> TRUE] \in grants'
    BY <1>5
  <2> QED
    BY <1>1, <1>4, <2>1, AdminPanelAssumption DEF SessionOK
<1>8. SessionOK(x.carried)'
  BY <1>1, <1>4, <1>5, <1>6, Lasting, AdminPanelAssumption
<1>9. CallOK(x)'
  BY <1>4, <1>7, <1>8 DEF CallOK, BaseOK, Noted, Asking, Inside
<1>10. usable' \in [Admins -> BOOLEAN]
  BY DEF IInv, Tables
<1> QED
  BY <1>5, <1>9, <1>10, MoveCall

LEMMA CheckEnrolledStep ==
  ASSUME IInv, NEW s \in Calls, CheckEnrolled(s)
  PROVE  IInv'
<1>1. call[s] \in Records /\ CallOK(call[s]) /\ call[s].at = "enrolled?"
  BY DEF CheckEnrolled, IInv, Tables
<1>2. Who(s) \in Admins
  BY <1>1 DEF Who, CallOK, BaseOK, Asking
<1>3. UNCHANGED <<isAdmin, secret, confirmed, usable, cookie, scanned, clock>>
  BY DEF CheckEnrolled, account
<1>4. CASE AsksTotp(Who(s))
  <2>1. Reply(s, AskTotp(Who(s))) /\ grants' = grants /\ usable' \in [Admins -> BOOLEAN]
    BY <1>4, <1>3 DEF CheckEnrolled, IInv, Tables
  <2> QED
    BY <1>1, <1>2, <1>3, <2>1, AskOK, ReplyingOK, StepCall DEF Reply
<1>5. CASE ~AsksTotp(Who(s))
  <2>1. call[s].lapsed = TRUE
    <3>1. Who(s) # Nobody
      BY <1>2, AdminPanelAssumption
    <3>2. call[s].lapsed \in BOOLEAN
      BY <1>1 DEF Records
    <3> QED
      BY <1>1, <1>5, <3>1, <3>2 DEF CallOK, Noted, AsksTotp, Who
  <2>2. Grant(s, TRUE)
    BY <1>5, <2>1 DEF CheckEnrolled
  <2> QED
    BY <1>1, <1>2, <1>3, <2>2, GrantStep
<1> QED
  BY <1>4, <1>5

LEMMA VerifyTotpStep ==
  ASSUME IInv, NEW s \in Calls, VerifyTotp(s)
  PROVE  IInv'
<1>1. call[s] \in Records /\ CallOK(call[s]) /\ call[s].at = "totp"
  BY DEF VerifyTotp, IInv, Tables
<1>2. Who(s) \in Admins
  BY <1>1 DEF Who, CallOK, BaseOK, Asking
<1>3. UNCHANGED <<isAdmin, secret, confirmed, usable, cookie, scanned, clock>>
  BY DEF VerifyTotp, account
<1>4. CASE TotpMatches(Who(s), call[s].form)
  <2>1. Grant(s, Enrolled(Who(s))) /\ Enrolled(Who(s))
    BY <1>4 DEF VerifyTotp, TotpMatches
  <2>2. Enrolled(Who(s)) = TRUE
    BY <1>2, <2>1 DEF Enrolled, IInv, Tables
  <2>3. Grant(s, TRUE)
    BY <2>1, <2>2
  <2> QED
    BY <1>1, <1>2, <1>3, <2>3, GrantStep
<1>5. CASE ~TotpMatches(Who(s), call[s].form)
  <2> DEFINE tries == call[s].carried.attempts + 1
             y == [call[s].carried EXCEPT !.attempts = tries]
  <2>1. grants' = grants /\ usable' \in [Admins -> BOOLEAN]
    BY <1>3, <1>5 DEF VerifyTotp, IInv, Tables
  <2>2. CASE Locked(tries)
    BY <1>1, <1>3, <1>5, <2>1, <2>2, NoSessionOK, ReplyingOK, StepCall DEF VerifyTotp, Reply
  <2>3. CASE ~Locked(tries)
    <3>1. call[s].carried \in Sessions /\ SessionOK(call[s].carried)
      BY <1>1 DEF Records, CallOK, BaseOK
    <3>2. y \in Sessions
      BY <2>3, <3>1, AdminPanelAssumption DEF Sessions, Locked
    <3>3. SessionOK(y)
      BY <1>1, <3>1 DEF SessionOK, Sessions, CallOK, BaseOK
    <3>4. Reply(s, y)
      BY <1>5, <2>3 DEF VerifyTotp
    <3> QED
      BY <1>1, <1>3, <2>1, <3>2, <3>3, <3>4, ReplyingOK, StepCall DEF Reply
  <2> QED
    BY <2>2, <2>3
<1> QED
  BY <1>4, <1>5

-----------------------------------------------------------------------------
(* Signed in                                                               *)

LEMMA AuthenticateStep ==
  ASSUME IInv, NEW s \in Calls, Authenticate(s)
  PROVE  IInv'
<1>1. call[s] \in Records /\ CallOK(call[s]) /\ call[s].at = "auth"
  BY DEF Authenticate, IInv, Tables
<1>2. /\ UNCHANGED <<isAdmin, secret, confirmed, cookie, scanned, clock, grants>>
      /\ usable' \in [Admins -> BOOLEAN]
  BY DEF Authenticate, account, history, IInv, Tables
<1>3. CASE Reply(s, NoSession)
  BY <1>1, <1>2, <1>3, NoSessionOK, ReplyingOK, StepCall DEF Reply
<1>4. CASE ~Reply(s, NoSession)
  <2> DEFINE at == CASE call[s].kind = "page" -> "page"
                     [] call[s].kind = "setup" -> "shown?"
                     [] call[s].kind = "confirm" -> "match"
             x == [call[s] EXCEPT !.authAt = clock, !.at = at]
  <2>1. at \in Inside
    BY <1>1 DEF CallOK, BaseOK, Inside
  <2>2. clock - call[s].carried.iat <= Life /\ StillAdmin(Who(s))
    BY <1>1, <1>4, AdminPanelAssumption
       DEF Authenticate, IInv, Tables, Records, Sessions
  <2>3. call' = [call EXCEPT ![s] = x]
    BY <1>4 DEF Authenticate, IInv, Tables
  <2> HIDE DEF at
  <2>4. x \in Records
    BY <1>1, <2>1 DEF Records, Labels, IInv, Tables
  <2>5. /\ x.at = at /\ x.carried = call[s].carried /\ x.session = call[s].session
        /\ x.browser = call[s].browser /\ x.shows = call[s].shows /\ x.authAt = clock
        /\ x.wasAdmin = call[s].wasAdmin /\ x.lapsed = call[s].lapsed
    BY <1>1 DEF Records
  <2> HIDE DEF x
  <2>6. x.carried.step = "in" /\ x.carried.who # Nobody /\ x.wasAdmin
    BY <1>1, <2>2, <2>5 DEF CallOK, BaseOK, Noted, SessionOK, StillAdmin, Who
  <2>7. CallOK(x)
    BY <1>1, <2>1, <2>2, <2>5, <2>6 DEF CallOK, BaseOK, Noted, Asking, Inside
  <2> QED
    BY <1>2, <2>3, <2>4, <2>7, StepCall
<1> QED
  BY <1>3, <1>4

\* A call inside the panel answers with the session it carried.
LEMMA AnswerInside ==
  ASSUME IInv, NEW s \in Calls, call[s].at \in Inside,
         NEW k \in Secrets \cup {NoSecret}
  PROVE  /\ Who(s) \in Admins /\ isAdmin[Who(s)] \in BOOLEAN
         /\ Replying(s, call[s].carried, k) \in Records
         /\ CallOK(Replying(s, call[s].carried, k))
<1>1. call[s] \in Records /\ CallOK(call[s])
  BY DEF IInv, Tables
<1>2. call[s].carried \in Sessions /\ SessionOK(call[s].carried)
  BY <1>1 DEF Records, CallOK, BaseOK
<1>3. Who(s) \in Admins
  BY <1>1, <1>2, WhoType DEF CallOK, BaseOK, Who
<1> QED
  BY <1>2, <1>3, ReplyingOK DEF Inside, Who, IInv, Tables

\* The pages' steps that only read or go on.
Reading(s) == Page(s) \/ CheckShown(s) \/ CheckRole(s) \/ ReadExisting(s) \/ MatchPending(s)

LEMMA ReadingStep ==
  ASSUME IInv, NEW s \in Calls, Reading(s)
  PROVE  IInv'
<1>1. call[s].at \in Inside
  BY DEF Reading, Page, CheckShown, CheckRole, ReadExisting, MatchPending, Inside
<1>2. /\ UNCHANGED <<isAdmin, secret, confirmed, cookie, scanned, clock, grants>>
      /\ usable' \in [Admins -> BOOLEAN]
  BY DEF Reading, Page, CheckShown, CheckRole, ReadExisting, MatchPending,
     account, history, IInv, Tables
<1>3. ASSUME NEW k \in Secrets \cup {NoSecret},
             call' = [call EXCEPT ![s] = Replying(s, call[s].carried, k)]
      PROVE  IInv'
  BY <1>1, <1>2, <1>3, AnswerInside, StepCall
<1>4. ASSUME NEW at \in Inside, Go(s, at)
      PROVE  IInv'
  <2>1. call' = [call EXCEPT ![s] = [call[s] EXCEPT !.at = at]]
    BY <1>4 DEF Go, IInv, Tables
  <2> QED
    BY <1>1, <1>2, <2>1, GoOK, StepCall DEF Labels, Inside, Asking
<1>5. Who(s) \in Admins
  BY <1>1, AnswerInside
<1> QED
  BY <1>3, <1>4, <1>5
     DEF Reading, Page, CheckShown, CheckRole, ReadExisting, MatchPending,
         Reply, Inside, IInv, Tables

-----------------------------------------------------------------------------
(* What is noted of the calls in flight                                    *)

\* Whatever became of the accounts, Observed has noted it of a call that is
\* otherwise as it should be.
LEMMA ObservedOK ==
  ASSUME Tables', NEW c \in Records, BaseOK(c)', NEW d,
         d = (LET u == c.carried.who IN
              IF c.at \in {"idle", "reply"} \/ u = Nobody THEN c
              ELSE [c EXCEPT !.wasAdmin = @ \/ isAdmin'[u],
                             !.lapsed = @ \/ secret'[u] = NoSecret \/ ~confirmed'[u]])
  PROVE  d \in Records /\ CallOK(d)'
<1> DEFINE u == c.carried.who
<1>1. CASE c.at \in {"idle", "reply"} \/ u = Nobody
  <2>1. d = c
    BY <1>1
  <2> QED
    BY <1>1, <2>1 DEF CallOK, Noted
<1>2. CASE ~(c.at \in {"idle", "reply"} \/ u = Nobody)
  <2>1. c.wasAdmin \in BOOLEAN /\ c.lapsed \in BOOLEAN /\ u \in Admins
    BY <1>2 DEF Records, Sessions
  <2>2. isAdmin'[u] \in BOOLEAN /\ confirmed'[u] \in BOOLEAN
    BY <2>1 DEF Tables
  <2>3. d = [c EXCEPT !.wasAdmin = c.wasAdmin \/ isAdmin'[u],
                      !.lapsed = c.lapsed \/ secret'[u] = NoSecret \/ ~confirmed'[u]]
    BY <1>2
  <2>4. d \in Records
    BY <2>1, <2>2, <2>3 DEF Records
  <2>5. /\ d.wasAdmin <=> c.wasAdmin \/ isAdmin'[u]
        /\ d.lapsed <=> c.lapsed \/ secret'[u] = NoSecret \/ ~confirmed'[u]
        /\ d.at = c.at /\ d.carried = c.carried /\ d.session = c.session
        /\ d.browser = c.browser /\ d.form = c.form /\ d.kind = c.kind
        /\ d.shows = c.shows /\ d.authAt = c.authAt
    BY <2>1, <2>2, <2>3 DEF Records
  <2>6. BaseOK(d)'
    BY <2>5 DEF BaseOK
  <2>7. Noted(d)'
    BY <2>5 DEF Noted, Enrolled
  <2> QED
    BY <2>4, <2>6, <2>7 DEF CallOK
<1> QED
  BY <1>1, <1>2

\* An account changes while the calls go on, but one that may be done.
LEMMA AccountsChange ==
  ASSUME IInv, Tables', UNCHANGED <<cookie, clock, grants>>,
         NEW s \in Calls, NEW x \in Records, BaseOK(x),
         call' = Observed([call EXCEPT ![s] = x])
  PROVE  IInv'
<1>1. ASSUME NEW r \in Calls
      PROVE  call'[r] \in Records /\ CallOK(call[r])'
  <2>1. PICK c \in Records : c = [call EXCEPT ![s] = x][r] /\ BaseOK(c)
    <3>1. CASE r = s
      BY <3>1 DEF IInv
    <3>2. CASE r # s
      BY <3>2 DEF IInv, CallOK, BaseOK, SessionOK
    <3> QED
      BY <3>1, <3>2
  <2>2. BaseOK(c)'
    BY <2>1 DEF BaseOK, SessionOK
  <2>3. PICK d : d = call'[r]
    OBVIOUS
  <2>4. d = (LET u == c.carried.who IN
              IF c.at \in {"idle", "reply"} \/ u = Nobody THEN c
              ELSE [c EXCEPT !.wasAdmin = @ \/ isAdmin'[u],
                             !.lapsed = @ \/ secret'[u] = NoSecret \/ ~confirmed'[u]])
    <3> DEFINE calls == [call EXCEPT ![s] = x]
    <3>1. c = calls[r] /\ call' = Observed(calls)
      BY <2>1
    <3> HIDE DEF calls
    <3>2. call'[r] = (LET u == calls[r].carried.who IN
              IF calls[r].at \in {"idle", "reply"} \/ u = Nobody THEN calls[r]
              ELSE [calls[r] EXCEPT !.wasAdmin = @ \/ isAdmin'[u],
                             !.lapsed = @ \/ secret'[u] = NoSecret \/ ~confirmed'[u]])
      BY <3>1, Zenon DEF Observed
    <3> QED
      BY <2>3, <3>1, <3>2, Zenon
  <2>5. d \in Records /\ CallOK(d)'
    BY <2>2, <2>4, ObservedOK
  <2> QED
    BY <2>3, <2>5, ZenonT(40) DEF CallOK, BaseOK, Noted, SessionOK, Enrolled
<1>2. call' \in [Calls -> Records]
  BY <1>1 DEF Observed
<1>3. \A b \in Browsers : SessionOK(cookie[b])'
  BY DEF IInv, SessionOK
<1> QED
  BY <1>1, <1>2, <1>3 DEF IInv

LEMMA SavePendingStep ==
  ASSUME IInv, NEW s \in Calls, SavePending(s)
  PROVE  IInv'
<1>1. PICK k \in Secrets :
        /\ secret' = [secret EXCEPT ![Who(s)] = k]
        /\ call' = Observed([call EXCEPT ![s] = Replying(s, call[s].carried, k)])
  BY DEF SavePending, FreshSecrets
<1>2. /\ confirmed' = [confirmed EXCEPT ![Who(s)] = FALSE]
      /\ UNCHANGED <<isAdmin, usable, cookie, scanned, clock, grants>>
      /\ call[s].at \in Inside
  BY DEF SavePending, history, Inside
<1>3. /\ Who(s) \in Admins /\ Replying(s, call[s].carried, k) \in Records
      /\ BaseOK(Replying(s, call[s].carried, k))
  BY <1>2, AnswerInside DEF CallOK
<1>4. Tables'
  BY <1>1, <1>2, <1>3 DEF IInv, Tables
<1> QED
  BY <1>1, <1>2, <1>3, <1>4, AccountsChange

LEMMA ConfirmStep ==
  ASSUME IInv, NEW s \in Calls, Confirm(s)
  PROVE  IInv'
<1>1. /\ confirmed' = [confirmed EXCEPT ![Who(s)] = TRUE] /\ secret[Who(s)] # NoSecret
      /\ call' = Observed([call EXCEPT ![s] = Replying(s, call[s].carried, NoSecret)])
      /\ UNCHANGED <<isAdmin, secret, usable, cookie, scanned, clock, grants>>
      /\ call[s].at \in Inside
  BY DEF Confirm, history, Inside
<1>2. /\ Who(s) \in Admins /\ Replying(s, call[s].carried, NoSecret) \in Records
      /\ BaseOK(Replying(s, call[s].carried, NoSecret))
  BY <1>1, AnswerInside DEF CallOK
<1>3. Tables'
  BY <1>1, <1>2 DEF IInv, Tables
<1> QED
  BY <1>1, <1>2, <1>3, AccountsChange

\* The operator's script changes no call; it may as well be seen as one that
\* leaves some call as it is.
LEMMA ScriptStep ==
  ASSUME IInv, NEW u \in Admins, SetRole(u, TRUE) \/ SetRole(u, FALSE) \/ ResetTotp(u)
  PROVE  IInv'
<1>1. Tables'
  BY DEF SetRole, ResetTotp, IInv, Tables
<1>2. UNCHANGED <<cookie, clock, grants>> /\ call' = Observed(call)
  BY DEF SetRole, ResetTotp, history
<1>3. CASE Calls = {}
  BY <1>1, <1>2, <1>3 DEF IInv, Observed, SessionOK
<1>4. ASSUME NEW s \in Calls PROVE IInv'
  <2>1. PICK x \in Records : x = call[s] /\ BaseOK(x)
    BY DEF IInv, CallOK, BaseOK, SessionOK
  <2>2. call = [call EXCEPT ![s] = x]
    BY <2>1 DEF IInv
  <2> QED
    BY <1>1, <1>2, <2>1, <2>2, AccountsChange
<1> QED
  BY <1>3, <1>4

LEMMA BeginStep ==
  ASSUME IInv, NEW s \in Calls, NEW b \in Browsers, NEW kind \in Kinds, Begin(s, b, kind)
  PROVE  IInv'
<1> DEFINE seen == cookie[b]
           left == IF kind = "logout" THEN NoSession ELSE seen
<1>1. UNCHANGED <<isAdmin, secret, confirmed, usable, cookie, scanned, clock, grants>>
  BY DEF Begin, account, history
<1>2. seen \in Sessions /\ SessionOK(seen) /\ left \in Sessions /\ SessionOK(left)
  BY NoSessionOK DEF IInv, Tables
<1>3. PICK form \in Forms(kind, seen.who) :
        call' = Observed([call EXCEPT ![s] =
          [Idle EXCEPT !.at = FirstStep(kind, seen), !.kind = kind, !.browser = b,
                       !.form = form, !.carried = seen, !.session = left]])
  BY DEF Begin
<1> DEFINE y == [Idle EXCEPT !.at = FirstStep(kind, seen), !.kind = kind, !.browser = b,
                             !.form = form, !.carried = seen, !.session = left]
<1>4. form \in Admins \cup {"right", "wrong", "none", NoSecret} \cup Secrets
  <2>1. seen.who # Nobody => scanned[seen.who] \subseteq Secrets
    BY <1>2 DEF IInv, Tables, Sessions
  <2> QED
    BY <2>1 DEF Forms, Kinds
<1>5. /\ FirstStep(kind, seen) \in {"send", "account", "totp", "auth", "reply"}
      /\ FirstStep(kind, seen) = "send" => kind = "send"
      /\ FirstStep(kind, seen) = "account" => seen.step = "code"
      /\ FirstStep(kind, seen) = "totp" => seen.step = "totp"
      /\ FirstStep(kind, seen) = "auth" =>
           seen.step = "in" /\ kind \in {"page", "setup", "confirm"}
  BY DEF FirstStep, Kinds
<1>6. kind = "send" => form \in Admins
  BY DEF Forms
<1> HIDE DEF seen, left
<1>7. y \in Records
  BY <1>2, <1>4, <1>5, IdleOK, ZenonT(40) DEF Records, Labels, Asking
<1>8. /\ y.at = FirstStep(kind, seen) /\ y.kind = kind /\ y.browser = b /\ y.form = form
      /\ y.carried = seen /\ y.session = left /\ y.shows = NoSecret
  BY DEF Idle
<1> HIDE DEF y
<1>9. BaseOK(y)
  <2>1. seen.step # "none" => seen.who \in Admins
    BY <1>2, WhoType
  <2> QED
    BY <1>2, <1>5, <1>6, <1>8, <2>1 DEF BaseOK, Asking, Inside
<1>10. Tables'
  BY <1>1 DEF IInv, Tables
<1>11. call' = Observed([call EXCEPT ![s] = y])
  BY <1>3 DEF y
<1>12. PICK x \in Records : x = y /\ BaseOK(x)
  BY <1>7, <1>9 DEF BaseOK, SessionOK
<1> QED
  BY <1>1, <1>10, <1>11, <1>12, AccountsChange

-----------------------------------------------------------------------------
(* Responses, failures, time                                               *)

LEMMA FailStep ==
  ASSUME IInv, NEW s \in Calls, Fail(s)
  PROVE  IInv'
<1>1. CallOK(Idle)
  BY NoSessionOK DEF CallOK, BaseOK, Idle, Noted, Asking, Inside
<1>2. usable' \in [Admins -> BOOLEAN]
  BY DEF Fail, account, IInv, Tables
<1> QED
  BY <1>1, <1>2, IdleOK, StepCall DEF Fail, account, history

LEMMA DeliverStep ==
  ASSUME IInv, NEW s \in Calls, Deliver(s)
  PROVE  IInv'
<1>1. call[s] \in Records /\ CallOK(call[s]) /\ call[s].at = "reply"
  BY DEF Deliver, IInv, Tables
<1>2. /\ UNCHANGED <<isAdmin, secret, confirmed, usable, clock, grants>>
      /\ call' = [call EXCEPT ![s] = Idle]
  BY DEF Deliver, account, history
<1>3. /\ call[s].browser \in Browsers
      /\ call[s].session \in Sessions /\ SessionOK(call[s].session)
      /\ call[s].shows # NoSecret => call[s].carried.who \in Admins
      /\ call[s].shows \in Secrets \cup {NoSecret}
  BY <1>1 DEF Records, CallOK, BaseOK
<1>4. cookie' = cookie \/ cookie' = [cookie EXCEPT ![call[s].browser] = call[s].session]
  BY DEF Deliver, Rewritten
<1>5. cookie' \in [Browsers -> Sessions] /\ \A b \in Browsers : SessionOK(cookie'[b])
  BY <1>3, <1>4 DEF IInv, Tables
<1>6. scanned' \in [Admins -> SUBSET Secrets]
  BY <1>3 DEF Deliver, IInv, Tables
<1>7. Tables' /\ call' \in [Calls -> Records]
  BY <1>2, <1>5, <1>6, IdleOK DEF IInv, Tables
<1>8. \A b \in Browsers : SessionOK(cookie[b])'
  BY <1>2, <1>5 DEF SessionOK
<1>9. ASSUME NEW r \in Calls PROVE CallOK(call[r])'
  <2>1. CallOK(Idle)
    BY NoSessionOK DEF CallOK, BaseOK, Idle, Noted, Asking, Inside
  <2>2. PICK c : c = call'[r] /\ CallOK(c)
    BY <1>2, <2>1 DEF IInv, CallOK, BaseOK, SessionOK, Noted, Enrolled
  <2> QED
    BY <1>2, <2>2 DEF CallOK, BaseOK, SessionOK, Noted, Enrolled
<1> QED
  BY <1>7, <1>8, <1>9 DEF IInv

\* Nothing happens to the calls.
LEMMA QuietStep ==
  ASSUME IInv, Tables', UNCHANGED <<isAdmin, secret, confirmed, call, grants>>,
         clock' \in Nat, clock <= clock',
         \A b \in Browsers : cookie'[b] = cookie[b] \/ cookie'[b] = NoSession
  PROVE  IInv'
<1>1. ASSUME NEW b \in Browsers PROVE SessionOK(cookie[b])'
  <2>1. PICK x \in Sessions : x = cookie'[b] /\ SessionOK(x)
    BY NoSessionOK DEF IInv, Tables, SessionOK
  <2>2. SessionOK(x)'
    BY <2>1, Lasting
  <2> QED
    BY <2>1, <2>2 DEF SessionOK
<1>2. ASSUME NEW r \in Calls PROVE CallOK(call[r])'
  <2>1. PICK c \in Records : c = call[r] /\ CallOK(c)
    BY DEF IInv, CallOK, BaseOK, SessionOK, Noted
  <2>2. CallOK(c)'
    BY <2>1, Lasting
  <2> QED
    BY <2>1, <2>2 DEF CallOK, BaseOK, SessionOK, Noted, Enrolled
<1> QED
  BY <1>1, <1>2 DEF IInv

LEMMA LapseStep == IInv /\ Lapse => IInv'
<1> SUFFICES ASSUME IInv, Lapse PROVE IInv'
  OBVIOUS
<1>1. Tables'
  BY NoSessionOK DEF Lapse, history, IInv, Tables
<1>2. \A b \in Browsers : cookie'[b] = cookie[b] \/ cookie'[b] = NoSession
  BY DEF Lapse, IInv, Tables
<1>3. clock' \in Nat /\ clock <= clock'
  BY AdminPanelAssumption DEF Lapse, IInv, Tables
<1> QED
  BY <1>1, <1>2, <1>3, QuietStep DEF Lapse, history

LEMMA TickStep == IInv /\ Tick => IInv'
<1> SUFFICES ASSUME IInv, Tick PROVE IInv'
  OBVIOUS
<1>1. Tables'
  BY AdminPanelAssumption DEF Tick, account, history, IInv, Tables
<1>2. clock' \in Nat /\ clock <= clock'
  BY AdminPanelAssumption DEF Tick, IInv, Tables
<1> QED
  BY <1>1, <1>2, QuietStep DEF Tick, account, history

-----------------------------------------------------------------------------
(* The invariant, and the theorems                                         *)

LEMMA StepIInv == IInv /\ [Next]_vars => IInv'
<1> SUFFICES ASSUME IInv, [Next]_vars PROVE IInv'
  OBVIOUS
<1>1. ASSUME NEW s \in Calls, Handle(s) PROVE IInv'
  BY <1>1, BeginStep, SendStep, SendSmsStep, ReadAccountStep, UseCodeStep,
     CheckEnrolledStep, VerifyTotpStep, AuthenticateStep, ReadingStep,
     SavePendingStep, ConfirmStep, DeliverStep, FailStep
     DEF Handle, Reading
<1>2. CASE Operate
  BY <1>2, ScriptStep DEF Operate
<1>3. CASE UNCHANGED vars
  <2>1. Tables'
    BY <1>3 DEF vars, IInv, Tables
  <2>2. clock' \in Nat /\ clock <= clock'
    BY <1>3, AdminPanelAssumption DEF vars, IInv, Tables
  <2> QED
    BY <1>3, <2>1, <2>2, QuietStep DEF vars
<1> QED
  BY <1>1, <1>2, <1>3, LapseStep, TickStep DEF Next

LEMMA AlwaysIInv == Spec => []IInv
  BY InitIInv, StepIInv, PTL DEF Spec

\* Accounts, cookies and the sessions on their way keep their types; a
\* confirmed account has a secret (models.py's CHECK constraint).
THEOREM TypesHold == Spec => []TypeOK
<1>1. IInv => TypeOK
  BY DEF IInv, Tables, TypeOK, CallOK, BaseOK, SessionOK, Records
<1> QED
  BY <1>1, AlwaysIInv, PTL

\* A request that begins after the demotion gets no page and changes nothing,
\* however late a response brings an old cookie back (get_active_admin).
THEOREM DemotionEnds == Spec => []DemotionEndsAccess
<1>1. IInv => DemotionEndsAccess
  BY DEF IInv, DemotionEndsAccess, Authenticated, CallOK, BaseOK, Inside
<1> QED
  BY <1>1, AlwaysIInv, PTL

\* Every page rests on a sign-in of that account that has not ended and asked
\* for the second factor if there was one (PhoneSignInBackend.authenticate,
\* verify_admin_totp).
THEOREM PagesRest == Spec => []PagesRestOnSignIns
<1>1. IInv => PagesRestOnSignIns
  <2> SUFFICES ASSUME IInv, NEW s \in Calls, Authenticated(s)
               PROVE  \E g \in grants :
                        /\ g.who = Who(s) /\ g.at = call[s].carried.iat /\ g.held
                        /\ call[s].authAt - g.at <= Life
    BY DEF PagesRestOnSignIns, SignInExpires, SecondFactorHeld
  <2> QED
    BY DEF IInv, Authenticated, CallOK, BaseOK, Inside, SessionOK, Who
<1> QED
  BY <1>1, AlwaysIInv, PTL

=============================================================================
