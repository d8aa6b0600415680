------------------------------- MODULE SignIn -------------------------------
(***************************************************************************)
(* Player sign-in by SMS code and the sessions it opens                    *)
(* (AuthenticationService with its PostgreSQL repositories), for any       *)
(* number of concurrent calls.                                             *)
(*                                                                         *)
(* Unlike a redemption, a sign-in call is not one transaction: every       *)
(* repository method opens a session of its own, commits and closes it.    *)
(* So nothing a call has read is still true at its next step, and a crash  *)
(* leaves the steps before it done:                                        *)
(*                                                                         *)
(*   request: find -> create -> cooldown -> limit -> send -> persist       *)
(*   verify:  account -> active -> wrong                                   *)
(*                             `-> consume -> verified -> open             *)
(*   me:      token -> user -> touch                                       *)
(*                                                                         *)
(* A challenge stands for its code too: the code a player types matches    *)
(* challenge c exactly when it is c.                                       *)
(***************************************************************************)
EXTENDS Integers, FiniteSetsExt

CONSTANTS
  Phones,        \* phone numbers that pass every check of their form
  Challenges,    \* ids (and codes) that may be generated: bound of the model
  Tokens,        \* session tokens that may be generated: bound of the model
  Calls,         \* slots in which calls are handled concurrently
  Ttl,           \* life of a code
  SessionTtl,    \* life of a session
  Cooldown,      \* resend_cooldown
  Day,           \* 24 hours
  DailyLimit,    \* codes per number in the last 24 hours
  MaxAttempts,   \* wrong codes per challenge
  MaxTime,       \* the clock stops here: bound of the model
  Wrong,         \* a code that matches no challenge
  NoPhone, NoChallenge, NoToken

ASSUME SignInAssumption ==
  /\ IsFiniteSet(Challenges)
  /\ IsFiniteSet(Calls)
  /\ NoPhone \notin Phones
  /\ Wrong \notin Challenges
  /\ NoChallenge \notin Challenges \cup {Wrong}
  /\ NoToken \notin Tokens
  /\ {Ttl, SessionTtl, Cooldown, Day, MaxTime} \subseteq Nat
  /\ {DailyLimit, MaxAttempts} \subseteq Nat \ {0}

VARIABLES
  account,   \* users: "absent", "active" or "inactive"
  verified,  \* users.verification_status = VERIFIED
  owner,     \* challenge -> the phone it was stored for
  created,   \* challenge -> created_at
  attempts,  \* challenge -> wrong codes counted
  consumed,  \* challenge -> consumed_at is set
  sent,      \* codes that reached their phone
  holder,    \* token -> the phone whose session it is
  born,      \* token -> created_at of the session
  revoked,   \* token -> revoked_at is set
  clock,
  call,      \* what each slot is doing
  opened,    \* history: token -> the code that opened the session
  refused    \* history: the slot's token was no longer good when its call began

tables == <<account, verified, owner, created, attempts, consumed, sent,
            holder, born, revoked, opened>>
vars == <<tables, clock, call, refused>>

Times == 0..MaxTime

\* served: the slot's last call got what it asked for; every refusal and every
\* error is the same to the properties.
Idle(served) ==
  [at |-> "idle", phone |-> NoPhone, now |-> 0, code |-> NoChallenge,
   challenge |-> NoChallenge, known |-> FALSE, token |-> NoToken,
   served |-> served]

-----------------------------------------------------------------------------
(* What the repositories read                                              *)

Of(p) == {c \in Challenges : owner[c] = p}

\* ORDER BY created_at DESC LIMIT 1: ties are broken freely.
Newest(C) == {c \in C : \A d \in C : created[d] <= created[c]}

\* get_active_for_user: unconsumed, unexpired.
Active(p, t) == {c \in Of(p) : ~consumed[c] /\ created[c] + Ttl > t}

\* A token that get_active_by_token_hash finds, of an active account.
Alive(t, now) ==
  /\ holder[t] # NoPhone
  /\ ~revoked[t]
  /\ born[t] + SessionTtl > now
Good(t) == Alive(t, clock) /\ account[holder[t]] = "active"

-----------------------------------------------------------------------------
(* Steps of a call                                                         *)

Serve(r) == call' = [call EXCEPT ![r] = Idle(TRUE)]
Refuse(r) == call' = [call EXCEPT ![r] = Idle(FALSE)]
Goto(r, label) == call' = [call EXCEPT ![r].at = label]

Begin(r, label, p, code, t) ==
  /\ call[r].at = "idle"
  /\ call' = [call EXCEPT ![r] =
                [Idle(FALSE) EXCEPT !.at = label, !.phone = p, !.now = clock,
                                     !.code = code, !.token = t]]
  /\ UNCHANGED <<tables, clock>>

\* request_challenge: the clock is read before anything else.
RequestCode(r, p) ==
  /\ Begin(r, "find", p, NoChallenge, NoToken)
  /\ refused' = [refused EXCEPT ![r] = FALSE]

Find(r) ==
  LET p == call[r].phone IN
  /\ call[r].at = "find"
  /\ \/ account[p] = "absent" /\ Goto(r, "create")
     \/ account[p] = "inactive" /\ Serve(r)
     \/ account[p] = "active" /\ Goto(r, "cooldown")
  /\ UNCHANGED <<tables, clock, refused>>

\* create: a rival that created the user first makes the INSERT fail on the
\* unique identifier, and the user it created is used.
Create(r) ==
  LET p == call[r].phone IN
  /\ call[r].at = "create"
  /\ account' = [account EXCEPT ![p] = IF @ = "absent" THEN "active" ELSE @]
  /\ Goto(r, "cooldown")
  /\ UNCHANGED <<verified, owner, created, attempts, consumed, sent, holder,
                 born, revoked, opened, clock, refused>>

\* Mutant: a challenge that was used no longer counts.
LastCreated_Unused(p) == Newest({c \in Of(p) : ~consumed[c]})

\* get_most_recent_for_user
LastCreated(p) == Newest(Of(p))

CheckCooldown(r) ==
  LET hot == \E c \in LastCreated(call[r].phone) :
               call[r].now - created[c] < Cooldown
  IN
  /\ call[r].at = "cooldown"
  /\ \/ hot /\ Refuse(r)
     \/ ~hot /\ Goto(r, "limit")
  /\ UNCHANGED <<tables, clock, refused>>

\* Mutant: only unconsumed challenges are counted.
CreatedSince_Unconsumed(p, t) ==
  {c \in Of(p) : created[c] >= t /\ ~consumed[c]}

\* count_created_since
CreatedSince(p, t) == {c \in Of(p) : created[c] >= t}

CheckLimit(r) ==
  LET used == Cardinality(CreatedSince(call[r].phone, call[r].now - Day)) IN
  /\ call[r].at = "limit"
  /\ \/ used >= DailyLimit /\ Refuse(r)
     \/ used < DailyLimit /\ Goto(r, "send")
  /\ UNCHANGED <<tables, clock, refused>>

\* Ids and codes are random: no two challenges share one.
Fresh(c) ==
  /\ owner[c] = NoPhone
  /\ c \notin sent
  /\ \A r \in Calls : call[r].challenge # c

\* Mutant: stored first, then sent.
Send_AfterPersist(r) ==
  /\ call[r].at = "send"
  /\ \E c \in Challenges :
       /\ Fresh(c)
       /\ owner' = [owner EXCEPT ![c] = call[r].phone]
       /\ created' = [created EXCEPT ![c] = call[r].now]
       /\ sent' \in {sent, sent \cup {c}}
       /\ (IF c \in sent' THEN Serve(r) ELSE Refuse(r))
  /\ UNCHANGED <<account, verified, attempts, consumed, holder, born, revoked,
                 opened, clock, refused>>

\* The SMS goes out before the challenge is stored.  The vendor may fail,
\* and may deliver a message whose delivery it then reports as failed.
Send(r) ==
  /\ call[r].at = "send"
  /\ \E c \in Challenges :
       /\ Fresh(c)
       /\ \/ /\ sent' = sent \cup {c}
             /\ call' = [call EXCEPT ![r].at = "persist", ![r].challenge = c]
          \/ sent' \in {sent, sent \cup {c}} /\ Refuse(r)
  /\ UNCHANGED <<account, verified, owner, created, attempts, consumed,
                 holder, born, revoked, opened, clock, refused>>

\* Mutant: expires_at is written where created_at belongs.
Persist_Expiry(r) ==
  LET c == call[r].challenge IN
  /\ call[r].at = "persist"
  /\ owner' = [owner EXCEPT ![c] = call[r].phone]
  /\ created' = [created EXCEPT ![c] = call[r].now + Ttl]
  /\ Serve(r)
  /\ UNCHANGED <<account, verified, attempts, consumed, sent, holder, born,
                 revoked, opened, clock, refused>>

Persist(r) ==
  LET c == call[r].challenge IN
  /\ call[r].at = "persist"
  /\ owner' = [owner EXCEPT ![c] = call[r].phone]
  /\ created' = [created EXCEPT ![c] = call[r].now]
  /\ Serve(r)
  /\ UNCHANGED <<account, verified, attempts, consumed, sent, holder, born,
                 revoked, opened, clock, refused>>

\* verify_challenge with a code that reached some phone, or a wrong one.
EnterCode(r, p, code) ==
  /\ Begin(r, "account", p, code, NoToken)
  /\ refused' = [refused EXCEPT ![r] = FALSE]

ReadAccount(r) ==
  LET p == call[r].phone IN
  /\ call[r].at = "account"
  /\ \/ account[p] # "active" /\ Refuse(r)
     \/ /\ account[p] = "active"
        /\ call' = [call EXCEPT ![r].at = "active", ![r].known = verified[p]]
  /\ UNCHANGED <<tables, clock, refused>>

\* Mutant: attempts are not compared when the challenge is read.
PickChallenge_Unlimited(r) ==
  LET C == Active(call[r].phone, call[r].now) IN
  /\ call[r].at = "active"
  /\ \/ C = {} /\ Refuse(r)
     \/ \E c \in Newest(C) :
          call' = [call EXCEPT ![r].challenge = c,
                     ![r].at = IF call[r].code = c THEN "consume" ELSE "wrong"]
  /\ UNCHANGED <<tables, clock, refused>>

\* The newest active challenge is read, its attempts are compared and the
\* code is hashed with its salt, all on that one copy.
PickChallenge(r) ==
  LET C == Active(call[r].phone, call[r].now) IN
  /\ call[r].at = "active"
  /\ \/ C = {} /\ Refuse(r)
     \/ \E c \in Newest(C) : attempts[c] >= MaxAttempts /\ Refuse(r)
     \/ \E c \in Newest(C) :
          /\ attempts[c] < MaxAttempts
          /\ call' = [call EXCEPT ![r].challenge = c,
                       ![r].at = IF call[r].code = c THEN "consume" ELSE "wrong"]
  /\ UNCHANGED <<tables, clock, refused>>

\* increment_attempts
CountWrong(r) ==
  /\ call[r].at = "wrong"
  /\ attempts' = [attempts EXCEPT ![call[r].challenge] = @ + 1]
  /\ Refuse(r)
  /\ UNCHANGED <<account, verified, owner, created, consumed, sent, holder,
                 born, revoked, opened, clock, refused>>

\* The WHERE clause of consume_if_matching.
Consumable_Twice(c, t) == created[c] + Ttl > t /\ attempts[c] < MaxAttempts

Consumable(c, t) ==
  /\ ~consumed[c]
  /\ created[c] + Ttl > t
  /\ attempts[c] < MaxAttempts

\* consume_if_matching: one conditional UPDATE; the loser of a race is told
\* that no row matched.  Whether the account still has to be marked verified
\* was read two statements ago.
Consume(r) ==
  LET c == call[r].challenge IN
  /\ call[r].at = "consume"
  /\ \/ /\ Consumable(c, call[r].now)
        /\ consumed' = [consumed EXCEPT ![c] = TRUE]
        /\ Goto(r, IF call[r].known THEN "open" ELSE "verified")
     \/ /\ ~Consumable(c, call[r].now)
        /\ Refuse(r)
        /\ UNCHANGED consumed
  /\ UNCHANGED <<account, verified, owner, created, attempts, sent, holder,
                 born, revoked, opened, clock, refused>>

MarkVerified(r) ==
  /\ call[r].at = "verified"
  /\ verified' = [verified EXCEPT ![call[r].phone] = TRUE]
  /\ Goto(r, "open")
  /\ UNCHANGED <<account, owner, created, attempts, consumed, sent, holder,
                 born, revoked, opened, clock, refused>>

OpenSession(r) ==
  /\ call[r].at = "open"
  /\ \E t \in Tokens :
       /\ holder[t] = NoPhone
       /\ holder' = [holder EXCEPT ![t] = call[r].phone]
       /\ born' = [born EXCEPT ![t] = call[r].now]
       /\ opened' = [opened EXCEPT ![t] = call[r].challenge]
  /\ Serve(r)
  /\ UNCHANGED <<account, verified, owner, created, attempts, consumed, sent,
                 revoked, clock, refused>>

\* get_current_user
Present(r, t) ==
  /\ holder[t] # NoPhone
  /\ Begin(r, "token", NoPhone, NoChallenge, t)
  /\ refused' = [refused EXCEPT ![r] = ~Good(t)]

ReadSession(r) ==
  LET t == call[r].token IN
  /\ call[r].at = "token"
  /\ \/ ~Alive(t, call[r].now) /\ Refuse(r)
     \/ /\ Alive(t, call[r].now)
        /\ call' = [call EXCEPT ![r].at = "user", ![r].phone = holder[t]]
  /\ UNCHANGED <<tables, clock, refused>>

\* Mutant: the account behind the session is not read again.
ReadUser_Trusting(r) ==
  /\ call[r].at = "user"
  /\ Goto(r, "touch")
  /\ UNCHANGED <<tables, clock, refused>>

ReadUser(r) ==
  /\ call[r].at = "user"
  /\ \/ account[call[r].phone] # "active" /\ Refuse(r)
     \/ account[call[r].phone] = "active" /\ Goto(r, "touch")
  /\ UNCHANGED <<tables, clock, refused>>

\* Mutant: touch writes back the whole row it read.
Touch_WholeRow(r) ==
  /\ call[r].at = "touch"
  /\ revoked' = [revoked EXCEPT ![call[r].token] = FALSE]
  /\ Serve(r)
  /\ UNCHANGED <<account, verified, owner, created, attempts, consumed, sent,
                 holder, born, opened, clock, refused>>

\* touch sets last_used_at, which nothing reads, and no other column.
Touch(r) ==
  /\ call[r].at = "touch"
  /\ Serve(r)
  /\ UNCHANGED <<tables, clock, refused>>

\* A crash or a failed statement: what is committed stays.
Fail(r) ==
  /\ call[r].at # "idle"
  /\ Refuse(r)
  /\ UNCHANGED <<tables, clock, refused>>

-----------------------------------------------------------------------------
(* The other actors                                                        *)

\* logout is a single conditional UPDATE.
Logout(t) ==
  /\ holder[t] # NoPhone
  /\ ~revoked[t]
  /\ revoked' = [revoked EXCEPT ![t] = TRUE]
  /\ UNCHANGED <<account, verified, owner, created, attempts, consumed, sent,
                 holder, born, opened, clock, call, refused>>

\* An account is made inactive by an operator, directly in the database.
Deactivate(p) ==
  /\ account[p] = "active"
  /\ account' = [account EXCEPT ![p] = "inactive"]
  /\ UNCHANGED <<verified, owner, created, attempts, consumed, sent, holder,
                 born, revoked, opened, clock, call, refused>>

Tick ==
  /\ clock < MaxTime
  /\ clock' = clock + 1
  /\ UNCHANGED <<tables, call, refused>>

-----------------------------------------------------------------------------
(* The specification                                                       *)

Init ==
  /\ account = [p \in Phones |-> "absent"]
  /\ verified = [p \in Phones |-> FALSE]
  /\ owner = [c \in Challenges |-> NoPhone]
  /\ created = [c \in Challenges |-> 0]
  /\ attempts = [c \in Challenges |-> 0]
  /\ consumed = [c \in Challenges |-> FALSE]
  /\ sent = {}
  /\ holder = [t \in Tokens |-> NoPhone]
  /\ born = [t \in Tokens |-> 0]
  /\ revoked = [t \in Tokens |-> FALSE]
  /\ clock = 0
  /\ call = [r \in Calls |-> Idle(FALSE)]
  /\ opened = [t \in Tokens |-> NoChallenge]
  /\ refused = [r \in Calls |-> FALSE]

Handle(r) ==
  \/ Find(r)
  \/ Create(r)
  \/ CheckCooldown(r)
  \/ CheckLimit(r)
  \/ Send(r)
  \/ Persist(r)
  \/ ReadAccount(r)
  \/ PickChallenge(r)
  \/ CountWrong(r)
  \/ Consume(r)
  \/ MarkVerified(r)
  \/ OpenSession(r)
  \/ ReadSession(r)
  \/ ReadUser(r)
  \/ Touch(r)

Next ==
  \/ \E r \in Calls, p \in Phones : RequestCode(r, p)
  \/ \E r \in Calls, p \in Phones, code \in sent \cup {Wrong} :
       EnterCode(r, p, code)
  \/ \E r \in Calls, t \in Tokens : Present(r, t)
  \/ \E r \in Calls : Handle(r)
  \/ \E r \in Calls : Fail(r)
  \/ \E t \in Tokens : Logout(t)
  \/ \E p \in Phones : Deactivate(p)
  \/ Tick

Spec == Init /\ [][Next]_vars

-----------------------------------------------------------------------------
(* Properties                                                              *)

Labels == {"idle", "find", "create", "cooldown", "limit", "send", "persist",
           "account", "active", "wrong", "consume", "verified", "open",
           "token", "user", "touch"}

\* Every variable keeps its type.
TypeOK ==
  /\ account \in [Phones -> {"absent", "active", "inactive"}]
  /\ verified \in [Phones -> BOOLEAN]
  /\ owner \in [Challenges -> Phones \cup {NoPhone}]
  /\ created \in [Challenges -> Times]
  /\ attempts \in [Challenges -> Nat]
  /\ consumed \in [Challenges -> BOOLEAN]
  /\ sent \subseteq Challenges
  /\ holder \in [Tokens -> Phones \cup {NoPhone}]
  /\ born \in [Tokens -> Times]
  /\ revoked \in [Tokens -> BOOLEAN]
  /\ clock \in Times
  /\ call \in [Calls -> [at : Labels, phone : Phones \cup {NoPhone},
                         now : Times,
                         code : Challenges \cup {Wrong, NoChallenge},
                         challenge : Challenges \cup {NoChallenge},
                         known : BOOLEAN, token : Tokens \cup {NoToken},
                         served : BOOLEAN]]
  /\ opened \in [Tokens -> Challenges \cup {NoChallenge}]
  /\ refused \in [Calls -> BOOLEAN]

\* Each session was opened by a code that was delivered, stored for that very
\* phone and used up, for an account that is verified; no other session was
\* opened by the same code, however many verify calls raced for it.
SessionsAreEarned ==
  \A t \in Tokens : holder[t] # NoPhone =>
    /\ opened[t] \in sent
    /\ owner[opened[t]] = holder[t]
    /\ consumed[opened[t]]
    /\ verified[holder[t]]
    /\ \A u \in Tokens \ {t} : opened[u] # opened[t]

\* "A delivery failure must not start the resend cooldown or count against
\* the daily limit for a code the user never received": whatever is stored
\* was delivered.
StoredWasDelivered ==
  \A c \in Challenges : owner[c] # NoPhone => c \in sent

\* The attempts of a code overshoot their limit by no more than the calls
\* that had read the row before the last one was counted.
AttemptsBound ==
  \A c \in Challenges : attempts[c] <= MaxAttempts - 1 + Cardinality(Calls)

\* Check and insert are separate transactions, so concurrent calls may each
\* pass the cooldown; but no window of one cooldown holds more codes of a
\* phone than there are calls in flight.
CooldownBound ==
  \A p \in Phones, t \in Times :
    Cardinality({c \in Of(p) : created[c] > t - Cooldown /\ created[c] <= t})
      <= Cardinality(Calls)

\* The same for 24 hours: the limit, and one more per call in flight but one.
DailyBound ==
  \A p \in Phones, t \in Times :
    Cardinality({c \in Of(p) : created[c] >= t - Day /\ created[c] <= t})
      <= DailyLimit - 1 + Cardinality(Calls)

\* Every limit of a sign-in is overshot by at most the calls in flight, and
\* never without bound: wrong codes, resends and codes a day, each checked in
\* another transaction than the one that counts it.
LimitsOvershootByCalls == AttemptsBound /\ CooldownBound /\ DailyBound

\* A call that begins after its session was revoked or had expired, or after
\* its account became inactive, is never let in.
LetIn(r) == call[r].at = "touch" /\ call'[r] = Idle(TRUE)

NoEntryOnceRefused ==
  [][\A r \in Calls : LetIn(r) => ~refused[r]]_vars

\* Signing out is final, a used code stays used, and a stored challenge keeps
\* its phone and its age, whatever late steps of other calls write.
NothingComesBack ==
  [][/\ \A t \in Tokens : revoked[t] => revoked'[t]
     /\ \A c \in Challenges : consumed[c] => consumed'[c]
     /\ \A c \in Challenges : owner[c] # NoPhone =>
          owner'[c] = owner[c] /\ created'[c] = created[c]]_vars

\* What has ended stays ended: a session signed out, expired or blocked lets no
\* later call in, and nothing that was used up or stored is undone.
RefusedForGood == NoEntryOnceRefused /\ NothingComesBack

\* "60 s cooldown before a new code" (SECURITY.md): two stored codes of one
\* phone are at least a cooldown apart.
CooldownHolds ==
  \A p \in Phones : \A c, d \in Of(p) :
    c # d => created[c] - created[d] >= Cooldown
             \/ created[d] - created[c] >= Cooldown
=============================================================================
