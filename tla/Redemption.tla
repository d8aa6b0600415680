----------------------------- MODULE Redemption -----------------------------
(***************************************************************************)
(* Redeeming a printed code (RedemptionService.redeem and the SQL adapters *)
(* it drives), for any number of concurrent requests, PostgreSQL READ      *)
(* COMMITTED.                                                              *)
(*                                                                         *)
(* A request is one HTTP call handled by one of the Requests slots; a slot *)
(* that has answered takes the next call.  Every database statement whose  *)
(* result another actor can influence is a step of its own: the steps of a *)
(* request are the program counters                                        *)
(*                                                                         *)
(*   done -> throttle -> begin -> wallet -> claim -> row -> apply -> commit *)
(*                                             \      \                    *)
(*                                              `------`-> resolve -> record *)
(*                                                                         *)
(* Row locks are not variables: a transaction holds the wallet row of its  *)
(* user from the step after lock_wallet, and the row of its code from the  *)
(* step after a successful claim, until it commits or rolls back.          *)
(***************************************************************************)
EXTENDS Integers, FiniteSetsExt

CONSTANTS
  Users,            \* accounts
  Codes,            \* printed codes that exist in redemption_codes
  Forged,           \* well-formed codes that do not
  Batches,          \* print batches
  Cities,           \* flavors; one campaign per city
  Requests,         \* slots in which requests are handled concurrently
  BatchOf,          \* code -> batch
  CityOf,           \* code -> city
  CoinsOf,          \* batch -> coins_per_code
  DailyLimit,       \* successful redemptions per user and local day
  UnlockThreshold,  \* codes of a flavor that unlock its team
  MaxAttempts,      \* invalid codes per throttle window
  Window,           \* width of the throttle window, in ticks
  DayLength,        \* ticks per local day
  MaxTime,          \* the clock stops here: bound of the model
  PoolSize,         \* connections in the SQLAlchemy pool
  Rules,            \* reward_rules rows an admin may save for first_code
  DefaultBonus,     \* first_code_bonus_coins of the settings
  NoUser, NoCode, NoRule

ASSUME CatalogueAssumption ==
  /\ IsFiniteSet(Codes)
  /\ IsFiniteSet(Requests)
  /\ Codes \cap Forged = {}
  /\ NoUser \notin Users
  /\ NoCode \notin Codes \cup Forged
  /\ BatchOf \in [Codes -> Batches]
  /\ CityOf \in [Codes -> Cities]
  /\ CoinsOf \in [Batches -> Nat]

ASSUME SettingsAssumption ==
  /\ DailyLimit \in Nat
  /\ UnlockThreshold \in Nat \ {0}
  /\ MaxAttempts \in Nat \ {0}
  /\ Window \in Nat
  /\ DayLength \in Nat \ {0}
  /\ MaxTime \in Nat
  /\ PoolSize \in Nat \ {0}
  /\ DefaultBonus \in Nat

ASSUME RulesAssumption ==
  /\ Rules \subseteq [amount : Nat, active : BOOLEAN]
  /\ NoRule \notin Rules

VARIABLES
  redeemedBy,  \* redemption_codes.redeemed_by_user_id, committed
  redeemedAt,  \* redemption_codes.redeemed_at, committed
  status,      \* code_batches.status
  entries,     \* passport_progress.points
  balance,     \* wallets.balance
  ledger,      \* coin_ledger_entries
  rule,        \* the first_code row of reward_rules
  failures,    \* redemption_failures, counted per occurred_at
  clock,
  announced,   \* history: unlock announcements per user and flavor
  pc, user, code,
  now,         \* the moment the request read from the clock
  pay,         \* what the open transaction has decided to award
  reply,       \* the answer to the slot's last request
  seen         \* history: status of the code's batch when the request began

tables == <<redeemedBy, redeemedAt, status, entries, balance, ledger, rule,
            failures, clock, announced>>
vars == <<redeemedBy, redeemedAt, status, entries, balance, ledger, rule,
          failures, clock, announced, pc, user, code, now, pay, reply, seen>>

-----------------------------------------------------------------------------
(* Helpers                                                                 *)

Times == 0..MaxTime
NoPay == [bonus |-> 0, unlocks |-> FALSE]

CoinsFor(c) == CoinsOf[BatchOf[c]]
RedemptionKey(c) == <<"code_redemption", c>>
FirstCodeKey(u) == <<"first_code", u>>
Keys == ({"code_redemption"} \X Codes) \cup ({"first_code"} \X Users)

StartOfLocalDay(t) == t - (t % DayLength)

\* Which committed codes a user owns, optionally with the open claim c.
OwnedBy(u) == {c \in Codes : redeemedBy[c] = u}
RedeemedSince(u, since) == {c \in OwnedBy(u) : redeemedAt[c] >= since}
OfCity(S, k) == {c \in S : CityOf[c] = k}

\* A wallet row is locked from the end of lock_wallet to the end of the
\* transaction, a code row from the claim that updated it.
HoldsWallet(r) == pc[r] \in {"claim", "row", "apply", "commit", "resolve"}
HoldsRow(r) == pc[r] \in {"apply", "commit"}
WalletFree(u) == ~ \E r \in Requests : HoldsWallet(r) /\ user[r] = u
RowFree(c) == ~ \E r \in Requests : HoldsRow(r) /\ code[r] = c

\* Mutant: the failure is recorded, and the throttle read, while the unit of
\* work still holds its connection.
UsesConnection_Nested(r) ==
  pc[r] \in {"wallet", "claim", "row", "apply", "commit", "resolve", "record"}

\* A session checks a connection out with its first statement and returns it
\* when the transaction ends.
UsesConnection(r) == pc[r] = "wallet" \/ HoldsWallet(r)
ConnectionFree ==
  Cardinality({r \in Requests : UsesConnection(r)}) < PoolSize

\* Failures of u that count_in_window sees for a request that read time t.
FailureTimes(t) == {s \in Times : s >= t - Window}
CountInWindow(u, t) == SumFunctionOnSet(failures[u], FailureTimes(t))

BonusAmount ==
  IF rule = NoRule THEN DefaultBonus
  ELSE IF rule.active THEN rule.amount ELSE 0

Recorded(key) == \E e \in ledger : e.key = key

Entry(key, u, amount) == [key |-> key, user |-> u, amount |-> amount]

-----------------------------------------------------------------------------
(* Steps of a request                                                      *)

\* Leaving the `async with` block and answering; whatever the transaction had
\* not committed is rolled back.
Answer(r, answer) ==
  /\ pc' = [pc EXCEPT ![r] = "done"]
  /\ reply' = [reply EXCEPT ![r] = answer]
  /\ user' = [user EXCEPT ![r] = NoUser]
  /\ code' = [code EXCEPT ![r] = NoCode]
  /\ now' = [now EXCEPT ![r] = 0]
  /\ pay' = [pay EXCEPT ![r] = NoPay]
  /\ seen' = [seen EXCEPT ![r] = "none"]

Goto(r, label) ==
  /\ pc' = [pc EXCEPT ![r] = label]
  /\ UNCHANGED <<user, code, now, pay, reply, seen>>

\* redeem() is called with a code that parses, and reads the clock before it
\* asks the database anything.
Start(r, u, c) ==
  /\ pc[r] = "done"
  /\ pc' = [pc EXCEPT ![r] = "throttle"]
  /\ user' = [user EXCEPT ![r] = u]
  /\ code' = [code EXCEPT ![r] = c]
  /\ now' = [now EXCEPT ![r] = clock]
  /\ reply' = [reply EXCEPT ![r] = "none"]
  /\ seen' = [seen EXCEPT ![r] = IF c \in Codes THEN status[BatchOf[c]]
                                                ELSE "none"]
  /\ UNCHANGED <<tables, pay>>

\* Mutant: the count is read but not compared.
CheckThrottle_Ignored(r) ==
  /\ pc[r] = "throttle"
  /\ ConnectionFree
  /\ Goto(r, "begin")
  /\ UNCHANGED tables

\* count_in_window, in a session of its own, under no lock.
CheckThrottle(r) ==
  /\ pc[r] = "throttle"
  /\ ConnectionFree
  /\ \/ /\ CountInWindow(user[r], now[r]) >= MaxAttempts
        /\ Answer(r, "attempts_limited")
     \/ /\ CountInWindow(user[r], now[r]) < MaxAttempts
        /\ Goto(r, "begin")
  /\ UNCHANGED tables

\* The unit of work's first statement takes a connection from the pool.
Begin(r) ==
  /\ pc[r] = "begin"
  /\ ConnectionFree
  /\ Goto(r, "wallet")
  /\ UNCHANGED tables

\* Mutant: SELECT without FOR UPDATE.
LockWallet_Unlocked(r) ==
  /\ pc[r] = "wallet"
  /\ Goto(r, "claim")
  /\ UNCHANGED tables

\* lock_wallet: INSERT .. ON CONFLICT DO NOTHING, then SELECT .. FOR UPDATE.
LockWallet(r) ==
  /\ pc[r] = "wallet"
  /\ WalletFree(user[r])
  /\ Goto(r, "claim")
  /\ UNCHANGED tables

\* The claim UPDATE evaluates its WHERE clause on the snapshot taken when the
\* statement starts: the code unredeemed, its batch active.  A code row that
\* does not qualify is not locked.
Claimable(c) ==
  /\ c \in Codes
  /\ redeemedBy[c] = NoUser
  /\ status[BatchOf[c]] = "active"

ClaimSnapshot(r) ==
  /\ pc[r] = "claim"
  /\ \/ Claimable(code[r]) /\ Goto(r, "row")
     \/ ~Claimable(code[r]) /\ Goto(r, "resolve")
  /\ UNCHANGED tables

\* Mutant: UPDATE without redeemed_at IS NULL.
ClaimRow_Unconditional(r) ==
  /\ pc[r] = "row"
  /\ RowFree(code[r])
  /\ Goto(r, "apply")
  /\ UNCHANGED tables

\* The UPDATE waits for a rival's uncommitted claim of the row and then
\* re-checks redeemed_at on the row's new version; the batch row, which
\* nobody locked, is not read again.
ClaimRow(r) ==
  /\ pc[r] = "row"
  /\ RowFree(code[r])
  /\ \/ redeemedBy[code[r]] = NoUser /\ Goto(r, "apply")
     \/ redeemedBy[code[r]] # NoUser /\ Goto(r, "resolve")
  /\ UNCHANGED tables

\* Mutant: the count is taken from the request's day before.
CountedToday_Yesterday(r) ==
  RedeemedSince(user[r], StartOfLocalDay(now[r]) - DayLength) \cup {code[r]}

\* The user's redemptions since local midnight, the open claim included.
CountedToday(r) ==
  RedeemedSince(user[r], StartOfLocalDay(now[r])) \cup {code[r]}

\* The flavor's lifetime count, the open claim included.
FlavorCodes(r) ==
  OfCity(OwnedBy(user[r]) \cup {code[r]}, CityOf[code[r]])

\* Mutant: the key is not looked up before the bonus is paid.
BonusDue_Unchecked(r) == BonusAmount


BonusDue(r) == IF Recorded(FirstCodeKey(user[r])) THEN 0 ELSE BonusAmount

\* _apply_claim up to the commit.  Everything it reads about the user is
\* stable under the wallet lock; the reward rule is read here once.
Apply(r) ==
  /\ pc[r] = "apply"
  /\ \/ /\ Cardinality(CountedToday(r)) > DailyLimit
        /\ Answer(r, "daily_limit")
     \/ /\ Cardinality(CountedToday(r)) <= DailyLimit
        /\ pc' = [pc EXCEPT ![r] = "commit"]
        /\ pay' = [pay EXCEPT ![r] =
                     [bonus |-> BonusDue(r),
                      unlocks |-> Cardinality(FlavorCodes(r)) = UnlockThreshold]]
        /\ UNCHANGED <<user, code, now, reply, seen>>
  /\ UNCHANGED tables

\* Mutant: a row for every redemption, the ones that pay nothing included.
NewEntries_WithZero(r) ==
  { e \in { Entry(RedemptionKey(code[r]), user[r], CoinsFor(code[r])),
            Entry(FirstCodeKey(user[r]), user[r], pay[r].bonus) } :
      e.amount > 0 \/ e.key = RedemptionKey(code[r]) }

\* Mutant: the bonus is left out of the rows written.
NewEntries_NoBonus(r) ==
  { e \in { Entry(RedemptionKey(code[r]), user[r], CoinsFor(code[r])) } :
      e.amount > 0 }

\* The rows the transaction inserts into the ledger: none for zero coins.
NewEntries(r) ==
  { e \in { Entry(RedemptionKey(code[r]), user[r], CoinsFor(code[r])),
            Entry(FirstCodeKey(user[r]), user[r], pay[r].bonus) } :
      e.amount > 0 }

\* COMMIT.  Claim, entries, ledger rows and balance become visible together.
\* The unique idempotency_key refuses a key that is already there.  The
\* acknowledgement may be lost: the client then sees an error for a
\* redemption that is durable.
Commit(r) ==
  LET u == user[r]
      c == code[r]
      k == CityOf[c]
  IN
  /\ pc[r] = "commit"
  /\ \A e \in NewEntries(r) : ~Recorded(e.key)
  /\ redeemedBy' = [redeemedBy EXCEPT ![c] = u]
  /\ redeemedAt' = [redeemedAt EXCEPT ![c] = now[r]]
  /\ entries' = [entries EXCEPT ![u][k] = @ + 1]
  /\ ledger' = ledger \cup NewEntries(r)
  /\ balance' = [balance EXCEPT ![u] = @ + CoinsFor(c) + pay[r].bonus]
  /\ announced' = [announced EXCEPT ![u][k] =
                     IF pay[r].unlocks THEN @ + 1 ELSE @]
  /\ \E answer \in {"redeemed", "error"} : Answer(r, answer)
  /\ UNCHANGED <<status, rule, failures, clock>>

\* Mutant: a code that could not be claimed is not looked up.
Resolve_Blind(r) ==
  /\ pc[r] = "resolve"
  /\ Goto(r, "record")
  /\ UNCHANGED tables

\* Mutant: the replay adds the entry again.
Resolve_Reapplied(r) ==
  /\ pc[r] = "resolve"
  /\ code[r] \in Codes
  /\ redeemedBy[code[r]] = user[r]
  /\ entries' = [entries EXCEPT ![user[r]][CityOf[code[r]]] = @ + 1]
  /\ Answer(r, "replayed")
  /\ UNCHANGED <<redeemedBy, redeemedAt, status, balance, ledger, rule,
                 failures, clock, announced>>

\* _resolve_unclaimed: lookup is a statement of its own, with its own
\* snapshot.  All three answers leave the block without a commit.
Resolve(r) ==
  /\ pc[r] = "resolve"
  /\ \/ /\ code[r] \in Codes => redeemedBy[code[r]] = NoUser
        /\ Goto(r, "record")
     \/ /\ code[r] \in Codes
        /\ redeemedBy[code[r]] \notin {NoUser, user[r]}
        /\ Answer(r, "already_redeemed")
     \/ /\ code[r] \in Codes
        /\ redeemedBy[code[r]] = user[r]
        /\ Answer(r, "replayed")
  /\ UNCHANGED tables

\* throttle.record, in a new session after the rollback, stamped with the
\* moment the request began.
RecordFailure(r) ==
  /\ pc[r] = "record"
  /\ ConnectionFree
  /\ failures' = [failures EXCEPT ![user[r]][now[r]] = @ + 1]
  /\ Answer(r, "invalid")
  /\ UNCHANGED <<redeemedBy, redeemedAt, status, entries, balance, ledger,
                 rule, clock, announced>>

\* A crash of the process, a dropped connection, a statement or pool timeout,
\* a cancelled request: the transaction, if there is one, rolls back.
Abort(r) ==
  /\ pc[r] # "done"
  /\ Answer(r, "error")
  /\ UNCHANGED tables

-----------------------------------------------------------------------------
(* The other actors                                                        *)

requestVars == <<pc, user, code, now, pay, reply, seen>>

SetStatus(b, from, to) ==
  /\ status[b] \in from
  /\ status' = [status EXCEPT ![b] = to]
  /\ UNCHANGED <<redeemedBy, redeemedAt, entries, balance, ledger, rule,
                 failures, clock, announced, requestVars>>

\* scripts/code_batches.py: a conditional UPDATE committed on its own.
Activate(b) == SetStatus(b, {"generated"}, "active")
Void(b) == SetStatus(b, {"generated", "active"}, "void")

\* An admin saves the first_code row in /admin.  Rows are never deleted.
EditRule(new) ==
  /\ new # rule
  /\ rule' = new
  /\ UNCHANGED <<redeemedBy, redeemedAt, status, entries, balance, ledger,
                 failures, clock, announced, requestVars>>

Tick ==
  /\ clock < MaxTime
  /\ clock' = clock + 1
  /\ UNCHANGED <<redeemedBy, redeemedAt, status, entries, balance, ledger,
                 rule, failures, announced, requestVars>>

-----------------------------------------------------------------------------
(* The specification                                                       *)

Init ==
  /\ redeemedBy = [c \in Codes |-> NoUser]
  /\ redeemedAt = [c \in Codes |-> 0]
  /\ status = [b \in Batches |-> "generated"]
  /\ entries = [u \in Users |-> [k \in Cities |-> 0]]
  /\ balance = [u \in Users |-> 0]
  /\ ledger = {}
  /\ rule = NoRule
  /\ failures = [u \in Users |-> [t \in Times |-> 0]]
  /\ clock = 0
  /\ announced = [u \in Users |-> [k \in Cities |-> 0]]
  /\ pc = [r \in Requests |-> "done"]
  /\ user = [r \in Requests |-> NoUser]
  /\ code = [r \in Requests |-> NoCode]
  /\ now = [r \in Requests |-> 0]
  /\ pay = [r \in Requests |-> NoPay]
  /\ reply = [r \in Requests |-> "none"]
  /\ seen = [r \in Requests |-> "none"]

Handle(r) ==
  \/ CheckThrottle(r)
  \/ Begin(r)
  \/ LockWallet(r)
  \/ ClaimSnapshot(r)
  \/ ClaimRow(r)
  \/ Apply(r)
  \/ Commit(r)
  \/ Resolve(r)
  \/ RecordFailure(r)

Next ==
  \/ \E r \in Requests, u \in Users, c \in Codes \cup Forged : Start(r, u, c)
  \/ \E r \in Requests : Handle(r)
  \/ \E r \in Requests : Abort(r)
  \/ \E b \in Batches : Activate(b)
  \/ \E b \in Batches : Void(b)
  \/ \E new \in Rules : EditRule(new)
  \/ Tick

Spec == Init /\ [][Next]_vars

\* The event loop keeps running a request that can go on, PostgreSQL queues
\* the waiters of a row lock, and the pool serves its waiters in order, so a
\* request that is again and again able to take its next step takes it.
\* Nothing is assumed of clients, admins, crashes or the clock.
Fairness == \A r \in Requests : SF_vars(Handle(r))
FairSpec == Spec /\ Fairness


-----------------------------------------------------------------------------
(* Properties                                                              *)

Labels == {"done", "throttle", "begin", "wallet", "claim", "row", "apply",
           "commit", "resolve", "record"}
Replies == {"none", "redeemed", "replayed", "already_redeemed", "invalid",
            "daily_limit", "attempts_limited", "error"}
Statuses == {"generated", "active", "void"}

\* Every variable keeps its type; a code always has either no owner or one.
TypeOK ==
  /\ redeemedBy \in [Codes -> Users \cup {NoUser}]
  /\ redeemedAt \in [Codes -> Times]
  /\ status \in [Batches -> Statuses]
  /\ entries \in [Users -> [Cities -> Nat]]
  /\ balance \in [Users -> Nat]
  /\ ledger \subseteq [key : Keys, user : Users, amount : Nat \ {0}]
  /\ rule \in Rules \cup {NoRule}
  /\ failures \in [Users -> [Times -> Nat]]
  /\ clock \in Times
  /\ announced \in [Users -> [Cities -> Nat]]
  /\ pc \in [Requests -> Labels]
  /\ user \in [Requests -> Users \cup {NoUser}]
  /\ code \in [Requests -> Codes \cup Forged \cup {NoCode}]
  /\ now \in [Requests -> Times]
  /\ pay \in [Requests -> [bonus : Nat, unlocks : BOOLEAN]]
  /\ reply \in [Requests -> Replies]
  /\ seen \in [Requests -> Statuses \cup {"none"}]

\* A code that has an owner has paid exactly one ledger row, to that owner and
\* for the batch's coins (none when the batch pays none), and a code without
\* an owner has paid nothing: "no code ever pays twice" (ARCHITECTURE.md).
PaidExactlyOnce ==
  \A c \in Codes :
    {e \in ledger : e.key = RedemptionKey(c)} =
      IF redeemedBy[c] # NoUser /\ CoinsFor(c) > 0
      THEN {Entry(RedemptionKey(c), redeemedBy[c], CoinsFor(c))}
      ELSE {}

\* A wallet's balance is the sum of the user's ledger rows: no coin movement
\* without a row, no row without its movement.
BalanceIsLedgerSum ==
  \A u \in Users :
    balance[u] = SumFunctionOnSet([e \in ledger |-> e.amount],
                                  {e \in ledger : e.user = u})

\* A passport holds one entry per code the user redeemed in that city: the
\* claim and the entry are never applied one without the other.
EntriesMatchCodes ==
  \A u \in Users, k \in Cities :
    entries[u][k] = Cardinality(OfCity(OwnedBy(u), k))

\* At most DailyLimit of a user's codes carry a redeemed_at of one local day,
\* however many requests run at once and however long they were delayed
\* between reading the clock and claiming.
DailyCapHolds ==
  \A u \in Users, t \in Times :
    Cardinality({c \in OwnedBy(u) :
                   StartOfLocalDay(redeemedAt[c]) = StartOfLocalDay(t)})
      <= DailyLimit

\* A flavor's unlock is announced exactly once: on the redemption that brings
\* the user to the threshold (unlocks_now compares with =, so a count that
\* jumped over the threshold would lose the announcement).
UnlockAnnouncedOnce ==
  \A u \in Users, k \in Cities :
    announced[u][k] =
      IF Cardinality(OfCity(OwnedBy(u), k)) >= UnlockThreshold THEN 1 ELSE 0

\* The code's own checks, and not the ledger's unique key, keep awards
\* single: no transaction gets to COMMIT with a key that is already recorded.
NoKeyConflict ==
  \A r \in Requests :
    pc[r] = "commit" => \A e \in NewEntries(r) : ~Recorded(e.key)

\* Overshoot of the throttle: the check is not serialized with the record, so
\* the requests in flight may each add one failure past MaxAttempts, and no
\* more.  The window is the one any request of the current moment looks at.
ThrottleBound ==
  \A u \in Users, t \in Times :
    SumFunctionOnSet(failures[u], {s \in FailureTimes(t) : s <= t})
      <= MaxAttempts - 1 + Cardinality(Requests)

\* What an answer says is true at the moment it is given.  INVALID is never
\* told about a code that was redeemable from the start of the request to its
\* end; ALREADY_REDEEMED names a code of another user; a replay names one of
\* the caller's; and a request that began after its batch was voided never
\* succeeds.
Answered(r, answer) ==
  pc[r] # "done" /\ pc'[r] = "done" /\ reply'[r] = answer

HonestAnswer(r) ==
  /\ Answered(r, "invalid") /\ code[r] \in Codes /\ seen[r] = "active"
       => status[BatchOf[code[r]]] = "void"
  /\ Answered(r, "already_redeemed")
       => redeemedBy[code[r]] \notin {NoUser, user[r]}
  /\ Answered(r, "replayed")
       => redeemedBy[code[r]] = user[r] /\ redeemedBy' = redeemedBy
  /\ Answered(r, "redeemed")
       => redeemedBy[code[r]] = NoUser /\ seen[r] # "void"

HonestAnswers == [][\A r \in Requests : HonestAnswer(r)]_vars

\* A request is told DAILY_LIMIT only when the user really owns DailyLimit
\* codes redeemed since the midnight before the request: its own rolled back
\* claim, and claims that are not committed, do not count against it.
DailyLimitIsEarned ==
  [][\A r \in Requests :
       Answered(r, "daily_limit") =>
         Cardinality(RedeemedSince(user[r], StartOfLocalDay(now[r])))
           >= DailyLimit]_vars

\* History is append-only: a redeemed code keeps its owner and its moment,
\* ledger rows stay, entries and balances only grow.
HistoryIsPermanent ==
  [][/\ \A c \in Codes : redeemedBy[c] # NoUser =>
          redeemedBy'[c] = redeemedBy[c] /\ redeemedAt'[c] = redeemedAt[c]
     /\ ledger \subseteq ledger'
     /\ \A u \in Users : balance'[u] >= balance[u]]_vars

\* "void stops every unredeemed code of a batch immediately"
\* (scripts/code_batches.py): no code of a void batch becomes redeemed.
VoidIsImmediate ==
  [][\A c \in Codes : redeemedBy[c] = NoUser /\ redeemedBy'[c] # NoUser =>
       status[BatchOf[c]] = "active"]_vars

\* Every request is answered: no wait for a row lock or for a connection of
\* the pool lasts forever.
EveryRequestAnswered ==
  \A r \in Requests : pc[r] # "done" ~> pc[r] = "done"

\* The welcome bonuses that may be paid.
Bonuses == {0, DefaultBonus} \cup {x.amount : x \in Rules}

\* The accounts as RewardAccounts sees them.
Accounts == INSTANCE RewardAccounts WITH
  owner <- redeemedBy,
  day <- [c \in Codes |-> StartOfLocalDay(redeemedAt[c])],
  coins <- balance,
  welcomed <- {u \in Users : Recorded(FirstCodeKey(u))},
  unlocked <- {x \in Users \X Cities : announced[x[1]][x[2]] > 0},
  Days <- Times,
  Coins <- [c \in Codes |-> CoinsFor(c)]

\* Concurrent, delayed, aborted and repeated requests amount to whole
\* redemptions, one after the other, each within its day's cap.
ImplementsAccounts == Accounts!Spec

=============================================================================
