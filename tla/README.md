# Lottery Passport: specifications, model checking and proofs

Lottery Passport is a FastAPI and PostgreSQL service. A player buys a pack,
finds a printed code in it, redeems the code and gets an entry in a city's
draw, coins, teams, challenges and badges. This directory holds TLA+
specifications of its core logic, translated from the Python and SQL code,
the TLC configurations that check them and the TLAPS proofs about them.

## Inventory

State is kept in PostgreSQL, with four exceptions: the rate limiter's
deques and the leaderboard cache in each process, the admin panel's signed
cookie, and the files that the print-run and backup scripts write. Transactions run at READ COMMITTED.

| Component | State | Operations | What is hard | What makes it correct |
|---|---|---|---|---|
| Code redemption (`redemption_codes.py`, `unit_of_work.py`) | code rows, batches, wallets, ledger, passport entries, failures | redeem; activate, void (`code_batches.py`); edit a reward rule | concurrent requests, stale clock and snapshots, crash, lost answer and retry, pool | a code pays once; books balance; daily cap; one unlock per flavor; true answers |
| Failure throttle | failure rows | count, record | counted and recorded outside the transaction | bounded overshoot |
| Player sign-in (`authentication.py`, `repositories.py`) | users, challenges, sessions | request code, verify, me, logout | every repository call is a transaction of its own; SMS in the middle | a session is earned by one delivered code; cooldown and limits; sign-out is final |
| Admin panel (`admin/__init__.py`, `scripts/admins.py`) | cookie, role, TOTP secret and confirmation | send, verify, verify TOTP, enrol, confirm, reset, promote, demote | late responses rewrite the cookie; enrolment pages race | demotion ends access; a confirmed secret is one the admin has |
| Mini games | runs | start, finish | finish updates by id; stale clock | one open run; a finished run stays finished |
| Challenges, achievements | claims, unlocks, ledger | claim | two claims; midnight; streak rebuilt | one reward per period, one per achievement |
| Teams | memberships | join, switch | two switches; lock period | one team at a time; lock respected |
| Referrals | bindings, ledger | bind, settle | settle reads before it locks | each payout once, to the inviter |
| Coin adjustments | ledger, audit log | adjust | debit below zero; repeated form | balance never negative; audited |
| Profile (`PATCH /me`) | user columns | update, bind, allocate referral code | a chain of transactions; retries; edits by the panel between them | unique nickname; a code, once told, never changes |
| Print runs, batch export | batches, files, audit events, advisory lock | plan, generate, freeze, roll back, activate, void | crash, two runs at once, failure half-way | quota; a rollback voids its own batches and nothing else |
| Media assets | images by hash | upload, serve | two uploads of one file; what the name says and what the bytes are | a URL serves the file it was given for |
| Legal documents | versions, `users.terms_version` | create, edit, deploy, accept, render | the trigger looks at present rows only | an accepted text never changes (a finding) |
| Admin user list | none (keyset pages) | list, next page | sign-ins during a walk; `created_at` is older than the commit | nobody twice, nobody who was there missing |
| Leaderboards | a cache in each process | read the top, read one's place | the cache is filled across an await | never older than its TTL; places agree with the board |
| Middleware | deque per client | log, CORS, limit, CSRF, errors | window edge; which layer answers | bound per window; the browser can read every answer |
| Start-up guards, settings | the environment, batches | boot, readiness poll, configure | a deploy between two checks; a typo | what boots and is ready has the formats and pepper of the printed codes |
| Refusals and gates | none | the order of the checks in each endpoint | a refusal that tells a secret, a Retry-After that does not help | equal answers for equal standing; waiting helps |
| Draw, code format, phone numbers, legal pages | none | pure functions | boundaries, spellings | agree with their definitions |
| Backups, reset, server check, smoke test (`scripts/`) | dumps, users, a report | pull, verify, prune; delete; judge; walk | killed between two steps; output cut off; people meanwhile | nothing needed is deleted; a passing verdict is true |
| Database adapter, migrations, read-only queries, shell scripts | | | | partly or not modelled; see below |

Requests meet in the database only: there are no queues or workers. Redemption,
games, challenges, teams and adjustments of one player are serialised by
`SELECT ... FOR UPDATE` on the player's wallet row (`SqlLedger.lock_wallet`);
sign-in takes no lock at all; print runs take an advisory lock. The clock is
read before any lock, so time as the tables see it may run backwards.

## Plan

Done, in this order:

1. `Redemption`, `RewardAccounts`, `RedemptionProofs`: the core and its proofs.
2. `SignIn`, `Economy` (with `Periods`, `MiniGames`, `Teams`, `Referrals`,
   `Challenges`), `AdminPanel`.
3. `PrintRuns`, `Accounts`, `Media`, `Lists`, `Leaderboards`, `Middleware`,
   `Backups`, `Reset`, `Startup`, `Api`: the services around the core.
4. `Codes`, `Draw`, `LegalPages`, `Replies`, `Phones`, `Settings`,
   `ServerCheck`, `Allocation`, `Rankings`: functions, put together in
   `PureFunctions`; and `Legal`.
5. `SumProofs`, then the proofs of the rest of `Redemption`'s safety, of
   `SignIn` and its limits, `AdminPanel`, `Economy` with its referrals and its
   rewards, `PrintRuns`, and the other components of `Services`.
6. `FunctionsProofs`: what the pure functions compute, for every input and
   every setting; with it every invariant and action property of the runs is a
   theorem.

Left: statements between components that share a table (the referral code that
`Accounts` allocates and `Economy` binds; the batches that `PrintRuns` makes
and `Redemption` reads) are checked in each module by what the other may do to
its rows, not by a module that composes both.

## Modules

### Redemption

`RedemptionService.redeem`, statement by statement. A slot of `Requests`
handles one HTTP call after another; `pc[r]` says where its call is, `now[r]`
is the time it read, `pay[r]` what its open transaction has decided.

| Action | Code |
|---|---|
| `Start`, `CheckThrottle` | clock, `count_in_window` before the transaction |
| `Begin`, `LockWallet` | unit of work, `INSERT ... ON CONFLICT`, `SELECT ... FOR UPDATE` |
| `ClaimSnapshot`, `ClaimRow` | the conditional UPDATE: its snapshot finds the row, then the row is locked and the WHERE clause evaluated again |
| `Apply`, `Commit` | daily cap, entry, coins, bonus, unlock; then all of it visible at once |
| `Resolve`, `RecordFailure` | why the claim matched no row; the failure recorded in its own transaction |
| `Abort` | crash, timeout or error at any point, before or after COMMIT has taken effect |
| `Activate`, `Void`, `EditRule`, `Tick` | the operator's script, the admin panel, time |

Row locks are not variables: who holds one follows from `pc`.
`RewardAccounts` is the promise: whole redemptions, one after the other.
`Redemption` implements it (`ImplementsAccounts`) under the mapping that reads
the owner and the day off the code rows, the coins off the wallets, the
welcomed users off the ledger keys and the unlocked flavors off the history
variable `announced`.

### SignIn

Every repository method is one step, so the module is the list of those steps:
`RequestCode`, `Find`, `Create`, `CheckCooldown`, `CheckLimit`, `Send`,
`Persist` for a code request; `EnterCode`, `ReadAccount`, `PickChallenge`,
`CountWrong` or `Consume`, `MarkVerified`, `OpenSession` for a verification;
`Present`, `ReadSession`, `ReadUser`, `Touch` for an authenticated request;
`Logout`, `Deactivate`. `Fail` ends a call anywhere, with what it committed
left in place. A challenge is identified with its random code, a token with
its hash. Test numbers and the allow-list are left out.

### Economy

The other transactions of a player: `StartRun`, `FinishRun`, `Claim`,
`ChangeTeam`, `Bind`, `Settle`, `Adjust`, and `Redeem` reduced to the row and
the coins that a redemption leaves. They have one shape, and the module has it
once:

    Begin        reads the clock
    (ReadOwed    settle only: reads the invitee, finds the inviter)
    LockWallet   waits for the wallet row
    <operation>  reads what it decides upon, and plans the rows it writes
    Commit       makes them visible, unless a unique index refuses one
    Abort        an error, a lost connection, a crash: nothing is left

Reading and deciding is one step because every writer of a player's rows holds
that player's wallet: nobody can change them meanwhile. `ReadOwed` is the
exception: it reads the invitee's rows without the invitee's lock and keeps
what it read while it waits for the inviter's. Its facts only ever become true,
so reading them one by one is the same as reading them at the last moment.

The rules are operators of their own modules: `Periods` (days, weeks and months
in the campaign's zone, the streak), `MiniGames` (a run and the verdict on an
attempt), `Teams` (who may join, when), `Referrals` (who may bind, what is owed)
and `Challenges` (what a claim needs and earns; it builds on the first three).
Reactions are four kinds of attempt: malformed, scripted, slow, quick. The
catalogue of challenges and achievements is constant in a run, and two codes of
one player are never redeemed at the same microsecond. Codes are one player's
each: who wins a contested code is the business of `Redemption`.

### AdminPanel

The panel's own sign-in. Its session is a signed cookie: a call carries the
cookie of the moment it began and `Deliver` writes back the session its handler
left, however many responses arrived in between. `Send`, `SendSms` are the
phone form; `ReadAccount`, `UseCode`, `CheckEnrolled` the SMS code; `VerifyTotp`
the second factor; `Authenticate` precedes every page. `CheckShown`,
`CheckRole`, `ReadExisting`, `SavePending` are the enrolment page, `MatchPending`
and `Confirm` its form, each a transaction of its own. `SetRole` and `ResetTotp`
are the operator's script, `Lapse` the idle timeout, `Fail` a crash or an
exception. Whether the SMS code is right is `SignIn`'s business: here it is
usable once. A TOTP code is identified with the secret it is computed from.

### The services around the core

| Module | Code | State and actions |
|---|---|---|
| `PrintRuns` | `print_run.py`, `generate_codes.py`, `code_batches.py` | an invocation is a process: `Lock`, `Plan`, then `OpenCsv`, `CreateBatch`, `InsertCodes`, `FreezeRead`, `Freeze` per batch, `Unlock`, `Manifest`. `Raise` leads to `Orphans`, `VoidOrphan`, `Unlink`, `Release`; `Kill` to nothing. `Operate` activates or voids a batch |
| `Accounts` | `PATCH /me`, `GET /me` | `Begin`, `CheckVenue`, `CheckAvatar`, `WriteProfile`, `WriteDisplay`, `Bind`, `ReadCode`, `TryCode`, `Reread`, each at the turn of a call whose `todo` still has it; meanwhile venues close, avatars are edited, players redeem |
| `Media` | admin upload, `GET /media/...` | `Begin` sniffs the type, `Put` inserts if absent, `Get` answers with the URL |
| `Lists` | the admin's user list | sign-ins take their time in `Stamp` and appear in `Create`; a walk is `ListUsers`, `Again` |
| `Leaderboards` | the service and its reader | `Get`, `ReadTop`, `StoreTop`, `Answer`; the cache keeps the moment its rows were read |
| `Middleware` | the chain of `app.py` | `Receive` is one request through the five layers, with `Middleware.answer` naming who answers and what the browser can read |
| `Backups` | `backup_pull.py` | `Begin`, `Name`, `Verify`, `Prune`, `Kill`, over several runs of the scheduler |
| `Reset` | `reset_test_users.py` | one transaction of five statements, each with its own snapshot, amid `SignUp`, `OpenWallet`, `Redeem` |
| `Startup` | lifespan, `/ready`, `check_code.py` | processes boot (`ReadFormats`, `ReadPeppers`) and are polled while releases change and batches are made, frozen and activated |
| `Api` | gates, auth, profile, redemption; `smoke_demo.py` | `TakeStep` is the script's next request, `Use` anyone else's |
| `Legal` | the trigger of migration 0020, the form, acceptance | a form's check and its UPDATE are two steps |
| `Replies` | the order of refusals | one function per endpoint, from what a handler finds to what it answers |
| `Codes`, `Phones`, `Draw`, `LegalPages`, `Settings`, `ServerCheck` | the pure parts | functions, and the statements about them |
| `Allocation`, `Rankings` | `print_runs.py`; the leaderboard queries of `repositories.py` | how a run is split over the flavors, who has which place: the pure parts of `PrintRuns` and of the boards |
| `PureFunctions` | all of these side by side | `Askable` says what each may be asked, `Exact` what its answer promises |

`Services` puts the first ten (all but `Legal`) together as a sum: its constants
and variables carry the letters of their component, `part` says which component
takes the steps and the others stand still, because they share no state that
the properties tell apart; the product of the ten would only repeat each of
them. An eleventh part, "functions", is for the functions that have no state:
its single step, `Ask`, puts one of the `Questions` to them, and the invariant
`FunctionsAreExact` is about the answer (`PureFunctions!Exact`). The theorems
are about `Services`; `MCServices` gives it its small instances. The
invariants conjoin those of the modules, grouped by what they
promise:

| Invariant of `services` | Of the modules |
|---|---|
| `TypeOK` | of all ten |
| `QuotaHolds`, `RollbackIsExact` | `PrintRuns` |
| `PromisesStand` | `Accounts!AnsweredCodesStand`, `Accounts!NamesAreUnique`, `Media!UrlsStand` |
| `PagesAreExact` | `Lists!PagesAreExact`, `Lists!OneAccountPerNumber` |
| `BoardsAreFresh`, `WindowBound` | `Leaderboards`, `Middleware` |
| `GuardsHold` | `Middleware!ChainHolds`, `Startup!BootIsGuarded`, `ReadyIsTrue`, `StampsAgree`, `Api!SmokeTellsTheTruth`, `ScansNeedAProfile` |
| `OperatorsLoseNothing` | `Backups!BackupsAreKept`, `Reset!RedeemersSurvive` |
| `FunctionsAreExact` | the statements of `Codes`, `Draw`, `LegalPages`, `Replies`, `Phones`, `Settings`, `ServerCheck`, `Allocation` and `Rankings` |

## Runs

| Run | Instance | Shows |
|---|---|---|
| `redemption` | 2 users, 2 requests, 3 codes of a paying and a non-paying batch, daily limit 2, threshold 2 | types, single payment, books, entries, unlocks, honest answers, permanence, refinement |
| `redemption_days` | 1 user, 2 requests, 2 codes and a forged one, 3 moments over 2 local days, window of 2 moments, an edited bonus rule | daily cap, throttle overshoot, keys never collide, a refusal by the cap is earned |
| `redemption_live` | 2 requests, 1 connection | every request is answered |
| `redemption_void` | 1 code, 2 requests | finding: a claim in flight survives a void |
| `sign_in` | 1 phone, 2 calls, 4 codes, 2 tokens, 2 moments | types; a session is earned by one delivered code; a stored code was sent; attempts, cooldown and daily limit overshoot by calls in flight at most (`LimitsOvershootByCalls`); what was revoked or used stays so (`RefusedForGood`) |
| `sign_in_twice` | 2 calls, 2 codes | finding: the cooldown does not hold for concurrent requests |
| `economy` | two scenarios. One player, 2 calls, 2 runs, 3 challenges, a two-day achievement, 1 debit, 3 moments over 2 local days; or an inviter and an invitee, 2 calls, 1 run, 2 teams, 2 codes, a monthly challenge across the month's edge | types, books, no unique index reached, claims and achievements backed (`RewardsAreEarned`), abuse flagged, runs finish once, the team lock, referral payouts, binding before redeeming |
| `economy_first` | the second scenario with 1 team | finding: the first code can earn both bonuses |
| `admin_panel` | 1 admin, 1 browser, 2 calls, 1 secret, 2 TOTP attempts, a life of 1 tick over 3 moments | types; access ends with the role; every page rests on a sign-in that is recent and passed its second factor (`PagesRestOnSignIns`) |
| `admin_totp` | the same with 2 secrets | finding: a secret can be confirmed that was never proven |
| `services` | the instances of `MCServices` | the invariants above |
| `legal_reaccepted` | 2 players, 2 versions, an edit of each | finding: an accepted text can be edited |

Bounds. Two requests are enough for every race in this code: each involves one
statement pair of two transactions, and the theorems cover any number.
Two codes reach a limit of two and the unlock; the third belongs to a batch
that pays nothing. Two local days of two ticks are the least in which a request
can wait across midnight. Four codes let both calls of `sign_in` fail once and
still overshoot. In the first scenario of `economy` two runs are enough to
replace one and to reach a review threshold of two; in the second a lock of two
ticks lets a player switch exactly once by the end of time. In `admin_panel` the
one secret is enough for a confirmed, a pending and a reset factor; replacing a
secret by another is what `admin_totp` is about. `MaxTime` stops the clock; the
slots keep working then. Symmetry is used only where no liveness property is
checked.

In `services`: two print runs of three cartons meet a quota of two cartons a
flavor exactly or pass it, and one batch takes two inserts; two calls of
`PATCH /me` may want one name, one code and one venue; three phones, pages of
one and two sign-ins under way let rows appear before and behind a cursor; a
board of two places with a TTL of two ticks over four moments can be filled,
expire and roll over; a limit of two in a window of two over five moments; three
days of two dumps each, of which the last must go; two players and a kept one
in the reset; two releases, two peppers and two batches at boot; one person who
may make any call between two of the smoke test's. Codes have eight characters
and bodies of two or three, the smallest with which a transposition, a wrapped
QR link and an alias can all be tried; a draw has three participants with
weights up to three and words of sixteen values; phone numbers have two digits
and are tried in every spelling of up to six characters, short ones also with a
digit of a script that the table does not know.

Fairness. `FairSpec` assumes strong fairness of each request's own steps:
asyncio resumes every task whose statement has completed, PostgreSQL grants a
row lock to its waiters in turn and the pool hands a returned connection to
the longest waiter, so a step that is enabled again and again happens. Nothing
is assumed of players, operators or crashes.

## Proofs

Eight modules hold theorems, for any number of users, codes and concurrent calls
and every value of the settings that the named assumptions of the modules
allow: sets the code keeps finite are finite (codes, slots of requests, calls,
challenges, achievements), limits are at least 1 where `config.py` says so, the
inputs have their types, and a printed code is found by one player only.

| Module | Theorems |
|---|---|
| `RedemptionProofs` | `TypeOK`, `PaidExactlyOnce`, `BalanceIsLedgerSum`, `DailyCapHolds`, `EntriesMatchCodes`, `UnlockAnnouncedOnce`, `NoKeyConflict`, `ThrottleBound`, `HonestAnswers`, `DailyLimitIsEarned`, `HistoryIsPermanent`, `ImplementsAccounts` |
| `SignInProofs` | `TypeOK`, `SessionsAreEarned`, `StoredWasDelivered`, `RefusedForGood`, `LimitsOvershootByCalls` |
| `AdminPanelProofs` | `TypeOK`, `DemotionEndsAccess`, `PagesRestOnSignIns` |
| `EconomyProofs` | `TypeOK`, `BalanceIsLedgerSum`, `NoKeyConflict`, `SwitchesRespectLock`, `AbuseIsFlagged`, `RunsFinishOnce`, `BoundBeforeRedeeming`, `ReferralsPayTheInviter`, `RewardsAreEarned` |
| `PrintRunsProofs` | `QuotaHolds`, `RollbackIsExact` |
| `ServicesProofs` | `PromisesStand`, `PagesAreExact`, `BoardsAreFresh`, `WindowBound`, `OperatorsLoseNothing`, `GuardsHold`, `TypeOK` (of all of `Services`), `FunctionsAreExact` |
| `FunctionsProofs` | `AnswersAreExact` (what is `Askable` is answered as `Exact` says), by way of `SplitsAreFair`, `RefusalsAgree`, `SettingsAreSafe`, `VerdictsAreSound`, `CodesAreExact`, `NumbersAreOne`, `PlacesAreExact`, `PagesAreComplete`, `DrawsAreFair` |
| `SumProofs` | lemmas about sums over finite sets, ranks in a linear order, and least and greatest numbers |

These are all the invariants and action properties of the passing runs.

Redemption. The argument has two layers. `LockInv` is inductive by itself:
types, the shape of a request at each step, and at most one holder per wallet
and per code row. `BooksInv` adds `PlanSound` (what an open transaction has
decided is still right, because nobody else can have changed the rows it decided
on while it holds their locks) and `Books` (the tables agree with each other).
`Books` alone is not inductive: `Commit` writes what was decided several steps
earlier, and only `PlanSound` says the decision is still good. A step either
commits or leaves the books alone (`StepKinds`), so the work is in `Commit`;
refinement uses the same invariant, with `Commit` as `Redeem` and all else as
stutter. Three invariants stand on these: `LedgerInv` (the ledger is finite and
each balance is the sum of its rows; a commit adds exactly the rows it pays),
`ThrottleInv` (the failures counted in a window and those on their way together
stay within `MaxAttempts - 1 + Cardinality(Requests)`; recording one only turns
the one into the other), and `AnswersInv` (what a request has seen of its batch
is still a true reason, because batches only move `Onward`, from generated by
way of active to void).

Sign-in takes no locks, so the invariant cannot say that nobody interferes. It
says what a call knows at each of its steps (`CallShape`), and every conjunct
is a fact that later writes can only confirm: accounts stay, a used code stays
used, a revoked session stays revoked. Two conjuncts are about
two calls: challenges on their way to the table are distinct (`InFlight`), and
of the calls that try to use a code only the one whose UPDATE matched goes on
(`Winner`), which is why no code opens two sessions. `Denied` keeps the
reason for which a call must be refused until it is. The limits themselves do
not hold; what is inductive is what is counted plus what is on its way
(`LimitsInv`).

Admin panel. Requests share nothing but the account and the browser's cookie.
`SessionOK` is therefore said of every session wherever it is, in a cookie, on
its way in or on its way out: if it is signed in, a sign-in made it. Then the
order in which responses overwrite the cookie does not matter. `CallOK` says it
of a call, and `Noted` that the call's history variables remember what the
account was since the call began.

Economy. `PlanOK` says of a plan what the tables must still say when it is
written; it stays true because only the holder of a player's wallet
(`WalletMutex`) writes that player's rows. Plans of different players
could only meet in ids drawn at random, which `Drawn` and `Apart` keep apart.
The abuse flag needs the plan to remember which day it counts for (`FlagOK`).
`WalletInv` adds the books: a plan pays only its own player and takes no more
than the wallet holds, weighed while it is locked.

Referrals. A settlement reads before it locks, so no lock protects what it is
about to pay; `ReferralInv` rests on facts that only become true (`Grow`), among them
"a code earlier than this one was redeemed" (`NotFirst`). The later bonuses are
counted by an injection into the invitee's codes without the earliest, which
no settlement, however late, pays a later bonus for. It uses the premise of
the module that two codes of one player have different moments.

Rewards. What a claim or an unlock rests on is a fact about the tables at the
moment the call read: codes redeemed by then, runs passed, days checked in.
`GainOK` says that a plan is earned, `EarnedInv` that every plan and every row
already written is. The facts of a moment only grow (`FactsStay`), so a plan that
was earned when it was made is earned when it commits. Two parts need more. The
month of a date is a CHOOSE over the months begun, which exists because the
module assumes that one has (section Dates). And a streak is computed by a
recursive function; instead of an induction, `LeastNatural` gives the nearest
day that was missed and `GreatestNatural` the last place where the function
could differ from the days left until there (`StreakHeld`).

Print runs. Two invariants. `PrintInv` tells the batches and files of each run
apart from every other's by the label it drew while it had the lock (`Fine`), so
that a run that gives up takes back what is its own and only that. `QuotaInv` is
about counts: a run that holds the lock knows what the table had of each flavor
when it planned, nobody else inserts while it holds it, and for each batch
still pending what it counted and what it was allocated fit the quota
together (`HasRoom`).

Services. One step of `Services` is a step of one component or none, so each
component's invariant is proved against its own `Next` and lifted by one lemma
per component. The limiter forgets only what is older than the window
(`KeptIsRemembered`), so all that passed within one window is in its deque.
The rows of a cached board are of the moment it keeps, also when two fills
overlap (`Kept`, `Asked`). What a walk through the users has shown descends, and
whoever was there at its start is shown or lies beyond the cursor (`Walking`).
A dump that is pruned is `Expendable`: too old for every rule, or of a day
that has a later one. In the reset, whoever has a wallet or an open
redemption is not among the deleted. A process that is up has read the formats
of every batch frozen before, and a batch's stamp does not change (`Informed`).
In `Accounts`, `Allocated` is the one conjunct that is not about rows: a call
that is about to read its code again finds one, its own or another call's.

Requests through the gates. `SmokeInv` says where `smoke_demo.py` can be at each
of its 28 calls: its account, its cookie jar and its sign-in code are its own,
whatever the others do. There is one lemma for each kind of call, from the order
in which the server refuses.

Functions. They have no state, so their theorems are about every question that is
`Askable`; that a behavior of `Services` asks no other is the assumption
`QuestionsAssumption`, which TLC evaluates for its questions. A refusal is the
first check that fails: one lemma for each length of such a list (`OfFour`,
`OfSix`, `OfSeven`) says which, and each endpoint's answer follows for any
request. The server check reads the sections in front of
the cut (`Arrivals`), and every verdict is of the ones that arrived. The split of
a run rounds every share down; what is over is the sum of the remainders, so less
than the number of flavors that lost something by rounding, and of the flavors in
the order of their remainders exactly that many get one code more (`Ranks`).
The places of a board are the same kind of ranks.

Functions that go through a sequence are recursive functions or folds of the
community modules, and induction over the data is out of the provers' reach.
Two arguments do its work. A function that steps as the recursion says exists,
because a least length without one would have a predecessor with one (`Steps`);
and what two such functions say is the same everywhere, because at the least
place where they differ both would step from the same value (`StepsAgree`). The
folds come down to the same steps, with `FlattenSeq` of a sequence whose items
are empty or single as the form in which text is filtered, grouped and wrapped.

- Codes. Of the Luhn sum a wrong character changes one addend, and the addends
  of one weight are all different when the alphabet is even; swapped neighbours
  change two, and the difference is a multiple of the base for the first and
  the last character alone. `Code` is then taken apart again: grouping and
  wrapping put in marks that `Normalized` and `Unwrapped` take out, because the
  marks are no characters of a code (`MarksAreApart`).
- Phone numbers. What is kept of a text is the concatenation of what is kept of
  its characters, so fillers disappear wherever they stand. The list of prefixes
  takes the longest one off, and no two of them can be taken for each other in
  front of a 9; only a bare number that itself begins with 98 reads as one with
  a country code, as `SpellingsAreOne` says.
- The draw. The cumulative weights cut the tickets into one interval for each
  entry, as long as its weight; the accepted values are a whole number of
  rounds of the tickets. Each round takes one person out of the pool.
- Legal pages. What a state of the renderer shows, and still holds back in an
  open paragraph or list, grows by exactly the words of each line.

Sums. `SumFunctionOnSet` is a fold in the order of a CHOOSE. That it does not
depend on the order is proved by well-founded induction on subsets, with the
least subset for which it fails instead of the induction theorem.

Some statements became more precise in the proofs. The smoke script's verdict is
right only if a wrong code does not kill the sign-in code, so `SmokeTellsTheTruth`
asks for more than one attempt (`config.py:53` allows one). `ChainHolds` does not
promise a 403 on the paths that CSRF protection exempts. Adjustments are never
zero (`coin_adjustments.py:85`), the clock starts in a month of the calendar, and
the marks that stand for "no file" or "first page" are no file and no row. TLC's
instances had always satisfied these; now they are assumptions or conjuncts.

Model-checked only: liveness (`ENABLED` under fairness has no proof rules here)
and the refutations of the findings.

## Findings

`redemption_void`: "void stops every unredeemed code of a batch immediately"
does not hold for a redemption whose claim statement ran before the void.
`sign_in_twice`: cooldown and daily limit are read in transactions of their
own, so concurrent requests for one number all pass; `CooldownBound` and
`DailyBound` say by how many.
`economy_first`: "it can never be paid twice under either name" does not hold
when two redemptions commit in the opposite order of the moments they read and
a settlement falls between: the first code is chosen anew at each settlement.
The sum paid is still right (`ReferralsPayTheInviter`).
`admin_totp`: "a mistyped secret can never lock an admin out" does not hold when
two loads of the enrolment page race: the code is compared with one secret and
the confirmation is set on the other.

`legal_reaccepted`: "a version any player accepted is frozen" does not hold of
a version whose players have all accepted a later one: only the present
`users.terms_version` is looked at.

## Notes for maintainers

Met while reading and modelling; none of these breaks a promise that the runs check.

Time and midnight
- A check-in that waits across midnight can commit after the next day's. The
  two days are then consecutive, yet neither claim saw both, and the
  achievement waits for the next check-in. For the same reason a rejected run
  can be counted for the day before.
- A board is served for up to its TTL after its period has ended, with the new
  period's `resets_at`. Runs that tie in score and in time have no order.
- Retry-After of the daily limit is rounded: up to half a second early, or 0.
  The 429 of `OTP_DAILY_LIMIT` has none, though `API_CONTRACT.md:302` says a 429
  carries one.

Failure half-way
- A crash after a code was used and before the session is stored burns the code.
- A print run whose manifest cannot be written after the last batch leaves
  generated batches; a killed run leaves batches and files too.
- Two exports of one batch can both find it unfrozen and both record the
  freeze. A loose batch gets its fingerprint at the freeze, not at generation.
- A verification that fails can displace the day's verified dump.
- `PATCH /me` is several transactions: a refused referral code answers with an
  error after the nickname was stored.
- Between the legal trigger's reading and its commit a player may accept the
  version that is being edited.

Checks that look at something else
- The terms gate accepts the acceptance of an earlier version (`deps.py:152`;
  `users.py:48` speaks of the current terms).
- `update_profile` reports every integrity error as NICKNAME_TAKEN.
- A challenge whose kind needs a period's start but whose period is "once" makes
  `GET /challenges` fail for everyone (`Evaluable` excludes it).
- `ENVIRONMENT` with a typo ("prod") skips every check of the settings. Demo
  cookies are Secure and do not return over http.
- `server_check.py` skips the terms check when `legal_documents` is empty, only
  warns when psql cannot connect, and does not notice `OTP_TEST_NUMBERS=yes` or
  `TRUE` (the application itself refuses it in production).
- `\d` matches the digits of other scripts: a number can get an identifier that
  is not canonical (`OtherDigits`).
- `CodeFormat` accepts alphabets with an odd number of characters, for which the
  check character misses some single errors, and alphabets with a separator or a
  slash among their characters. Both registered formats have neither; the
  theorems about codes say so in `SlipsAreCaught` and assume `MarksAreApart`.

Comments
- `phone.py:15` speaks of nine digits where the expression takes ten;
  `KNOWN_MOBILE_PREFIXES` is called a soft signal but `request_challenge` refuses
  by it; the docstring of `ChallengeAdmin` lists three of five kinds.

## What is not modelled

- Read-only endpoints and pages (statistics, wallet and history pages, the
  panel's lists, catalogues): each is one query whose rows are mapped to a
  response. Where a client combines several (the user list) they are modelled.
- Response schemas (`schemas.py`), column types and the migrations other than
  the trigger: declarations. The constraints among them appear in the modules
  that rely on them.
- The shell scripts around docker and pg_dump, QR sheets, the OpenAPI export,
  the load test: they read, print or drive other programs.
- The connection engine's settings; losing the session that holds the print
  runs' advisory lock while the process lives on; deletion of legal documents.
- The bytes of an SMS, HMAC, SHA-256 and RFC 6238: hashes and random values are
  assumed free of collisions, a code is known by its value.
- PostgreSQL's locking and READ COMMITTED rules are taken as documented.
