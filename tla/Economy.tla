------------------------------ MODULE Economy ------------------------------
(***************************************************************************)
(* What a player does besides redeeming: mini-game runs, challenges and    *)
(* achievements, teams, referrals, and the coins an admin gives or takes.  *)
(* Every one of these is a transaction that reads the clock, locks one     *)
(* wallet row, reads what it decides upon, writes, and commits; they share *)
(* the player's tables and the ledger, and run concurrently.               *)
(*                                                                         *)
(*   idle -> (owed ->) wallet -> decide -> commit -> idle                  *)
(*                                                                         *)
(* A redemption is the transaction Redemption models in detail, reduced to *)
(* the row it leaves.  The moment a call read is as old as its wait for    *)
(* the wallet: calls of one player commit in any order of their moments.   *)
(***************************************************************************)
EXTENDS Challenges, Referrals

CONSTANTS
  Users,
  Calls,             \* slots in which calls are handled concurrently
  Inputs,            \* the calls clients make: records [user, op, arg, note]
  AdjustIds,         \* uuids of coin adjustments: bound of the model
  ReviewThreshold,   \* rejected runs a day that flag a player
  CodeReward,        \* coins of a redeemed code
  Start, MaxTime     \* the clock runs from Start to MaxTime

Ops == {"start_run", "finish_run", "claim", "team", "adjust", "redeem",
        "bind", "settle"}

ASSUME EconomyAssumption ==
  /\ Nobody \notin Users
  /\ \A i \in Inputs : i.user \in Users /\ i.op \in Ops
  /\ \A i \in Inputs :
       /\ i.op = "finish_run" => i.arg \in RunIds
       /\ i.op = "claim" => i.arg \in DOMAIN Catalogue
       /\ i.op = "bind" => i.arg \in Users
       /\ i.op = "adjust" => i.arg \in Int \ {0}
  \* A code is found by one player.
  /\ \A i, j \in Inputs :
       i.op = "redeem" /\ j.op = "redeem" /\ i.arg = j.arg => i.user = j.user
  /\ ReviewThreshold \in Nat \ {0} /\ CodeReward \in Nat
  \* The clock runs, and the month it is at its start has begun.
  /\ Start \in Nat /\ MaxTime \in Nat /\ Start <= MaxTime
  /\ \E m \in FirstOfMonth : m <= LocalDate(Start)

VARIABLES
  runs,       \* mini_game_runs
  claims,     \* challenge_claims
  unlocked,   \* user_achievements
  teams,      \* team_memberships
  referrals,  \* referrals
  codes,      \* the redeemed rows of redemption_codes
  profiled,   \* users with a nickname and, if required, accepted terms
  ledger,     \* coin_ledger_entries
  balance,    \* wallets.balance
  audit,      \* audit_log
  clock,
  call,       \* the calls being handled
  firstPaid   \* history: <<invitee, code>> paid for as the first code

tables == <<runs, claims, unlocked, teams, referrals, codes, profiled, ledger,
            balance, audit, firstPaid>>
vars == <<runs, claims, unlocked, teams, referrals, codes, profiled, ledger,
          balance, audit, firstPaid, clock, call>>

-----------------------------------------------------------------------------
(* Rows and plans                                                          *)

Entry(key, u, amount) == [key |-> key, user |-> u, amount |-> amount]

\* The rows a transaction writes; runs maps the runs it writes to their rows.
Nothing == [runs |-> <<>>, claims |-> {}, unlocked |-> {}, teams |-> {},
            referrals |-> {}, codes |-> {}, entries |-> {}, audit |-> {},
            first |-> {}]

Idle == [at |-> "idle", input |-> <<>>, now |-> 0, owner |-> Nobody,
         owed |-> {}, plan |-> Nothing]

ChallengeKey(c, period, u) == <<"challenge", c, period, u>>
AchievementKey(a, u) == <<"achievement", a, u>>
AdjustmentKey(id) == <<"admin_adjustment", id>>
CodeKey(id) == <<"code_redemption", id>>

Recorded(key) == \E e \in ledger : e.key = key

\* The wallet row is held from lock_wallet to the end of the transaction.
HoldsWallet(s) == call[s].at \in {"decide", "commit"}

\* Mutant: the row is read without FOR UPDATE.
WalletFree_Unlocked(u) == TRUE

WalletFree(u) == ~ \E s \in Calls : HoldsWallet(s) /\ call[s].owner = u

\* Ids not yet used by a committed or an open transaction (uuid4).
FreshRuns ==
  {r \in RunIds : /\ runs[r] = Unissued
                  /\ \A s \in Calls : r \notin DOMAIN call[s].plan.runs}
FreshAdjustments ==
  {i \in AdjustIds : /\ ~Recorded(AdjustmentKey(i))
                     /\ \A s \in Calls : \A e \in call[s].plan.entries :
                          e.key # AdjustmentKey(i)}

-----------------------------------------------------------------------------
(* Steps every call goes through                                           *)

\* Mutant: binding locks the inviter's wallet, as settling does.
WalletOf_Inviter(i) ==
  IF i.op = "settle" THEN Nobody ELSE IF i.op = "bind" THEN i.arg ELSE i.user

\* The wallet a call locks; settle finds its own first.
WalletOf(i) == IF i.op = "settle" THEN Nobody ELSE i.user

\* The clock is read before anything is locked.  Two redemptions of one
\* player never read the same microsecond.
Begin(s, i) ==
  /\ call[s].at = "idle"
  /\ i.op = "redeem" =>
       /\ \A c \in codes : c.user = i.user => c.at # clock
       /\ \A z \in Calls : call[z].at # "idle" =>
            ~ (call[z].input.op = "redeem" /\ call[z].input.user = i.user
               /\ call[z].now = clock)
  /\ call' = [call EXCEPT ![s] =
       [Idle EXCEPT !.at = IF i.op = "settle" THEN "owed" ELSE "wallet",
                    !.input = i, !.now = clock,
                    !.owner = WalletOf(i)]]
  /\ UNCHANGED <<tables, clock>>

LockWallet(s) ==
  /\ call[s].at = "wallet"
  /\ WalletFree(call[s].owner)
  /\ call' = [call EXCEPT ![s].at = "decide"]
  /\ UNCHANGED <<tables, clock>>

\* The transaction ends without effect: a refusal, an exception, a crash.
RollBack(s) ==
  /\ call' = [call EXCEPT ![s] = Idle]
  /\ UNCHANGED <<tables, clock>>

Propose(s, plan) ==
  /\ call' = [call EXCEPT ![s].at = "commit", ![s].plan = plan]
  /\ UNCHANGED <<tables, clock>>

\* The table of runs with these rows written.
Written(rows) == [r \in RunIds |-> IF r \in DOMAIN rows THEN rows[r] ELSE runs[r]]

\* What the unique indexes refuse: the open-run index, the switch number,
\* one inviter per invitee, one claim per period, one unlock, one ledger key.
Conflicts(p) ==
  LET after == Written(p.runs) IN
  \/ \E r, z \in RunIds : /\ r # z
                          /\ after[r].status = "open" /\ after[z].status = "open"
                          /\ after[r].user = after[z].user
  \/ \E m \in p.teams, n \in teams : m.user = n.user /\ m.switchNo = n.switchNo
  \/ \E b \in p.referrals : BindingOf(referrals, b.invitee) # {}
  \/ p.claims \cap claims # {}
  \/ p.unlocked \cap unlocked # {}
  \/ \E e \in p.entries : Recorded(e.key)

SumAmounts(entries) == SumFunctionOnSet([e \in entries |-> e.amount], entries)

\* Mutant: the balance moves by what was earned, as lifetime_earned does.
Movement_Earned(entries) == Max({SumAmounts(entries), 0})

Movement(entries) == SumAmounts(entries)

Commit(s) ==
  LET p == call[s].plan IN
  /\ call[s].at = "commit"
  /\ ~Conflicts(p)
  /\ runs' = Written(p.runs)
  /\ claims' = claims \cup p.claims
  /\ unlocked' = unlocked \cup p.unlocked
  /\ teams' = teams \cup p.teams
  /\ referrals' = referrals \cup p.referrals
  /\ codes' = codes \cup p.codes
  /\ ledger' = ledger \cup p.entries
  /\ balance' = [u \in Users |->
       balance[u] + Movement({e \in p.entries : e.user = u})]
  /\ audit' = audit \cup p.audit
  /\ firstPaid' = firstPaid \cup p.first
  /\ call' = [call EXCEPT ![s] = Idle]
  /\ UNCHANGED <<profiled, clock>>

\* An IntegrityError, a lost connection or a killed worker.
Abort(s) == call[s].at # "idle" /\ RollBack(s)

Deciding(s, op) == call[s].at = "decide" /\ call[s].input.op = op

-----------------------------------------------------------------------------
(* Mini-games                                                              *)

\* Mutant: the run the player still has open is left open.
Replaced_None(u, now) == <<>>

\* The open run a new one closes.
Replaced(u, now) ==
  [r \in RunsOf(runs, u, "open") |-> Finish(runs[r], "expired", now, "none")]

StartRun(s) ==
  LET u == call[s].input.user
      now == call[s].now
  IN  /\ Deciding(s, "start_run")
      /\ FreshRuns # {}
      /\ LET new == CHOOSE r \in FreshRuns : TRUE
             old == Replaced(u, now)
         IN  Propose(s, [Nothing EXCEPT
               !.runs = [r \in {new} \cup DOMAIN old |->
                           IF r = new THEN OpenRun(u, now) ELSE old[r]]])

\* Mutant: only a fourth rejection is flagged.
Abusive_Late(rejectedToday) == rejectedToday > ReviewThreshold

Abusive(rejectedToday) == rejectedToday >= ReviewThreshold

FinishRun(s) ==
  LET u == call[s].input.user
      r == call[s].input.arg
      attempt == call[s].input.note
      now == call[s].now
      verdict == Verdict(runs[r], u, attempt, now)
      row == [z \in {r} |-> Finish(runs[r], verdict, now, attempt)]
      rejectedToday == RejectedSince(Written(row), u, DayStart(now))
      flags == IF verdict = "rejected" /\ Abusive(rejectedToday)
               THEN {[entity |-> "mini_game_run_abuse", user |-> u, at |-> now]}
               ELSE {}
  IN  /\ Deciding(s, "finish_run")
      /\ IF verdict = "refused" THEN RollBack(s)
         ELSE Propose(s, [Nothing EXCEPT !.runs = row, !.audit = flags])

-----------------------------------------------------------------------------
(* Challenges and achievements                                             *)

ClaimEntries(c, period, u) ==
  IF Catalogue[c].reward > 0
  THEN {Entry(ChallengeKey(c, period, u), u, Catalogue[c].reward)} ELSE {}

UnlockEntries(ids, u) ==
  {Entry(AchievementKey(a, u), u, Achievements[a].reward) :
     a \in {b \in ids : Achievements[b].reward > 0}}

\* The achievements a check-in unlocks, its own claim included.
NewUnlocks(c, u, now) ==
  LET days == CheckinDays(claims, c, u) \cup {LocalDate(now)} IN
  IF Catalogue[c].kind = "daily_checkin"
  THEN Unlocks(CurrentStreak(days, LocalDate(now)), u, unlocked)
  ELSE {}

Claim(s) ==
  LET u == call[s].input.user
      c == call[s].input.arg
      now == call[s].now
      period == PeriodKey(Catalogue[c].period, now)
      row == [challenge |-> c, user |-> u, period |-> period]
      ids == NewUnlocks(c, u, now)
  IN  /\ Deciding(s, "claim")
      /\ IF \/ row \in claims
            \/ ~Evaluable(Catalogue[c])
            \/ ~Reached(Progress(Catalogue[c], u, now, teams, runs, codes),
                        Catalogue[c].target)
         THEN RollBack(s)
         ELSE Propose(s, [Nothing EXCEPT
                !.claims = {row},
                !.unlocked = {[id |-> a, user |-> u] : a \in ids},
                !.entries = ClaimEntries(c, period, u)
                            \cup UnlockEntries(ids, u)])

-----------------------------------------------------------------------------
(* Teams, codes, profile, adjustments                                      *)

ChangeTeam(s) ==
  LET u == call[s].input.user
      flavor == call[s].input.arg
      new == Membership(Current(teams, u), u, flavor,
                        FlavorCodes(codes, u, flavor), call[s].now)
  IN  /\ Deciding(s, "team")
      /\ IF new = {} THEN RollBack(s)
         ELSE Propose(s, [Nothing EXCEPT !.teams = new])

\* A code that pays nothing leaves no ledger row.
CodeEntries(c, u) ==
  IF CodeReward > 0 THEN {Entry(CodeKey(c), u, CodeReward)} ELSE {}

Redeem(s) ==
  LET u == call[s].input.user
      c == call[s].input.arg
  IN  /\ Deciding(s, "redeem")
      /\ IF \E d \in codes : d.id = c THEN RollBack(s)
         ELSE Propose(s, [Nothing EXCEPT
                !.codes = {[id |-> c, user |-> u, flavor |-> call[s].input.note,
                            at |-> call[s].now]},
                !.entries = CodeEntries(c, u)])

UpdateProfile(u) ==
  /\ u \notin profiled
  /\ profiled' = profiled \cup {u}
  /\ UNCHANGED <<runs, claims, unlocked, teams, referrals, codes, ledger,
                 balance, audit, firstPaid, clock, call>>

\* Mutant: the debit is not compared with the balance.
Affordable_Any(u, amount) == TRUE

Affordable(u, amount) == balance[u] + amount >= 0

Adjust(s) ==
  LET u == call[s].input.user
      amount == call[s].input.arg
  IN  /\ Deciding(s, "adjust")
      /\ FreshAdjustments # {}
      /\ IF ~Affordable(u, amount) THEN RollBack(s)
         ELSE LET id == CHOOSE i \in FreshAdjustments : TRUE IN
              Propose(s, [Nothing EXCEPT
                !.entries = {Entry(AdjustmentKey(id), u, amount)},
                !.audit = {[entity |-> "coin_ledger_entry", user |-> u,
                            at |-> call[s].now]}])

-----------------------------------------------------------------------------
(* Referrals                                                               *)

Bind(s) ==
  LET u == call[s].input.user
      inviter == call[s].input.arg
  IN  /\ Deciding(s, "bind")
      /\ IF CanBind(referrals, u, inviter, CodesOf(codes, u))
         THEN Propose(s, [Nothing EXCEPT
                !.referrals = {[invitee |-> u, inviter |-> inviter]}])
         ELSE RollBack(s)

MissionComplete(u) ==
  u \in profiled /\ Current(teams, u) # {} /\ AcceptedRuns(runs, u) > 0

\* settle reads the invitee's facts before it locks the inviter's wallet,
\* and without the invitee's lock.  Each of them, once true, stays true, so
\* reading them at one moment is the same as reading them one by one.
ReadOwed(s) ==
  LET u == call[s].input.user
      owed == Payouts(u, MissionComplete(u), CodesOf(codes, u))
  IN  /\ call[s].at = "owed"
      /\ IF BindingOf(referrals, u) = {} \/ owed = {} THEN RollBack(s)
         ELSE \E b \in BindingOf(referrals, u) :
                /\ call' = [call EXCEPT ![s].at = "wallet", ![s].owed = owed,
                                        ![s].owner = b.inviter]
                /\ UNCHANGED <<tables, clock>>

Unpaid(owed) == {p \in owed : ~Recorded(p.key)}

Settle(s) ==
  LET u == call[s].input.user
      inviter == call[s].owner
      due == Unpaid(call[s].owed)
  IN  /\ Deciding(s, "settle")
      /\ Propose(s, [Nothing EXCEPT
           !.entries = {Entry(p.key, inviter, p.amount) : p \in due},
           !.first = {<<u, p.code>> : p \in {q \in due : q.key = FirstKey(u)}}])

-----------------------------------------------------------------------------
(* The specification                                                       *)

Tick == clock < MaxTime /\ clock' = clock + 1 /\ UNCHANGED <<tables, call>>

Handle(s) ==
  \/ \E i \in Inputs : Begin(s, i)
  \/ LockWallet(s) \/ Commit(s) \/ Abort(s)
  \/ StartRun(s) \/ FinishRun(s) \/ Claim(s) \/ ChangeTeam(s) \/ Redeem(s)
  \/ Adjust(s) \/ Bind(s) \/ ReadOwed(s) \/ Settle(s)

Init ==
  /\ runs = [r \in RunIds |-> Unissued]
  /\ claims = {} /\ unlocked = {} /\ teams = {} /\ referrals = {}
  /\ codes = {} /\ profiled = {} /\ ledger = {} /\ audit = {}
  /\ balance = [u \in Users |-> 0]
  /\ clock = Start
  /\ call = [s \in Calls |-> Idle]
  /\ firstPaid = {}

Next == (\E s \in Calls : Handle(s)) \/ (\E u \in Users : UpdateProfile(u)) \/ Tick

Spec == Init /\ [][Next]_vars
-----------------------------------------------------------------------------
(* Properties                                                              *)

RunRows == [user : Users \cup {Nobody},
            status : Terminal \cup {"none", "open"},
            issuedAt : 0..MaxTime, finishedAt : 0..MaxTime, quick : BOOLEAN]

\* Every table holds rows of its type: exactly the issued runs have a player,
\* no ledger amount is zero and no wallet is negative; no call read a moment
\* that has not come, and the wallet a transaction holds is a player's.
TypeOK ==
  /\ runs \in [RunIds -> RunRows]
  /\ \A r \in RunIds : runs[r].user = Nobody <=> runs[r].status = "none"
  /\ claims \subseteq [challenge : DOMAIN Catalogue, user : Users,
                       period : {OnceKey} \cup ({"day", "week", "month"} \X Int)]
  /\ unlocked \subseteq [id : DOMAIN Achievements, user : Users]
  /\ referrals \subseteq [invitee : Users, inviter : Users]
  /\ profiled \subseteq Users
  /\ \A e \in ledger : e.user \in Users /\ e.amount \in Int \ {0}
  /\ balance \in [Users -> Nat]
  /\ clock \in Start..MaxTime
  /\ \A s \in Calls : /\ call[s].at \in {"idle", "owed", "wallet", "decide", "commit"}
                       /\ call[s].now \in 0..clock
                       /\ HoldsWallet(s) => call[s].owner \in Users

\* A wallet holds exactly what its ledger rows add up to, and never less than
\* nothing, whatever an admin takes while other calls pay and spend.
BalanceIsLedgerSum ==
  \A u \in Users :
    /\ balance[u] = SumAmounts({e \in ledger : e.user = u})
    /\ balance[u] >= 0

\* The checks made under the wallet lock are never contradicted at COMMIT: no
\* transaction runs into a unique index (two open runs, two switches with one
\* number, two inviters, a second claim of a period, a second unlock, a
\* second payment under one key).
NoKeyConflict ==
  \A s \in Calls : call[s].at = "commit" => ~Conflicts(call[s].plan)

\* The facts a claim rests on, counted from the tables as they are now.
Facts(k) ==
  LET ch == Catalogue[k.challenge] IN
  CASE ch.kind = "team_choice" -> Cardinality({m \in teams : m.user = k.user})
    [] ch.kind = "daily_checkin" -> 1
    [] ch.kind = "first_mini_game" ->
         Cardinality({r \in RunIds : runs[r].user = k.user
                                      /\ runs[r].status = "accepted"})
    [] ch.kind = "tap_reflex_fast" ->
         Cardinality({r \in RunIds :
           /\ runs[r].user = k.user /\ runs[r].status = "accepted"
           /\ runs[r].quick
           /\ LocalDate(runs[r].finishedAt) >= k.period[2]})
    [] ch.kind = "distinct_flavors" ->
         Cardinality({c.flavor : c \in {d \in codes :
           d.user = k.user /\ LocalDate(d.at) >= k.period[2]}})

\* Every claim is backed by what the player did, and paid once if it pays:
\* since the start of the claimed period there are as many facts as the
\* challenge asks for.
ClaimsAreBacked ==
  \A k \in claims :
    /\ Facts(k) >= Catalogue[k.challenge].target
    /\ Catalogue[k.challenge].reward > 0 =>
         Recorded(ChallengeKey(k.challenge, k.period, k.user))

\* A streak achievement is only unlocked by a player who checked in on as many
\* consecutive local days as it asks for, and its reward is in the ledger if
\* and only if it is unlocked.
AchievementsAreEarned ==
  \A u \in Users, a \in DOMAIN Achievements :
    /\ [id |-> a, user |-> u] \in unlocked =>
         \E c \in DOMAIN Catalogue, last \in LocalDate(Start)..LocalDate(MaxTime) :
           /\ Catalogue[c].kind = "daily_checkin"
           /\ \A i \in 0..(Achievements[a].threshold - 1) :
                [challenge |-> c, user |-> u, period |-> <<"day", last - i>>] \in claims
    /\ Achievements[a].reward > 0 =>
         ([id |-> a, user |-> u] \in unlocked <=> Recorded(AchievementKey(a, u)))

\* What a player was paid for was done, and what was done was paid once: the
\* claims and the achievements of every player, whatever else runs at once.
RewardsAreEarned == ClaimsAreBacked /\ AchievementsAreEarned

\* A finished run keeps its verdict: no later call, and no call that read the
\* run before, writes it again.
RunsFinishOnce ==
  [][\A r \in RunIds : runs[r].status \in Terminal => runs'[r] = runs[r]]_vars

\* A player with ReviewThreshold rejected runs on one local day is in the audit
\* log for that day, in whatever order the calls that rejected them commit.
AbuseIsFlagged ==
  \A u \in Users, d \in LocalDate(Start)..LocalDate(MaxTime) :
    Cardinality({r \in RunIds : /\ runs[r].user = u
                                /\ runs[r].status = "rejected"
                                /\ LocalDate(runs[r].finishedAt) = d})
      >= ReviewThreshold
    => \E a \in audit : /\ a.entity = "mini_game_run_abuse" /\ a.user = u
                        /\ LocalDate(a.at) = d

\* A player is in a team for the whole lock before leaving it for another, was
\* entitled to each team joined, and the switches are numbered without a gap.
SwitchesRespectLock ==
  \A m \in teams :
    /\ FlavorCodes(codes, m.user, m.flavor) >= UnlockThreshold
    /\ m.switchNo > 0 =>
         \E n \in teams : /\ n.user = m.user /\ n.switchNo = m.switchNo - 1
                          /\ n.flavor # m.flavor
                          /\ m.joinedAt >= n.joinedAt + TeamLock

\* Referral coins go to the inviter alone, only once the invitee's mission is
\* complete, with the first bonus before or with any later one, and for n
\* redeemed codes never more than the first bonus and n - 1 later ones.
ReferralsPayTheInviter ==
  \A u \in Users :
    LET first == {e \in ledger : e.key = FirstKey(u)}
        later == {e \in ledger : \E c \in CodesOf(codes, u) : e.key = LaterKey(c.id)}
    IN  /\ \A e \in first \cup later : [invitee |-> u, inviter |-> e.user] \in referrals
        /\ first # {} => MissionComplete(u)
        /\ later # {} => first # {}
        /\ first # {} => Cardinality(later) < Cardinality(CodesOf(codes, u))

\* Nobody is bound to an inviter after redeeming a code, nor to a second one,
\* even when the bind and the redemption are in flight together.
BoundBeforeRedeeming ==
  [][\A b \in referrals' \ referrals :
       CodesOf(codes, b.invitee) = {} /\ BindingOf(referrals, b.invitee) = {}]_vars

\* The code that earned its inviter the first bonus earns no later one
\* (app/domain/referrals.py:15).
FirstCodeIsPaidOnce ==
  \A f \in firstPaid : ~Recorded(LaterKey(f[2]))
=============================================================================
