--------------------------- MODULE EconomyProofs ----------------------------
(***************************************************************************)
(* Theorems about Economy, for any players, catalogue, settings and number *)
(* of concurrent calls, and every length of the clock.                     *)
(*                                                                         *)
(* What a call has decided stays right until it commits because only the   *)
(* holder of a player's wallet writes rows of that player: PlanOK says of  *)
(* a plan what the tables must still say when it is written.               *)
(*                                                                         *)
(* A settlement of referrals reads what it owes before it locks the        *)
(* inviter's wallet, so what it pays must be true however late it pays.    *)
(* It is: everything a payout rests on, once true, stays true (Grow) --    *)
(* also "a code earlier than this one was redeemed", which is why the      *)
(* earliest code is never among the later ones, whatever commits in        *)
(* between.                                                                *)
(*                                                                         *)
(* A reward is for something done by the time it was claimed, and what was *)
(* done stays done (FactsStay): so a plan that was earned when it was made *)
(* (GainOK) is still earned when it commits, and ever after.  A streak is  *)
(* the walk of CurrentStreak, which StreakHeld undoes day by day.          *)
(***************************************************************************)
EXTENDS Economy, SumProofs

-----------------------------------------------------------------------------
(* The tables                                                              *)

Rows == [user : Users \cup {Nobody}, status : Terminal \cup {"none", "open"},
         issuedAt : Nat, finishedAt : Nat, quick : BOOLEAN]

RunBooks ==
  /\ runs \in [RunIds -> Rows]
  /\ \A r \in RunIds : runs[r].status = "none" => runs[r] = Unissued
  /\ \A r \in RunIds : runs[r].status = "open" => runs[r].user \in Users
  /\ \A r, z \in RunIds :
       r # z /\ runs[r].status = "open" /\ runs[z].status = "open" => runs[r].user # runs[z].user

\* The runs issued so far are finitely many, and AbuseIsFlagged.
RejectedOn(table, u, d) ==
  {r \in RunIds : /\ table[r].user = u /\ table[r].status = "rejected"
                  /\ LocalDate(table[r].finishedAt) = d}
Flagged(log, u, d) ==
  \E a \in log : a.entity = "mini_game_run_abuse" /\ a.user = u /\ LocalDate(a.at) = d

Issued == {r \in RunIds : runs[r].status # "none"}

AuditBooks ==
  /\ IsFiniteSet(Issued)
  /\ \A u \in Users, d \in Int :
       Cardinality(RejectedOn(runs, u, d)) >= ReviewThreshold => Flagged(audit, u, d)

\* One inviter each; one row for a code, of the player who can find it.
ReferralBooks ==
  /\ \A b \in referrals : b.inviter \in Users
  /\ \A a, b \in referrals : a.invitee = b.invitee => a = b

CodeBooks ==
  /\ IsFiniteSet(codes)
  /\ \A c, d \in codes : c.id = d.id => c = d

\* Every key in the ledger has the row that it was paid for.
LedgerBooks ==
  /\ \A c, period, u : Recorded(ChallengeKey(c, period, u)) =>
       [challenge |-> c, user |-> u, period |-> period] \in claims
  /\ \A a, u : Recorded(AchievementKey(a, u)) => [id |-> a, user |-> u] \in unlocked
  /\ \A id : Recorded(CodeKey(id)) => \E d \in codes : d.id = id

\* Switches are numbered, and one of a player's is the last.
TeamBooks ==
  /\ \A m \in teams : m.switchNo \in Nat /\ m.joinedAt \in Nat
  /\ \A m, n \in teams : m.user = n.user /\ m.switchNo = n.switchNo => m = n
  /\ \A m \in teams : Current(teams, m.user) # {}
  /\ SwitchesRespectLock

Books == RunBooks /\ AuditBooks /\ ReferralBooks /\ CodeBooks /\ LedgerBooks /\ TeamBooks

-----------------------------------------------------------------------------
(* Calls and plans                                                         *)

Located == {"wallet", "decide", "commit"}

\* The keys a settlement may pay: those of this invitee.
ReferralKey(key, invitee) ==
  \/ key = FirstKey(invitee)
  \/ \E k \in CodesOf(codes, invitee) : key = LaterKey(k.id)

CallOK(c) ==
  /\ c = [at |-> c.at, input |-> c.input, now |-> c.now, owner |-> c.owner,
          owed |-> c.owed, plan |-> c.plan]
  /\ c.at \in {"idle", "owed"} \cup Located /\ c.now \in Nat
  /\ c.at # "idle" => c.input \in Inputs
  /\ c.at = "owed" => c.input.op = "settle"
  /\ c.at \in Located =>
       /\ c.owner \in Users
       /\ c.input.op # "settle" => c.owner = c.input.user
       /\ c.input.op = "settle" =>
            /\ \E b \in referrals : b.invitee = c.input.user /\ b.inviter = c.owner
            /\ \A p \in c.owed : ReferralKey(p.key, c.input.user)
  /\ c.at # "commit" => c.plan = Nothing

WalletMutex ==
  \A s, z \in Calls :
    s # z /\ HoldsWallet(s) /\ HoldsWallet(z) => call[s].owner # call[z].owner

\* A plan's runs are new ones, or the owner's open ones that it closes; if it
\* opens one it closes all the others.
RunsOK(p, u) ==
  /\ DOMAIN p.runs \subseteq RunIds /\ IsFiniteSet(DOMAIN p.runs)
  /\ \A r \in DOMAIN p.runs :
       /\ p.runs[r] \in Rows /\ p.runs[r].user = u
       /\ \/ runs[r] = Unissued /\ p.runs[r].status = "open"
          \/ runs[r].status = "open" /\ runs[r].user = u /\ p.runs[r].status \in Terminal
  /\ \A r, z \in DOMAIN p.runs :
       p.runs[r].status = "open" /\ p.runs[z].status = "open" => r = z
  /\ (\E r \in DOMAIN p.runs : p.runs[r].status = "open") =>
       \A z \in RunIds : runs[z].status = "open" /\ runs[z].user = u => z \in DOMAIN p.runs

TeamsOK(p, u) ==
  /\ \A m, n \in p.teams : m = n
  /\ \A m \in p.teams :
       /\ m.user = u /\ m.switchNo \in Nat /\ m.joinedAt \in Nat
       /\ FlavorCodes(codes, u, m.flavor) >= UnlockThreshold
       /\ \A n \in teams : n.user = u => n.switchNo < m.switchNo
       /\ m.switchNo > 0 =>
            \E n \in teams : /\ n.user = u /\ n.switchNo = m.switchNo - 1
                             /\ n.flavor # m.flavor
                             /\ m.joinedAt >= n.joinedAt + TeamLock

\* The rows of which a unique index allows one.
RowsOK(p, u, input) ==
  /\ \A k \in p.claims : k.user = u /\ k \notin claims
  /\ \A x \in p.unlocked : x.user = u /\ x \notin unlocked
  /\ \A a, b \in p.referrals : a = b
  /\ \A b \in p.referrals : b.inviter \in Users
  /\ \A b \in p.referrals :
       b.invitee = u /\ BindingOf(referrals, u) = {} /\ CodesOf(codes, u) = {}
  /\ \A c, d \in p.codes : c = d
  /\ \A c \in p.codes : /\ c.user = u /\ input.op = "redeem" /\ c.id = input.arg
                        /\ \A d \in codes : d.id # c.id

\* What an entry is paid for is written with it, or was there before.
KeyOK(key, p, u, input) ==
  \/ \E c, period : /\ key = ChallengeKey(c, period, u)
                    /\ [challenge |-> c, user |-> u, period |-> period] \in p.claims
  \/ \E a : key = AchievementKey(a, u) /\ [id |-> a, user |-> u] \in p.unlocked
  \/ \E id : key = AdjustmentKey(id)
  \/ /\ input.op = "redeem" /\ key = CodeKey(input.arg)
     /\ \E c \in p.codes : c.id = input.arg
  \/ input.op = "settle" /\ ReferralKey(key, input.user)

EntriesOK(p, u, input) ==
  \A e \in p.entries : ~Recorded(e.key) /\ KeyOK(e.key, p, u, input)

\* A rejection that completes a day's number comes with its flag.
FlagOK(p, u) ==
  \A d \in Int :
    /\ \E r \in DOMAIN p.runs : /\ p.runs[r].status = "rejected"
                                /\ LocalDate(p.runs[r].finishedAt) = d
    /\ Cardinality(RejectedOn(Written(p.runs), u, d)) >= ReviewThreshold
    => Flagged(p.audit, u, d)

PlanOK(p, u, input) ==
  RunsOK(p, u) /\ FlagOK(p, u) /\ TeamsOK(p, u) /\ RowsOK(p, u, input) /\ EntriesOK(p, u, input)

\* Two plans issue neither the same run nor the same key.
Apart(p, q) ==
  /\ DOMAIN p.runs \cap DOMAIN q.runs = {}
  /\ \A e \in p.entries, f \in q.entries : e.key # f.key

Plans ==
  /\ \A s \in Calls : call[s].at = "commit" => PlanOK(call[s].plan, call[s].owner, call[s].input)
  /\ \A s, z \in Calls : s # z /\ call[s].at = "commit" /\ call[z].at = "commit" =>
       Apart(call[s].plan, call[z].plan)

CallsOK ==
  /\ clock \in Nat
  /\ call = [s \in Calls |-> call[s]]
  /\ \A s \in Calls : CallOK(call[s])
  /\ WalletMutex

IInv == Books /\ CallsOK /\ Plans

LEMMA IdleOK == CallOK(Idle)
  BY DEF CallOK, Idle, Located

LEMMA InitIInv == Init => IInv
<1> SUFFICES ASSUME Init PROVE IInv
  OBVIOUS
<1>1. RunBooks
  BY DEF Init, RunBooks, Rows, Unissued
<1>2. ReferralBooks /\ LedgerBooks
  BY DEF Init, ReferralBooks, LedgerBooks, Recorded
<1>3. CodeBooks
  BY FS_EmptySet DEF Init, CodeBooks
<1>4. TeamBooks
  BY DEF Init, TeamBooks, SwitchesRespectLock
<1>5. CallsOK /\ Plans
  BY IdleOK, EconomyAssumption DEF Init, CallsOK, WalletMutex, HoldsWallet, Plans, Idle
<1>6. AuditBooks
  <2>1. Issued = {} /\ \A u \in Users, d \in Int : RejectedOn(runs, u, d) = {}
    BY DEF Init, Issued, RejectedOn, Unissued
  <2> QED
    BY <2>1, FS_EmptySet, EconomyAssumption DEF AuditBooks
<1> QED
  BY <1>1, <1>2, <1>3, <1>4, <1>5, <1>6 DEF IInv, Books

-----------------------------------------------------------------------------
(* Steps that leave the tables alone                                       *)

\* What no table says anew, and no plan.
LEMMA TablesRest ==
  ASSUME UNCHANGED <<runs, claims, unlocked, teams, referrals, codes, ledger, audit>>
  PROVE  /\ Books => Books'
         /\ \A c : CallOK(c) => CallOK(c)'
         /\ \A p, u, i : PlanOK(p, u, i) => PlanOK(p, u, i)'
<1>1. Books => Books'
  BY DEF Books, RunBooks, AuditBooks, Issued, ReferralBooks, CodeBooks, LedgerBooks,
     TeamBooks, SwitchesRespectLock, Recorded
<1>2. \A c : CallOK(c) => CallOK(c)'
  BY DEF CallOK, ReferralKey
<1>3. ASSUME NEW p, NEW u, NEW i, PlanOK(p, u, i)
      PROVE  PlanOK(p, u, i)'
  BY <1>3 DEF PlanOK, RunsOK, FlagOK, Written, TeamsOK, RowsOK, EntriesOK, KeyOK, ReferralKey,
     Recorded
<1> QED
  BY <1>1, <1>2, <1>3

\* One call becomes x; what x says of itself is all there is to check.
LEMMA MoveCall ==
  ASSUME IInv, NEW s \in Calls, NEW x, CallOK(x),
         call' = [call EXCEPT ![s] = x], UNCHANGED <<tables, clock>>,
         x.at \in {"decide", "commit"} =>
           \A z \in Calls \ {s} : HoldsWallet(z) => call[z].owner # x.owner,
         x.at = "commit" =>
           /\ PlanOK(x.plan, x.owner, x.input)
           /\ \A z \in Calls \ {s} : call[z].at = "commit" => Apart(x.plan, call[z].plan)
  PROVE  IInv'
<1>1. call'[s] = x /\ \A z \in Calls \ {s} : call'[z] = call[z]
  BY DEF IInv, CallsOK
<1>2. /\ Books' /\ \A c : CallOK(c) => CallOK(c)'
      /\ \A p, u, i : PlanOK(p, u, i) => PlanOK(p, u, i)'
  BY TablesRest DEF IInv, tables
<1>3. CallsOK'
  <2>1. \A z \in Calls : CallOK(call[z])'
    BY <1>1, <1>2 DEF IInv, CallsOK
  <2>2. WalletMutex'
    BY <1>1 DEF IInv, CallsOK, WalletMutex, HoldsWallet
  <2> QED
    BY <2>1, <2>2 DEF IInv, CallsOK
<1>4. Plans'
  BY <1>1, <1>2 DEF IInv, Plans, Apart
<1> QED
  BY <1>2, <1>3, <1>4 DEF IInv

LEMMA RollBackStep ==
  ASSUME IInv, NEW s \in Calls, RollBack(s)
  PROVE  IInv'
<1>1. PICK x : x = Idle
  OBVIOUS
<1>2. CallOK(x) /\ x.at = "idle"
  BY <1>1, IdleOK DEF Idle
<1>3. call' = [call EXCEPT ![s] = x] /\ UNCHANGED <<tables, clock>>
  BY <1>1 DEF RollBack
<1> QED
  BY <1>2, <1>3, MoveCall

LEMMA BeginStep ==
  ASSUME IInv, NEW s \in Calls, NEW i \in Inputs, Begin(s, i)
  PROVE  IInv'
<1>1. PICK x : x = [Idle EXCEPT !.at = IF i.op = "settle" THEN "owed" ELSE "wallet",
                                !.input = i, !.now = clock, !.owner = WalletOf(i)]
  OBVIOUS
<1>2. x.at \in {"owed", "wallet"} /\ CallOK(x)
  BY <1>1, EconomyAssumption DEF IInv, CallsOK, CallOK, Idle, Located, WalletOf
<1>3. call' = [call EXCEPT ![s] = x] /\ UNCHANGED <<tables, clock>>
  BY <1>1 DEF Begin
<1> QED
  BY <1>2, <1>3, MoveCall

LEMMA LockWalletStep ==
  ASSUME IInv, NEW s \in Calls, LockWallet(s)
  PROVE  IInv'
<1>1. PICK c : c = call[s]
  OBVIOUS
<1>2. PICK x : x = [c EXCEPT !.at = "decide"]
  OBVIOUS
<1>3. CallOK(c) /\ c.at = "wallet"
  BY <1>1 DEF IInv, CallsOK, LockWallet
<1>4. x.at = "decide" /\ x.owner = c.owner /\ CallOK(x)
  BY <1>2, <1>3 DEF CallOK, Located
<1>5. \A z \in Calls \ {s} : HoldsWallet(z) => call[z].owner # x.owner
  BY <1>1, <1>4 DEF LockWallet, WalletFree
<1>6. call' = [call EXCEPT ![s] = x] /\ UNCHANGED <<tables, clock>>
  BY <1>1, <1>2 DEF LockWallet
<1> QED
  BY <1>4, <1>5, <1>6, MoveCall

\* What a settlement owes is named after the invitee and the invitee's codes.
LEMMA OwedKeys ==
  ASSUME NEW u, NEW done \in BOOLEAN, NEW p \in Payouts(u, done, CodesOf(codes, u))
  PROVE  ReferralKey(p.key, u)
<1>1. p \in Owed(u, CodesOf(codes, u))
  BY DEF Payouts
<1>2. CASE p.key = FirstKey(u)
  BY <1>2 DEF ReferralKey
<1>3. CASE \E c \in InWindow(CodesOf(codes, u)) : p.key = LaterKey(c.id)
  BY <1>3 DEF ReferralKey, InWindow
<1> QED
  BY <1>1, <1>2, <1>3 DEF Owed

LEMMA ReadOwedStep ==
  ASSUME IInv, NEW s \in Calls, ReadOwed(s)
  PROVE  IInv'
<1>1. CASE RollBack(s)
  BY <1>1, RollBackStep
<1>2. CASE ~RollBack(s)
  <2>1. PICK c : c = call[s]
    OBVIOUS
  <2>2. CallOK(c) /\ c.at = "owed"
    BY <2>1 DEF IInv, CallsOK, ReadOwed
  <2>3. PICK owed : owed = Payouts(c.input.user, MissionComplete(c.input.user),
                                   CodesOf(codes, c.input.user))
    OBVIOUS
  <2>4. PICK b \in BindingOf(referrals, c.input.user) :
          /\ call' = [call EXCEPT ![s].at = "wallet", ![s].owed = owed,
                                  ![s].owner = b.inviter]
          /\ UNCHANGED <<tables, clock>>
    BY <1>2, <2>1, <2>3 DEF ReadOwed
  <2>5. PICK x : x = [c EXCEPT !.at = "wallet", !.owed = owed, !.owner = b.inviter]
    OBVIOUS
  <2>6. b \in referrals /\ b.invitee = c.input.user /\ b.inviter \in Users
    BY DEF BindingOf, IInv, Books, ReferralBooks
  <2>7. \A p \in owed : ReferralKey(p.key, c.input.user)
    BY <2>3, OwedKeys DEF MissionComplete
  <2>8. x.at = "wallet" /\ CallOK(x)
    BY <2>2, <2>5, <2>6, <2>7 DEF CallOK, Located
  <2>9. call' = [call EXCEPT ![s] = x]
    BY <2>1, <2>4, <2>5
  <2> QED
    BY <2>4, <2>8, <2>9, MoveCall
<1> QED
  BY <1>1, <1>2

-----------------------------------------------------------------------------
(* Deciding                                                                *)

\* The runs and keys a plan may hold that another plan might: the ids that
\* uuid4 draws.  All the others belong to the holder of the wallet.
Drawn(s, p) ==
  /\ \A r \in DOMAIN p.runs : runs[r].status = "open" \/
       \A z \in Calls : r \notin DOMAIN call[z].plan.runs
  /\ \A id : \A e \in p.entries : e.key = AdjustmentKey(id) =>
       \A z \in Calls : \A f \in call[z].plan.entries : f.key # e.key

\* What a key's first component says of the rest.
LEMMA KeyFamilies ==
  ASSUME NEW key, NEW p, NEW u, NEW input, KeyOK(key, p, u, input)
  PROVE  \/ key[1] = "challenge" /\ key[4] = u
         \/ key[1] = "achievement" /\ key[3] = u
         \/ key[1] = "admin_adjustment" /\ key = AdjustmentKey(key[2])
         \/ key[1] = "code_redemption" /\ input.op = "redeem" /\ key[2] = input.arg
         \/ /\ key[1] \in {"referral:first", "referral:code"}
            /\ input.op = "settle" /\ ReferralKey(key, input.user)
<1>1. CASE \E a, period : key = ChallengeKey(a, period, u)
  BY <1>1 DEF ChallengeKey
<1>2. CASE \E a : key = AchievementKey(a, u)
  BY <1>2 DEF AchievementKey
<1>3. CASE \E id : key = AdjustmentKey(id)
  BY <1>3 DEF AdjustmentKey
<1>4. CASE input.op = "redeem" /\ key = CodeKey(input.arg)
  BY <1>4 DEF CodeKey
<1>5. CASE input.op = "settle" /\ ReferralKey(key, input.user)
  BY <1>5 DEF ReferralKey, FirstKey, LaterKey
<1> QED
  BY <1>1, <1>2, <1>3, <1>4, <1>5 DEF KeyOK

LEMMA DrawnApart ==
  ASSUME IInv, NEW s \in Calls, NEW z \in Calls \ {s}, NEW p, NEW c, NEW d,
         c = call[s], d = call[z],
         c.at = "decide", d.at = "commit", PlanOK(p, c.owner, c.input), Drawn(s, p)
  PROVE  Apart(p, d.plan)
<1>1. /\ CallOK(c) /\ CallOK(d) /\ PlanOK(d.plan, d.owner, d.input)
      /\ c.owner # d.owner
  BY DEF IInv, CallsOK, WalletMutex, HoldsWallet, Plans
<1>2. DOMAIN p.runs \cap DOMAIN d.plan.runs = {}
  <2> SUFFICES ASSUME NEW r \in DOMAIN p.runs, r \in DOMAIN d.plan.runs PROVE FALSE
    OBVIOUS
  <2>1. runs[r].status = "open"
    BY DEF Drawn
  <2>2. runs[r].user = c.owner /\ runs[r].user = d.owner
    BY <1>1, <2>1 DEF PlanOK, RunsOK, Unissued
  <2> QED
    BY <1>1, <2>2
<1>3. ASSUME NEW e \in p.entries, NEW f \in d.plan.entries, e.key = f.key
      PROVE  FALSE
  <2>1. KeyOK(e.key, p, c.owner, c.input) /\ KeyOK(e.key, d.plan, d.owner, d.input)
    BY <1>1, <1>3 DEF PlanOK, EntriesOK
  <2>2. \A id : e.key # AdjustmentKey(id)
    BY <1>3 DEF Drawn
  <2>3. \/ /\ e.key[1] = "code_redemption"
           /\ c.input.op = "redeem" /\ d.input.op = "redeem" /\ c.input.arg = d.input.arg
        \/ /\ c.input.op = "settle" /\ ReferralKey(e.key, c.input.user)
           /\ d.input.op = "settle" /\ ReferralKey(e.key, d.input.user)
    <3>1. \/ e.key[1] = "challenge" /\ e.key[4] = c.owner
          \/ e.key[1] = "achievement" /\ e.key[3] = c.owner
          \/ e.key[1] = "code_redemption" /\ c.input.op = "redeem" /\ e.key[2] = c.input.arg
          \/ /\ e.key[1] \in {"referral:first", "referral:code"}
             /\ c.input.op = "settle" /\ ReferralKey(e.key, c.input.user)
      BY <2>1, <2>2, KeyFamilies
    <3>2. \/ e.key[1] = "challenge" /\ e.key[4] = d.owner
          \/ e.key[1] = "achievement" /\ e.key[3] = d.owner
          \/ e.key[1] = "code_redemption" /\ d.input.op = "redeem" /\ e.key[2] = d.input.arg
          \/ /\ e.key[1] \in {"referral:first", "referral:code"}
             /\ d.input.op = "settle" /\ ReferralKey(e.key, d.input.user)
      BY <2>1, <2>2, KeyFamilies
    <3> QED
      BY <1>1, <3>1, <3>2
  <2>4. CASE c.input.op = "redeem" /\ d.input.op = "redeem" /\ c.input.arg = d.input.arg
    BY <1>1, <2>4, EconomyAssumption DEF CallOK, Located
  <2>5. CASE /\ c.input.op = "settle" /\ ReferralKey(e.key, c.input.user)
             /\ d.input.op = "settle" /\ ReferralKey(e.key, d.input.user)
    <3>1. c.input.user = d.input.user
      BY <2>5 DEF ReferralKey, FirstKey, LaterKey, CodesOf, IInv, Books, CodeBooks
    <3> QED
      BY <1>1, <2>5, <3>1 DEF CallOK, Located, IInv, Books, ReferralBooks
  <2> QED
    BY <2>3, <2>4, <2>5
<1> QED
  BY <1>2, <1>3 DEF Apart

LEMMA ProposeStep ==
  ASSUME IInv, NEW s \in Calls, NEW c, c = call[s], c.at = "decide", NEW p, Propose(s, p),
         PlanOK(p, c.owner, c.input), Drawn(s, p)
  PROVE  IInv'
<1>1. CallOK(c)
  BY DEF IInv, CallsOK
<1>2. PICK x : x = [c EXCEPT !.at = "commit", !.plan = p]
  OBVIOUS
<1>3. x.at = "commit" /\ x.plan = p /\ x.owner = c.owner /\ x.input = c.input /\ CallOK(x)
  BY <1>1, <1>2 DEF CallOK, Located
<1>4. \A z \in Calls \ {s} : HoldsWallet(z) => call[z].owner # x.owner
  BY <1>3 DEF IInv, CallsOK, WalletMutex, HoldsWallet
<1>5. ASSUME NEW z \in Calls \ {s}, call[z].at = "commit"
      PROVE  Apart(x.plan, call[z].plan)
  <2>1. PICK d : d = call[z]
    OBVIOUS
  <2> QED
    BY <1>3, <1>5, <2>1, DrawnApart
<1>6. call' = [call EXCEPT ![s] = x] /\ UNCHANGED <<tables, clock>>
  BY <1>2 DEF Propose
<1> QED
  BY <1>3, <1>4, <1>5, <1>6, MoveCall

LEMMA DecideFacts ==
  ASSUME IInv, NEW s \in Calls, NEW c, c = call[s], c.at = "decide"
  PROVE  CallOK(c) /\ c.owner \in Users /\ c.now \in Nat /\ c.input \in Inputs
BY DEF IInv, CallsOK, CallOK, Located

LEMMA StartRunStep ==
  ASSUME IInv, NEW s \in Calls, StartRun(s)
  PROVE  IInv'
<1>1. PICK c : c = call[s]
  OBVIOUS
<1>2. c.at = "decide" /\ c.input.op = "start_run"
  BY <1>1 DEF StartRun, Deciding
<1>3. CallOK(c) /\ c.owner \in Users /\ c.now \in Nat /\ c.owner = c.input.user
  BY <1>1, <1>2, DecideFacts DEF CallOK, Located
<1>4. PICK new \in FreshRuns : new = CHOOSE r \in FreshRuns : TRUE
  BY DEF StartRun
<1>5. PICK old : old = Replaced(c.owner, c.now)
  OBVIOUS
<1>6. PICK rows : rows = [r \in {new} \cup DOMAIN old |->
                            IF r = new THEN OpenRun(c.owner, c.now) ELSE old[r]]
  OBVIOUS
<1>7. PICK p : p = [Nothing EXCEPT !.runs = rows]
  OBVIOUS
<1>8. Propose(s, p)
  BY <1>1, <1>3, <1>4, <1>5, <1>6, <1>7 DEF StartRun
<1>9. DOMAIN old = RunsOf(runs, c.owner, "open")
  BY <1>5 DEF Replaced
<1>10. /\ new \in RunIds /\ runs[new] = Unissued
       /\ \A z \in Calls : new \notin DOMAIN call[z].plan.runs
  BY <1>4 DEF FreshRuns
<1>11. \A r \in DOMAIN old : /\ r \in RunIds /\ runs[r].user = c.owner /\ runs[r].status = "open"
                             /\ old[r] = Finish(runs[r], "expired", c.now, "none")
  BY <1>5, <1>9 DEF RunsOf, Replaced
<1>12. OpenRun(c.owner, c.now) \in Rows /\ OpenRun(c.owner, c.now).status = "open"
       /\ OpenRun(c.owner, c.now).user = c.owner
  BY <1>3 DEF OpenRun, Unissued, Rows
<1>13. \A r \in DOMAIN old : /\ old[r] \in Rows /\ old[r].user = c.owner
                             /\ old[r].status = "expired"
  <2> SUFFICES ASSUME NEW r \in DOMAIN old
               PROVE  old[r] \in Rows /\ old[r].user = c.owner /\ old[r].status = "expired"
    OBVIOUS
  <2>1. runs[r] \in Rows
    BY <1>11 DEF IInv, Books, RunBooks
  <2> QED
    BY <1>3, <1>11, <2>1 DEF Finish, Rows, Terminal
<1>14. DOMAIN p.runs = {new} \cup DOMAIN old /\ p.runs = rows
  BY <1>6, <1>7 DEF Nothing
<1>15. RunsOK(p, c.owner) /\ FlagOK(p, c.owner)
  <2>1. IsFiniteSet({new} \cup DOMAIN old)
    <3>1. DOMAIN old \subseteq Issued
      BY <1>9 DEF RunsOf, Issued
    <3> QED
      BY <3>1, FS_Subset, FS_AddElement DEF IInv, Books, AuditBooks
  <2>2. RunsOK(p, c.owner)
    BY <1>6, <1>9, <1>10, <1>11, <1>12, <1>13, <1>14, <2>1 DEF RunsOK, Terminal, RunsOf
  <2>3. \A r \in DOMAIN p.runs : p.runs[r].status # "rejected"
    BY <1>6, <1>12, <1>13, <1>14
  <2> QED
    BY <2>2, <2>3 DEF FlagOK
<1>16. TeamsOK(p, c.owner) /\ RowsOK(p, c.owner, c.input) /\ EntriesOK(p, c.owner, c.input)
  BY <1>7 DEF TeamsOK, RowsOK, EntriesOK, Nothing
<1>17. Drawn(s, p)
  BY <1>7, <1>10, <1>11, <1>14 DEF Drawn, Nothing
<1> QED
  BY <1>1, <1>2, <1>8, <1>15, <1>16, <1>17, ProposeStep DEF PlanOK

\* A moment is not before the midnight its local date begins with.
LEMMA DayBegins ==
  ASSUME NEW t \in Nat, NEW now \in Nat, LocalDate(t) = LocalDate(now)
  PROVE  t >= LocalMidnight(LocalDate(now))
BY PeriodsAssumption DEF LocalDate, LocalMidnight

LEMMA FinishRunStep ==
  ASSUME IInv, NEW s \in Calls, FinishRun(s)
  PROVE  IInv'
<1>1. PICK c : c = call[s]
  OBVIOUS
<1>2. c.at = "decide" /\ c.input.op = "finish_run"
  BY <1>1 DEF FinishRun, Deciding
<1>3. CallOK(c) /\ c.owner \in Users /\ c.now \in Nat /\ c.input \in Inputs
      /\ c.owner = c.input.user
  BY <1>1, <1>2, DecideFacts DEF CallOK, Located
<1>4. PICK r : r = c.input.arg /\ r \in RunIds
  BY <1>2, <1>3, EconomyAssumption
<1>5. PICK verdict : verdict = Verdict(runs[r], c.owner, c.input.note, c.now)
  OBVIOUS
<1>6. CASE verdict = "refused"
  <2>1. RollBack(s)
    BY <1>1, <1>3, <1>4, <1>5, <1>6 DEF FinishRun
  <2> QED
    BY <2>1, RollBackStep
<1>7. CASE verdict # "refused"
  <2>1. PICK row : row = [z \in {r} |-> Finish(runs[r], verdict, c.now, c.input.note)]
    OBVIOUS
  <2>2. PICK flags :
          /\ Propose(s, [Nothing EXCEPT !.runs = row, !.audit = flags])
          /\ flags = IF /\ verdict = "rejected"
                        /\ Abusive(RejectedSince(Written(row), c.owner, DayStart(c.now)))
                     THEN {[entity |-> "mini_game_run_abuse", user |-> c.owner, at |-> c.now]}
                     ELSE {}
    BY <1>1, <1>3, <1>4, <1>5, <1>7, <2>1 DEF FinishRun
  <2>3. PICK p : p = [Nothing EXCEPT !.runs = row, !.audit = flags]
    OBVIOUS
  <2>4. /\ runs[r].user = c.owner /\ runs[r].status = "open"
        /\ verdict \in Terminal
    BY <1>5, <1>7 DEF Verdict, Terminal
  <2>5. p.runs = row /\ DOMAIN p.runs = {r}
    BY <2>1, <2>3 DEF Nothing
  <2>6. row[r] \in Rows /\ row[r].user = c.owner /\ row[r].status = verdict
    <3>1. runs[r] \in Rows /\ c.now \in Nat
      BY <1>3, <1>4 DEF IInv, Books, RunBooks
    <3> QED
      BY <3>1, <2>1, <2>4 DEF Finish, Rows
  <2>7. RunsOK(p, c.owner)
    BY <1>4, <2>4, <2>5, <2>6, FS_Singleton DEF RunsOK, Terminal
  <2>8. TeamsOK(p, c.owner) /\ RowsOK(p, c.owner, c.input) /\ EntriesOK(p, c.owner, c.input)
    BY <2>3 DEF TeamsOK, RowsOK, EntriesOK, Nothing
  <2>9. Drawn(s, p)
    BY <2>3, <2>4, <2>5 DEF Drawn, Nothing
  <2>10. FlagOK(p, c.owner)
    <3> SUFFICES ASSUME NEW d \in Int, row[r].status = "rejected",
                        LocalDate(row[r].finishedAt) = d,
                        Cardinality(RejectedOn(Written(row), c.owner, d)) >= ReviewThreshold
                 PROVE  Flagged(p.audit, c.owner, d)
      BY <2>5 DEF FlagOK
    <3>1. PICK table : table = Written(row)
      OBVIOUS
    <3>2. row[r].finishedAt = c.now /\ verdict = "rejected" /\ LocalDate(c.now) = d
      BY <1>4, <2>1, <2>6 DEF Finish, IInv, Books, RunBooks, Rows
    <3>3. PICK A, B :
            /\ A = RejectedOn(table, c.owner, d)
            /\ B = {z \in RunsOf(table, c.owner, "rejected") :
                      table[z].finishedAt >= DayStart(c.now)}
      OBVIOUS
    <3>4. IsFiniteSet(B)
      <4>1. B \subseteq Issued \cup {r}
        BY <2>1, <3>1, <3>3 DEF Written, RunsOf, Issued
      <4> QED
        BY <4>1, FS_AddElement, FS_Subset DEF IInv, Books, AuditBooks
    <3>5. A \subseteq B
      <4>1. \A z \in RunIds : table[z].finishedAt \in Nat
        BY <2>1, <2>6, <3>1 DEF Written, IInv, Books, RunBooks, Rows
      <4> QED
        BY <1>3, <3>2, <3>3, <4>1, DayBegins DEF RejectedOn, RunsOf, DayStart
    <3>6. Cardinality(B) >= ReviewThreshold
      <4>1. IsFiniteSet(A) /\ Cardinality(A) \in Nat /\ Cardinality(B) \in Nat
            /\ Cardinality(A) <= Cardinality(B)
        BY <3>4, <3>5, FS_Subset, FS_CardinalityType
      <4> QED
        BY <3>1, <3>3, <4>1, EconomyAssumption
    <3>7. Abusive(RejectedSince(Written(row), c.owner, DayStart(c.now)))
      BY <3>1, <3>3, <3>6 DEF Abusive, RejectedSince
    <3>8. flags = {[entity |-> "mini_game_run_abuse", user |-> c.owner, at |-> c.now]}
      BY <2>2, <3>2, <3>7
    <3>9. p.audit = flags
      BY <2>3 DEF Nothing
    <3> QED
      BY <3>2, <3>8, <3>9 DEF Flagged
  <2> QED
    BY <1>1, <1>2, <2>2, <2>3, <2>7, <2>8, <2>9, <2>10, ProposeStep DEF PlanOK
<1> QED
  BY <1>6, <1>7

\* What a claim proposes, in the names of its proofs.
Claimed(ch, u, period, ids) ==
  [Nothing EXCEPT
     !.claims = {[challenge |-> ch, user |-> u, period |-> period]},
     !.unlocked = {[id |-> a, user |-> u] : a \in ids},
     !.entries = ClaimEntries(ch, period, u) \cup UnlockEntries(ids, u)]

LEMMA ClaimPlan ==
  ASSUME NEW s \in Calls, Claim(s), ~RollBack(s),
         NEW ch, ch = call[s].input.arg, NEW u, u = call[s].input.user,
         NEW period, period = PeriodKey(Catalogue[ch].period, call[s].now),
         NEW ids, ids = NewUnlocks(ch, u, call[s].now)
  PROVE  /\ [challenge |-> ch, user |-> u, period |-> period] \notin claims
         /\ Propose(s, Claimed(ch, u, period, ids))
<1> DEFINE C == call[s].input.arg
           U == call[s].input.user
           P == PeriodKey(Catalogue[C].period, call[s].now)
           D == NewUnlocks(C, U, call[s].now)
<1>1. /\ [challenge |-> C, user |-> U, period |-> P] \notin claims
      /\ Propose(s, Claimed(C, U, P, D))
  BY Zenon DEF Claim, Claimed
<1>2. ch = C /\ u = U
  OBVIOUS
<1>3. period = P /\ ids = D
  BY <1>2, Zenon
<1> HIDE DEF C, U, P, D
<1> QED
  BY <1>1, <1>2, <1>3, Zenon

LEMMA ClaimStep ==
  ASSUME IInv, NEW s \in Calls, Claim(s)
  PROVE  IInv'
<1>1. PICK c : c = call[s]
  OBVIOUS
<1>2. c.at = "decide" /\ c.input.op = "claim"
  BY <1>1 DEF Claim, Deciding
<1>3. CallOK(c) /\ c.owner \in Users /\ c.owner = c.input.user
  BY <1>1, <1>2, DecideFacts DEF CallOK, Located
<1>4. PICK ch, u, period : /\ ch = c.input.arg /\ u = c.owner
                           /\ period = PeriodKey(Catalogue[ch].period, c.now)
  OBVIOUS
<1>5. PICK row : row = [challenge |-> ch, user |-> u, period |-> period]
  OBVIOUS
<1>6. PICK ids : ids = NewUnlocks(ch, u, c.now)
  OBVIOUS
<1>7. CASE RollBack(s)
  BY <1>7, RollBackStep
<1>8. CASE ~RollBack(s)
  <2>1. PICK p : p = Claimed(ch, u, period, ids)
    OBVIOUS
  <2>2. Propose(s, p) /\ row \notin claims
    <3>1. /\ ch = call[s].input.arg /\ u = call[s].input.user
          /\ period = PeriodKey(Catalogue[ch].period, call[s].now)
          /\ ids = NewUnlocks(ch, u, call[s].now)
      BY <1>1, <1>3, <1>4, <1>6
    <3>2. /\ [challenge |-> ch, user |-> u, period |-> period] \notin claims
          /\ Propose(s, Claimed(ch, u, period, ids))
      BY <3>1, <1>8, ClaimPlan
    <3> QED
      BY <3>2, <1>5, <2>1
  <2>3. \A a \in ids : [id |-> a, user |-> u] \notin unlocked
    BY <1>6 DEF NewUnlocks, Unlocks
  <2>4. \A e \in p.entries :
          \/ e.key = ChallengeKey(ch, period, u)
          \/ \E a \in ids : e.key = AchievementKey(a, u)
    BY <2>1 DEF Claimed, Nothing, ClaimEntries, UnlockEntries, Entry
  <2>5. RunsOK(p, u) /\ FlagOK(p, u) /\ TeamsOK(p, u)
    BY <2>1, FS_EmptySet DEF RunsOK, FlagOK, TeamsOK, Claimed, Nothing
  <2>6. RowsOK(p, u, c.input)
    BY <1>5, <2>1, <2>2, <2>3 DEF RowsOK, Claimed, Nothing
  <2>7. row \in p.claims /\ \A a \in ids : [id |-> a, user |-> u] \in p.unlocked
    BY <1>5, <2>1 DEF Claimed, Nothing
  <2>8. \A e \in p.entries : ~Recorded(e.key)
    BY <1>5, <2>2, <2>3, <2>4 DEF IInv, Books, LedgerBooks
  <2>9. \A e \in p.entries : KeyOK(e.key, p, u, c.input)
    BY <1>5, <2>4, <2>7 DEF KeyOK
  <2>10. Drawn(s, p)
    <3>1. \A id : \A e \in p.entries : e.key # AdjustmentKey(id)
      BY <2>4 DEF ChallengeKey, AchievementKey, AdjustmentKey
    <3> QED
      BY <2>1, <3>1 DEF Drawn, Claimed, Nothing
  <2> QED
    BY <1>1, <1>2, <1>4, <2>2, <2>5, <2>6, <2>8, <2>9, <2>10, ProposeStep
       DEF PlanOK, EntriesOK
<1> QED
  BY <1>7, <1>8

LEMMA RedeemStep ==
  ASSUME IInv, NEW s \in Calls, Redeem(s)
  PROVE  IInv'
<1>1. PICK c : c = call[s]
  OBVIOUS
<1>2. c.at = "decide" /\ c.input.op = "redeem"
  BY <1>1 DEF Redeem, Deciding
<1>3. CallOK(c) /\ c.owner \in Users /\ c.owner = c.input.user
  BY <1>1, <1>2, DecideFacts DEF CallOK, Located
<1>4. CASE RollBack(s)
  BY <1>4, RollBackStep
<1>5. CASE ~RollBack(s)
  <2>1. PICK row : row = [id |-> c.input.arg, user |-> c.owner, flavor |-> c.input.note,
                          at |-> c.now]
    OBVIOUS
  <2>2. PICK p : p = [Nothing EXCEPT
                        !.codes = {row}, !.entries = CodeEntries(c.input.arg, c.owner)]
    OBVIOUS
  <2>3. Propose(s, p) /\ \A d \in codes : d.id # c.input.arg
    BY <1>1, <1>3, <1>5, <2>1, <2>2 DEF Redeem
  <2>4. p.codes = {row} /\ \A e \in p.entries : e.key = CodeKey(c.input.arg)
    BY <2>2 DEF Nothing, CodeEntries, Entry
  <2>5. RunsOK(p, c.owner) /\ FlagOK(p, c.owner) /\ TeamsOK(p, c.owner)
    BY <2>2, FS_EmptySet DEF RunsOK, FlagOK, TeamsOK, Nothing
  <2>6. RowsOK(p, c.owner, c.input)
    BY <1>2, <2>1, <2>2, <2>3 DEF RowsOK, Nothing
  <2>7. EntriesOK(p, c.owner, c.input)
    BY <1>2, <2>1, <2>3, <2>4 DEF EntriesOK, KeyOK, IInv, Books, LedgerBooks
  <2>8. Drawn(s, p)
    <3>1. \A id : \A e \in p.entries : e.key # AdjustmentKey(id)
      BY <2>4 DEF CodeKey, AdjustmentKey
    <3> QED
      BY <2>2, <3>1 DEF Drawn, Nothing
  <2> QED
    BY <1>1, <1>2, <2>3, <2>5, <2>6, <2>7, <2>8, ProposeStep DEF PlanOK
<1> QED
  BY <1>4, <1>5

LEMMA AdjustStep ==
  ASSUME IInv, NEW s \in Calls, Adjust(s)
  PROVE  IInv'
<1>1. PICK c : c = call[s]
  OBVIOUS
<1>2. c.at = "decide" /\ c.input.op = "adjust"
  BY <1>1 DEF Adjust, Deciding
<1>3. CallOK(c) /\ c.owner \in Users /\ c.owner = c.input.user
  BY <1>1, <1>2, DecideFacts DEF CallOK, Located
<1>4. PICK id : id = CHOOSE i \in FreshAdjustments : TRUE
  OBVIOUS
<1>5. id \in FreshAdjustments
  BY <1>4 DEF Adjust
<1>6. CASE RollBack(s)
  BY <1>6, RollBackStep
<1>7. CASE ~RollBack(s)
  <2>1. PICK note : note = [entity |-> "coin_ledger_entry", user |-> c.owner, at |-> c.now]
    OBVIOUS
  <2>2. PICK p : p = [Nothing EXCEPT
                        !.entries = {Entry(AdjustmentKey(id), c.owner, c.input.arg)},
                        !.audit = {note}]
    OBVIOUS
  <2>3. Propose(s, p)
    BY <1>1, <1>3, <1>4, <1>7, <2>1, <2>2 DEF Adjust
  <2>4. \A e \in p.entries : e.key = AdjustmentKey(id)
    BY <2>2 DEF Nothing, Entry
  <2>5. /\ RunsOK(p, c.owner) /\ FlagOK(p, c.owner) /\ TeamsOK(p, c.owner)
        /\ RowsOK(p, c.owner, c.input)
    BY <2>2, FS_EmptySet DEF RunsOK, FlagOK, TeamsOK, RowsOK, Nothing
  <2>6. EntriesOK(p, c.owner, c.input)
    BY <1>5, <2>4 DEF EntriesOK, KeyOK, FreshAdjustments
  <2>7. Drawn(s, p)
    BY <1>5, <2>2, <2>4 DEF Drawn, Nothing, FreshAdjustments
  <2> QED
    BY <1>1, <1>2, <2>3, <2>5, <2>6, <2>7, ProposeStep DEF PlanOK
<1> QED
  BY <1>6, <1>7

LEMMA BindStep ==
  ASSUME IInv, NEW s \in Calls, Bind(s)
  PROVE  IInv'
<1>1. PICK c : c = call[s]
  OBVIOUS
<1>2. c.at = "decide" /\ c.input.op = "bind"
  BY <1>1 DEF Bind, Deciding
<1>3. CallOK(c) /\ c.owner \in Users /\ c.owner = c.input.user /\ c.input \in Inputs
  BY <1>1, <1>2, DecideFacts DEF CallOK, Located
<1>4. CASE RollBack(s)
  BY <1>4, RollBackStep
<1>5. CASE ~RollBack(s)
  <2>1. PICK row : row = [invitee |-> c.owner, inviter |-> c.input.arg]
    OBVIOUS
  <2>2. PICK p : p = [Nothing EXCEPT !.referrals = {row}]
    OBVIOUS
  <2>3. Propose(s, p) /\ CanBind(referrals, c.owner, c.input.arg, CodesOf(codes, c.owner))
    BY <1>1, <1>3, <1>5, <2>1, <2>2 DEF Bind
  <2>4. /\ RunsOK(p, c.owner) /\ FlagOK(p, c.owner) /\ TeamsOK(p, c.owner)
        /\ EntriesOK(p, c.owner, c.input)
    BY <2>2, FS_EmptySet DEF RunsOK, FlagOK, TeamsOK, EntriesOK, Nothing
  <2>5. RowsOK(p, c.owner, c.input)
    BY <1>2, <1>3, <2>1, <2>2, <2>3, EconomyAssumption DEF RowsOK, Nothing, CanBind
  <2>6. Drawn(s, p)
    BY <2>2 DEF Drawn, Nothing
  <2> QED
    BY <1>1, <1>2, <2>3, <2>4, <2>5, <2>6, ProposeStep DEF PlanOK
<1> QED
  BY <1>4, <1>5

LEMMA SettleStep ==
  ASSUME IInv, NEW s \in Calls, Settle(s)
  PROVE  IInv'
<1>1. PICK c : c = call[s]
  OBVIOUS
<1>2. c.at = "decide" /\ c.input.op = "settle"
  BY <1>1 DEF Settle, Deciding
<1>3. CallOK(c) /\ \A q \in c.owed : ReferralKey(q.key, c.input.user)
  BY <1>1, <1>2, DecideFacts DEF CallOK, Located
<1>4. PICK due : due = Unpaid(c.owed)
  OBVIOUS
<1>5. PICK first : first = {<<c.input.user, q.code>> :
                              q \in {d \in due : d.key = FirstKey(c.input.user)}}
  OBVIOUS
<1>6. PICK p : p = [Nothing EXCEPT
                      !.entries = {Entry(q.key, c.owner, q.amount) : q \in due},
                      !.first = first]
  OBVIOUS
<1>7. Propose(s, p)
  BY <1>1, <1>4, <1>5, <1>6 DEF Settle
<1>8. \A e \in p.entries : ~Recorded(e.key) /\ ReferralKey(e.key, c.input.user)
  BY <1>3, <1>4, <1>6 DEF Nothing, Entry, Unpaid
<1>9. RunsOK(p, c.owner) /\ FlagOK(p, c.owner) /\ TeamsOK(p, c.owner) /\ RowsOK(p, c.owner, c.input)
  BY <1>6, FS_EmptySet DEF RunsOK, FlagOK, TeamsOK, RowsOK, Nothing
<1>10. EntriesOK(p, c.owner, c.input)
  BY <1>2, <1>8 DEF EntriesOK, KeyOK
<1>11. Drawn(s, p)
  <2>1. \A id : \A e \in p.entries : e.key # AdjustmentKey(id)
    BY <1>8 DEF ReferralKey, FirstKey, LaterKey, AdjustmentKey
  <2> QED
    BY <1>6, <2>1 DEF Drawn, Nothing
<1> QED
  BY <1>1, <1>2, <1>7, <1>9, <1>10, <1>11, ProposeStep DEF PlanOK

LEMMA FlavorCount ==
  ASSUME CodeBooks, NEW u, NEW flavor
  PROVE  FlavorCodes(codes, u, flavor) \in Nat
BY FS_Subset, FS_CardinalityType DEF CodeBooks, FlavorCodes, CodesOf

LEMMA ChangeTeamStep ==
  ASSUME IInv, NEW s \in Calls, ChangeTeam(s)
  PROVE  IInv'
<1>1. PICK c : c = call[s]
  OBVIOUS
<1>2. c.at = "decide" /\ c.input.op = "team"
  BY <1>1 DEF ChangeTeam, Deciding
<1>3. CallOK(c) /\ c.owner \in Users /\ c.owner = c.input.user /\ c.now \in Nat
  BY <1>1, <1>2, DecideFacts DEF CallOK, Located
<1>4. PICK u, flavor, count : /\ u = c.owner /\ flavor = c.input.arg
                              /\ count = FlavorCodes(codes, u, flavor)
  OBVIOUS
<1>5. PICK new : new = Membership(Current(teams, u), u, flavor, count, c.now)
  OBVIOUS
<1>6. CASE RollBack(s)
  BY <1>6, RollBackStep
<1>7. CASE ~RollBack(s)
  <2>1. PICK p : p = [Nothing EXCEPT !.teams = new]
    OBVIOUS
  <2>2. Propose(s, p) /\ new # {}
    BY <1>1, <1>3, <1>4, <1>5, <1>7, <2>1 DEF ChangeTeam
  <2>3. PICK m : /\ new = {m}
                 /\ m = [user |-> u, flavor |-> flavor, joinedAt |-> c.now,
                         switchNo |-> IF Current(teams, u) = {} THEN 0
                                      ELSE (CHOOSE n \in Current(teams, u) : TRUE).switchNo + 1]
    BY <1>5, <2>2 DEF Membership
  <2>4. /\ \A n \in Current(teams, u) : n.flavor # flavor /\ c.now >= n.joinedAt + TeamLock
        /\ count >= UnlockThreshold
    <3>1. /\ ~ \E n \in Current(teams, u) : n.flavor = flavor
          /\ ~(count < UnlockThreshold)
          /\ ~Locked(Current(teams, u), c.now)
      BY <1>5, <2>2 DEF Membership
    <3>2. count \in Nat
      BY <1>4, FlavorCount DEF IInv, Books
    <3>3. \A n \in Current(teams, u) : n.joinedAt \in Nat
      BY DEF Current, IInv, Books, TeamBooks
    <3> QED
      BY <1>3, <3>1, <3>2, <3>3, TeamsAssumption DEF Locked
  <2>5. /\ m.switchNo \in Nat
        /\ \A n \in teams : n.user = u => n.switchNo < m.switchNo
        /\ m.switchNo > 0 =>
             \E n \in teams : /\ n.user = u /\ n.switchNo = m.switchNo - 1
                              /\ n.flavor # flavor /\ c.now >= n.joinedAt + TeamLock
    <3>1. CASE Current(teams, u) = {}
      BY <2>3, <3>1 DEF IInv, Books, TeamBooks
    <3>2. CASE Current(teams, u) # {}
      <4>1. PICK last \in Current(teams, u) : last = CHOOSE n \in Current(teams, u) : TRUE
        BY <3>2
      <4>2. /\ last \in teams /\ last.user = u /\ last.switchNo \in Nat
            /\ \A n \in teams : n.user = u => n.switchNo \in Nat /\ n.switchNo <= last.switchNo
        BY DEF Current, IInv, Books, TeamBooks
      <4>3. m.switchNo = last.switchNo + 1
        BY <2>3, <3>2, <4>1
      <4> QED
        BY <2>4, <4>2, <4>3
    <3> QED
      BY <3>1, <3>2
  <2>6. TeamsOK(p, u)
    BY <1>3, <1>4, <2>1, <2>3, <2>4, <2>5 DEF TeamsOK, Nothing
  <2>7. /\ RunsOK(p, u) /\ FlagOK(p, u) /\ RowsOK(p, u, c.input)
        /\ EntriesOK(p, u, c.input) /\ Drawn(s, p)
    BY <2>1, FS_EmptySet DEF RunsOK, FlagOK, RowsOK, EntriesOK, Drawn, Nothing
  <2> QED
    BY <1>1, <1>2, <1>4, <2>2, <2>6, <2>7, ProposeStep DEF PlanOK
<1> QED
  BY <1>6, <1>7

-----------------------------------------------------------------------------
(* Committing                                                              *)

\* Two open runs of a player never appear, nor any other clash of rows.
LEMMA PlanFits ==
  ASSUME IInv, NEW p, NEW u \in Users, NEW i, PlanOK(p, u, i)
  PROVE  ~Conflicts(p)
<1>1. ASSUME NEW r \in RunIds, NEW z \in RunIds, r # z,
             Written(p.runs)[r].status = "open", Written(p.runs)[z].status = "open"
      PROVE  Written(p.runs)[r].user # Written(p.runs)[z].user
  BY <1>1 DEF Written, PlanOK, RunsOK, Terminal, IInv, Books, RunBooks
<1>2. ~ \E m \in p.teams, n \in teams : m.user = n.user /\ m.switchNo = n.switchNo
  BY DEF PlanOK, TeamsOK, IInv, Books, TeamBooks
<1>3. ~ \E b \in p.referrals : BindingOf(referrals, b.invitee) # {}
  BY DEF PlanOK, RowsOK
<1>4. p.claims \cap claims = {} /\ p.unlocked \cap unlocked = {}
  BY DEF PlanOK, RowsOK
<1>5. ~ \E e \in p.entries : Recorded(e.key)
  BY DEF PlanOK, EntriesOK
<1> QED
  BY <1>1, <1>2, <1>3, <1>4, <1>5 DEF Conflicts

LEMMA CommitFacts ==
  ASSUME IInv, NEW s \in Calls, Commit(s), NEW c, c = call[s]
  PROVE  /\ CallOK(c) /\ c.at = "commit" /\ c.owner \in Users /\ c.input \in Inputs
         /\ PlanOK(c.plan, c.owner, c.input)
         /\ \A z \in Calls \ {s} : HoldsWallet(z) => call[z].owner # c.owner
BY DEF Commit, IInv, CallsOK, CallOK, Located, Plans, WalletMutex, HoldsWallet

LEMMA CommitRuns ==
  ASSUME IInv, NEW p, NEW u \in Users, NEW i, PlanOK(p, u, i), runs' = Written(p.runs)
  PROVE  RunBooks'
<1>1. \A r \in RunIds : runs'[r] = IF r \in DOMAIN p.runs THEN p.runs[r] ELSE runs[r]
  BY DEF Written
<1>2. runs' \in [RunIds -> Rows]
  BY DEF Written, PlanOK, RunsOK, IInv, Books, RunBooks
<1>3. \A r \in RunIds : /\ runs'[r].status = "none" => runs'[r] = Unissued
                        /\ runs'[r].status = "open" => runs'[r].user \in Users
  BY <1>1 DEF PlanOK, RunsOK, Terminal, IInv, Books, RunBooks
<1>4. ~Conflicts(p)
  BY PlanFits
<1>5. \A r, z \in RunIds :
        r # z /\ runs'[r].status = "open" /\ runs'[z].status = "open"
          => runs'[r].user # runs'[z].user
  BY <1>4 DEF Conflicts
<1> QED
  BY <1>2, <1>3, <1>5 DEF RunBooks, Rows

\* More codes never make a flavor's count smaller.
LEMMA CountGrows ==
  ASSUME IsFiniteSet(codes'), codes \subseteq codes', NEW u, NEW flavor
  PROVE  /\ FlavorCodes(codes, u, flavor) \in Nat
         /\ FlavorCodes(codes', u, flavor) \in Nat
         /\ FlavorCodes(codes, u, flavor) <= FlavorCodes(codes', u, flavor)
<1>1. PICK A, B : /\ A = {c \in CodesOf(codes, u) : c.flavor = flavor}
                  /\ B = {c \in CodesOf(codes', u) : c.flavor = flavor}
  OBVIOUS
<1>2. A \subseteq B /\ B \subseteq codes'
  BY <1>1 DEF CodesOf
<1>3. IsFiniteSet(A) /\ IsFiniteSet(B)
  BY <1>2, FS_Subset
<1>4. Cardinality(A) \in Nat /\ Cardinality(B) \in Nat /\ Cardinality(A) <= Cardinality(B)
  BY <1>2, <1>3, FS_Subset, FS_CardinalityType
<1> QED
  BY <1>1, <1>4 DEF FlavorCodes

LEMMA CommitCodes ==
  ASSUME IInv, NEW p, NEW u, NEW i, PlanOK(p, u, i), codes' = codes \cup p.codes
  PROVE  CodeBooks'
<1>1. IsFiniteSet(p.codes)
  <2>1. CASE p.codes = {}
    BY <2>1, FS_EmptySet
  <2>2. CASE p.codes # {}
    <3>1. PICK c \in p.codes : \A d \in p.codes : c = d
      BY <2>2 DEF PlanOK, RowsOK
    <3>2. p.codes = {c}
      BY <3>1
    <3> QED
      BY <3>2, FS_Singleton
  <2> QED
    BY <2>1, <2>2
<1>2. IsFiniteSet(codes')
  BY <1>1, FS_Union DEF IInv, Books, CodeBooks
<1>3. \A c, d \in codes' : c.id = d.id => c = d
  BY DEF PlanOK, RowsOK, IInv, Books, CodeBooks
<1> QED
  BY <1>2, <1>3 DEF CodeBooks

LEMMA CommitTeams ==
  ASSUME IInv, NEW p, NEW u, NEW i, PlanOK(p, u, i), teams' = teams \cup p.teams,
         IsFiniteSet(codes'), codes \subseteq codes'
  PROVE  TeamBooks'
<1>1. /\ \A m \in teams' : m.switchNo \in Nat /\ m.joinedAt \in Nat
      /\ \A m, n \in teams' : m.user = n.user /\ m.switchNo = n.switchNo => m = n
  BY DEF PlanOK, TeamsOK, IInv, Books, TeamBooks
<1>2. ASSUME NEW m \in teams'
      PROVE  Current(teams', m.user) # {}
  <2>1. CASE \E n \in p.teams : n.user = m.user
    <3>1. PICK n \in p.teams : n.user = m.user
      BY <2>1
    <3>2. n \in Current(teams', m.user)
      BY <3>1 DEF Current, PlanOK, TeamsOK, IInv, Books, TeamBooks
    <3> QED
      BY <3>2
  <2>2. CASE ~ \E n \in p.teams : n.user = m.user
    <3>1. m \in teams /\ Current(teams', m.user) = Current(teams, m.user)
      BY <2>2 DEF Current
    <3> QED
      BY <3>1 DEF IInv, Books, TeamBooks
  <2> QED
    BY <2>1, <2>2
<1>3. \A m \in teams' : FlavorCodes(codes', m.user, m.flavor) >= UnlockThreshold
  <2> SUFFICES ASSUME NEW m \in teams'
               PROVE  FlavorCodes(codes', m.user, m.flavor) >= UnlockThreshold
    OBVIOUS
  <2>1. FlavorCodes(codes, m.user, m.flavor) >= UnlockThreshold
    BY DEF PlanOK, TeamsOK, IInv, Books, TeamBooks, SwitchesRespectLock
  <2> QED
    BY <2>1, CountGrows, TeamsAssumption
<1>4. \A m \in teams' : m.switchNo > 0 =>
        \E n \in teams' : /\ n.user = m.user /\ n.switchNo = m.switchNo - 1
                          /\ n.flavor # m.flavor
                          /\ m.joinedAt >= n.joinedAt + TeamLock
  BY DEF PlanOK, TeamsOK, IInv, Books, TeamBooks, SwitchesRespectLock
<1> QED
  BY <1>1, <1>2, <1>3, <1>4 DEF TeamBooks, SwitchesRespectLock

LEMMA CommitLedger ==
  ASSUME IInv, NEW p, NEW u, NEW i, PlanOK(p, u, i),
         claims' = claims \cup p.claims, unlocked' = unlocked \cup p.unlocked,
         codes' = codes \cup p.codes, ledger' = ledger \cup p.entries
  PROVE  LedgerBooks'
<1>1. \A key : Recorded(key)' => Recorded(key) \/ KeyOK(key, p, u, i)
  BY DEF Recorded, PlanOK, EntriesOK
<1>2. ASSUME NEW c, NEW period, NEW v, Recorded(ChallengeKey(c, period, v))'
      PROVE  [challenge |-> c, user |-> v, period |-> period] \in claims'
  <2>1. PICK key : key = ChallengeKey(c, period, v)
    OBVIOUS
  <2>2. CASE Recorded(key)
    BY <2>1, <2>2 DEF IInv, Books, LedgerBooks
  <2>3. CASE KeyOK(key, p, u, i)
    <3>1. \E d, q : /\ key = ChallengeKey(d, q, u)
                    /\ [challenge |-> d, user |-> u, period |-> q] \in p.claims
      BY <2>1, <2>3 DEF KeyOK, ReferralKey, ChallengeKey, AchievementKey, AdjustmentKey,
         CodeKey, FirstKey, LaterKey
    <3> QED
      BY <2>1, <3>1 DEF ChallengeKey
  <2> QED
    BY <1>1, <1>2, <2>1, <2>2, <2>3
<1>3. ASSUME NEW a, NEW v, Recorded(AchievementKey(a, v))'
      PROVE  [id |-> a, user |-> v] \in unlocked'
  <2>1. PICK key : key = AchievementKey(a, v)
    OBVIOUS
  <2>2. CASE Recorded(key)
    BY <2>1, <2>2 DEF IInv, Books, LedgerBooks
  <2>3. CASE KeyOK(key, p, u, i)
    <3>1. \E b : key = AchievementKey(b, u) /\ [id |-> b, user |-> u] \in p.unlocked
      BY <2>1, <2>3 DEF KeyOK, ReferralKey, ChallengeKey, AchievementKey, AdjustmentKey,
         CodeKey, FirstKey, LaterKey
    <3> QED
      BY <2>1, <3>1 DEF AchievementKey
  <2> QED
    BY <1>1, <1>3, <2>1, <2>2, <2>3
<1>4. ASSUME NEW id, Recorded(CodeKey(id))'
      PROVE  \E d \in codes' : d.id = id
  <2>1. PICK key : key = CodeKey(id)
    OBVIOUS
  <2>2. CASE Recorded(key)
    BY <2>1, <2>2 DEF IInv, Books, LedgerBooks
  <2>3. CASE KeyOK(key, p, u, i)
    <3>1. key = CodeKey(i.arg) /\ \E d \in p.codes : d.id = i.arg
      BY <2>1, <2>3 DEF KeyOK, ReferralKey, ChallengeKey, AchievementKey, AdjustmentKey,
         CodeKey, FirstKey, LaterKey
    <3> QED
      BY <2>1, <3>1 DEF CodeKey
  <2> QED
    BY <1>1, <1>4, <2>1, <2>2, <2>3
<1> QED
  BY <1>2, <1>3, <1>4 DEF LedgerBooks

\* A plan stays right while rows of another player are written.
LEMMA OthersRest ==
  ASSUME IInv, NEW p, NEW u, NEW i, PlanOK(p, u, i),
         NEW q, NEW v \in Users, NEW j, PlanOK(q, v, j), Apart(q, p), u # v,
         i.op = "redeem" /\ j.op = "redeem" => i.arg # j.arg,
         runs' = Written(p.runs), claims' = claims \cup p.claims,
         unlocked' = unlocked \cup p.unlocked, teams' = teams \cup p.teams,
         referrals' = referrals \cup p.referrals, codes' = codes \cup p.codes,
         ledger' = ledger \cup p.entries
  PROVE  PlanOK(q, v, j)'
<1>1. RunsOK(q, v)'
  <2>1. \A r \in RunIds : runs'[r] = IF r \in DOMAIN p.runs THEN p.runs[r] ELSE runs[r]
    BY DEF Written
  <2>2. \A r \in DOMAIN q.runs : r \in RunIds /\ runs'[r] = runs[r]
    BY <2>1 DEF Apart, PlanOK, RunsOK
  <2>3. \A z \in RunIds : runs'[z].status = "open" /\ runs'[z].user = v =>
          runs[z].status = "open" /\ runs[z].user = v
    BY <2>1 DEF PlanOK, RunsOK
  <2> QED
    BY <2>2, <2>3 DEF PlanOK, RunsOK, Rows
<1>2. TeamsOK(q, v)'
  <2>1. IsFiniteSet(codes') /\ codes \subseteq codes'
    BY CommitCodes DEF CodeBooks
  <2>2. ASSUME NEW m \in q.teams
        PROVE  FlavorCodes(codes', v, m.flavor) >= UnlockThreshold
    <3>1. FlavorCodes(codes, v, m.flavor) >= UnlockThreshold
      BY DEF PlanOK, TeamsOK
    <3>2. /\ FlavorCodes(codes, v, m.flavor) \in Nat
          /\ FlavorCodes(codes', v, m.flavor) \in Nat
          /\ FlavorCodes(codes, v, m.flavor) <= FlavorCodes(codes', v, m.flavor)
      BY <2>1, CountGrows
    <3> QED
      BY <3>1, <3>2, TeamsAssumption
  <2>3. \A n \in teams' : n.user = v => n \in teams
    BY DEF PlanOK, TeamsOK
  <2> QED
    BY <2>2, <2>3 DEF PlanOK, TeamsOK
<1>3. RowsOK(q, v, j)'
  <2>1. \A k \in p.claims : k.user = u
    BY DEF PlanOK, RowsOK
  <2>2. \A k \in p.unlocked : k.user = u
    BY DEF PlanOK, RowsOK
  <2>3. BindingOf(referrals', v) = BindingOf(referrals, v)
    BY DEF PlanOK, RowsOK, BindingOf
  <2>4. CodesOf(codes', v) = CodesOf(codes, v)
    BY DEF PlanOK, RowsOK, CodesOf
  <2>5. \A c \in q.codes, d \in codes' : d.id # c.id
    BY DEF PlanOK, RowsOK
  <2> QED
    BY <2>1, <2>2, <2>3, <2>4, <2>5 DEF PlanOK, RowsOK
<1>4. EntriesOK(q, v, j)'
  <2>1. \A e \in q.entries : ~Recorded(e.key)'
    BY DEF PlanOK, EntriesOK, Recorded, Apart
  <2>2. \A key : KeyOK(key, q, v, j) => KeyOK(key, q, v, j)'
    BY DEF KeyOK, ReferralKey, CodesOf
  <2> QED
    BY <2>1, <2>2 DEF PlanOK, EntriesOK
<1>5. FlagOK(q, v)'
  <2>1. \A r \in RunIds : runs'[r] = IF r \in DOMAIN p.runs THEN p.runs[r] ELSE runs[r]
    BY DEF Written
  <2>2. \A r \in DOMAIN p.runs : p.runs[r].user = u /\ runs[r].user # v
    BY EconomyAssumption DEF PlanOK, RunsOK, Unissued
  <2>3. ASSUME NEW d \in Int
        PROVE  RejectedOn(Written(q.runs)', v, d) = RejectedOn(Written(q.runs), v, d)
    BY <2>1, <2>2 DEF RejectedOn, Written
  <2>4. \A d \in Int : RejectedOn(Written(q.runs), v, d)' = RejectedOn(Written(q.runs), v, d)
    BY <2>3 DEF RejectedOn
  <2> QED
    BY <2>4 DEF PlanOK, FlagOK
<1> QED
  BY <1>1, <1>2, <1>3, <1>4, <1>5 DEF PlanOK

LEMMA CommitAudit ==
  ASSUME IInv, NEW p, NEW u \in Users, NEW i, PlanOK(p, u, i), runs' = Written(p.runs),
         audit' = audit \cup p.audit
  PROVE  AuditBooks'
<1>1. \A r \in RunIds : runs'[r] = IF r \in DOMAIN p.runs THEN p.runs[r] ELSE runs[r]
  BY DEF Written
<1>2. IsFiniteSet(Issued')
  <2>1. Issued' \subseteq Issued \cup DOMAIN p.runs
    BY <1>1 DEF Issued
  <2>2. IsFiniteSet(Issued \cup DOMAIN p.runs)
    BY FS_Union DEF PlanOK, RunsOK, IInv, Books, AuditBooks
  <2> QED
    BY <2>1, <2>2, FS_Subset
<1>3. ASSUME NEW v \in Users, NEW d \in Int,
             Cardinality(RejectedOn(runs', v, d)) >= ReviewThreshold
      PROVE  Flagged(audit', v, d)
  <2>1. CASE /\ v = u
             /\ \E r \in DOMAIN p.runs : /\ p.runs[r].status = "rejected"
                                         /\ LocalDate(p.runs[r].finishedAt) = d
    BY <1>3, <2>1 DEF PlanOK, FlagOK, Flagged
  <2>2. CASE ~ /\ v = u
               /\ \E r \in DOMAIN p.runs : /\ p.runs[r].status = "rejected"
                                           /\ LocalDate(p.runs[r].finishedAt) = d
    <3>1. RejectedOn(runs', v, d) \subseteq RejectedOn(runs, v, d)
      BY <1>1, <2>2 DEF RejectedOn, PlanOK, RunsOK
    <3>2. RejectedOn(runs, v, d) \subseteq Issued
      BY DEF RejectedOn, Issued
    <3>3. PICK A, B : A = RejectedOn(runs', v, d) /\ B = RejectedOn(runs, v, d)
      OBVIOUS
    <3>4. /\ Cardinality(A) \in Nat /\ Cardinality(B) \in Nat
          /\ Cardinality(A) <= Cardinality(B)
      BY <3>1, <3>2, <3>3, FS_Subset, FS_CardinalityType DEF IInv, Books, AuditBooks
    <3>5. Cardinality(RejectedOn(runs, v, d)) >= ReviewThreshold
      BY <1>3, <3>3, <3>4, EconomyAssumption
    <3> QED
      BY <3>5 DEF Flagged, IInv, Books, AuditBooks
  <2> QED
    BY <2>1, <2>2
<1> QED
  BY <1>2, <1>3 DEF AuditBooks, RejectedOn, Flagged

LEMMA CommitStep ==
  ASSUME IInv, NEW s \in Calls, Commit(s)
  PROVE  IInv'
<1>1. PICK c : c = call[s]
  OBVIOUS
<1>2. PICK p, u, i : p = c.plan /\ u = c.owner /\ i = c.input
  OBVIOUS
<1>3. /\ CallOK(c) /\ c.at = "commit" /\ u \in Users /\ i \in Inputs /\ PlanOK(p, u, i)
      /\ \A z \in Calls \ {s} : HoldsWallet(z) => call[z].owner # u
  BY <1>1, <1>2, CommitFacts
<1>4. /\ runs' = Written(p.runs) /\ claims' = claims \cup p.claims
      /\ unlocked' = unlocked \cup p.unlocked /\ teams' = teams \cup p.teams
      /\ referrals' = referrals \cup p.referrals /\ codes' = codes \cup p.codes
      /\ ledger' = ledger \cup p.entries /\ audit' = audit \cup p.audit /\ clock' = clock
      /\ call' = [call EXCEPT ![s] = Idle]
  BY <1>1, <1>2 DEF Commit
<1>5. RunBooks' /\ CodeBooks' /\ AuditBooks'
  BY <1>3, <1>4, CommitRuns, CommitCodes, CommitAudit
<1>6. ReferralBooks'
  BY <1>3, <1>4 DEF PlanOK, RowsOK, BindingOf, IInv, Books, ReferralBooks
<1>7. LedgerBooks'
  BY <1>3, <1>4, CommitLedger
<1>8. TeamBooks'
  <2>1. IsFiniteSet(codes') /\ codes \subseteq codes'
    BY <1>4, <1>5 DEF CodeBooks
  <2> QED
    BY <1>3, <1>4, <2>1, CommitTeams
<1>9. call'[s] = Idle /\ \A z \in Calls \ {s} : call'[z] = call[z]
  BY <1>4 DEF IInv, CallsOK
<1>10. \A d : CallOK(d) => CallOK(d)'
  BY <1>4 DEF CallOK, ReferralKey, CodesOf
<1>11. CallsOK'
  <2>1. CallOK(Idle)'
    BY <1>10, IdleOK
  <2>2. \A z \in Calls : CallOK(call[z])'
    BY <1>9, <1>10, <2>1 DEF IInv, CallsOK
  <2>3. WalletMutex'
    BY <1>9 DEF IInv, CallsOK, WalletMutex, HoldsWallet, Idle
  <2> QED
    BY <1>4, <2>2, <2>3 DEF IInv, CallsOK
<1>12. ASSUME NEW z \in Calls \ {s}, NEW d, d = call[z], d.at = "commit"
       PROVE  PlanOK(d.plan, d.owner, d.input)'
  <2>1. /\ CallOK(d) /\ PlanOK(d.plan, d.owner, d.input) /\ Apart(d.plan, p)
        /\ d.owner # u /\ d.owner \in Users
    BY <1>1, <1>2, <1>3, <1>12 DEF IInv, CallsOK, CallOK, Located, Plans, HoldsWallet
  <2>2. i.op = "redeem" /\ d.input.op = "redeem" => i.arg # d.input.arg
    BY <1>2, <1>3, <1>12, <2>1, EconomyAssumption DEF CallOK, Located
  <2> QED
    BY <1>3, <1>4, <2>1, <2>2, OthersRest
<1>13. Plans'
  <2>1. \A z \in Calls : call'[z].at = "commit" => z # s /\ call'[z] = call[z]
    BY <1>9 DEF Idle
  <2>2. \A z \in Calls : call'[z].at = "commit" =>
          PlanOK(call[z].plan, call[z].owner, call[z].input)'
    BY <1>12, <2>1
  <2>3. \A y, z \in Calls : y # z /\ call'[y].at = "commit" /\ call'[z].at = "commit" =>
          Apart(call'[y].plan, call'[z].plan)
    BY <2>1 DEF IInv, Plans
  <2> QED
    BY <2>2, <2>3 DEF Plans
<1> QED
  BY <1>5, <1>6, <1>7, <1>8, <1>11, <1>13 DEF IInv, Books

LEMMA OutsideStep ==
  ASSUME IInv, (\E u \in Users : UpdateProfile(u)) \/ Tick \/ UNCHANGED vars
  PROVE  IInv'
<1>1. UNCHANGED <<runs, claims, unlocked, teams, referrals, codes, ledger, audit, call>>
      /\ clock' \in Nat
  BY DEF UpdateProfile, Tick, tables, vars, IInv, CallsOK
<1>2. /\ Books' /\ \A c : CallOK(c) => CallOK(c)'
      /\ \A p, u, i : PlanOK(p, u, i) => PlanOK(p, u, i)'
  BY <1>1, TablesRest DEF IInv
<1>3. CallsOK'
  BY <1>1, <1>2 DEF IInv, CallsOK, WalletMutex, HoldsWallet
<1>4. Plans'
  BY <1>1, <1>2 DEF IInv, Plans
<1> QED
  BY <1>2, <1>3, <1>4 DEF IInv

LEMMA HandleStep ==
  ASSUME IInv, NEW s \in Calls, Handle(s)
  PROVE  IInv'
<1>1. CASE \E i \in Inputs : Begin(s, i)
  BY <1>1, BeginStep
<1>2. CASE LockWallet(s)
  BY <1>2, LockWalletStep
<1>3. CASE Commit(s)
  BY <1>3, CommitStep
<1>4. CASE Abort(s)
  BY <1>4, RollBackStep DEF Abort
<1>5. CASE StartRun(s)
  BY <1>5, StartRunStep
<1>6. CASE FinishRun(s)
  BY <1>6, FinishRunStep
<1>7. CASE Claim(s)
  BY <1>7, ClaimStep
<1>8. CASE ChangeTeam(s)
  BY <1>8, ChangeTeamStep
<1>9. CASE Redeem(s)
  BY <1>9, RedeemStep
<1>10. CASE Adjust(s)
  BY <1>10, AdjustStep
<1>11. CASE Bind(s)
  BY <1>11, BindStep
<1>12. CASE ReadOwed(s)
  BY <1>12, ReadOwedStep
<1>13. CASE Settle(s)
  BY <1>13, SettleStep
<1> QED
  BY <1>1, <1>2, <1>3, <1>4, <1>5, <1>6, <1>7, <1>8, <1>9, <1>10, <1>11, <1>12, <1>13
     DEF Handle

LEMMA StepIInv == IInv /\ [Next]_vars => IInv'
<1> SUFFICES ASSUME IInv, [Next]_vars PROVE IInv'
  OBVIOUS
<1>1. CASE \E s \in Calls : Handle(s)
  BY <1>1, HandleStep
<1>2. CASE (\E u \in Users : UpdateProfile(u)) \/ Tick \/ UNCHANGED vars
  BY <1>2, OutsideStep
<1> QED
  BY <1>1, <1>2 DEF Next

LEMMA AlwaysIInv == Spec => []IInv
BY InitIInv, StepIInv, PTL DEF Spec

-----------------------------------------------------------------------------
(* Balances                                                                *)

Amounts(rows) == [e \in rows |-> e.amount]

\* A plan pays its own player, and takes no more than the wallet holds.
MoneyOK(p, u) ==
  /\ IsFiniteSet(p.entries)
  /\ \A e \in p.entries : e.user = u /\ e.amount \in Int
  /\ balance[u] + SumAmounts(p.entries) >= 0

OwedPays(owed) == IsFiniteSet(owed) /\ \A q \in owed : q.amount \in Nat

\* The balances are settled: what the ledger adds up to, and not negative.
Settled ==
  /\ balance \in [Users -> Nat]
  /\ IsFiniteSet(ledger)
  /\ \A e \in ledger : e.amount \in Int
  /\ \A u \in Users : balance[u] = SumAmounts({e \in ledger : e.user = u})

WalletInv ==
  /\ Settled
  /\ \A s \in Calls : OwedPays(call[s].owed)
  /\ \A s \in Calls : call[s].at = "commit" => MoneyOK(call[s].plan, call[s].owner)

LEMMA FiniteImage ==
  ASSUME NEW S, IsFiniteSet(S), NEW f
  PROVE  IsFiniteSet({f[x] : x \in S})
<1> DEFINE T == {f[x] : x \in S}
           g == [x \in S |-> f[x]]
<1>1. g \in Surjection(S, T)
  BY DEF Surjection
<1> HIDE DEF g, T
<1>2. IsFiniteSet(T)
  BY <1>1, FS_Surjection
<1> QED
  BY <1>2 DEF T

LEMMA AmountsOf ==
  ASSUME NEW T, NEW S, S \subseteq T, IsFiniteSet(S)
  PROVE  SumAmounts(S) = Sum(Amounts(T), S)
<1>1. \A e \in S : Amounts(S)[e] = Amounts(T)[e]
  BY DEF Amounts
<1>2. SumAmounts(S) = Sum(Amounts(S), S)
  BY DEF SumAmounts, Amounts, Sum
<1> QED
  BY <1>1, <1>2, SumSame

LEMMA NoAmounts == SumAmounts({}) = 0
  BY SumEmpty DEF SumAmounts, Sum

LEMMA AmountsType ==
  ASSUME NEW S, IsFiniteSet(S)
  PROVE  /\ (\A e \in S : e.amount \in Int) => SumAmounts(S) \in Int
         /\ (\A e \in S : e.amount \in Nat) => SumAmounts(S) \in Nat
<1>1. SumAmounts(S) = Sum(Amounts(S), S)
  BY AmountsOf
<1>2. \A e \in S : Amounts(S)[e] = e.amount
  BY DEF Amounts
<1>3. ASSUME \A e \in S : e.amount \in Int PROVE Sum(Amounts(S), S) \in Int
  <2>1. \A e \in S : Amounts(S)[e] \in Int
    BY <1>2, <1>3
  <2> QED
    BY <2>1, SumType
<1>4. ASSUME \A e \in S : e.amount \in Nat PROVE Sum(Amounts(S), S) \in Nat
  <2>1. \A e \in S : Amounts(S)[e] \in Nat
    BY <1>2, <1>4
  <2> QED
    BY <2>1, SumNat
<1> QED
  BY <1>1, <1>3, <1>4

LEMMA AmountsUnion ==
  ASSUME NEW S, NEW R, IsFiniteSet(S), IsFiniteSet(R), S \cap R = {},
         \A e \in S \cup R : e.amount \in Int
  PROVE  SumAmounts(S \cup R) = SumAmounts(S) + SumAmounts(R)
<1> DEFINE f == Amounts(S \cup R)
<1>1. IsFiniteSet(S \cup R)
  BY FS_Union
<1>2. /\ SumAmounts(S) = Sum(f, S) /\ SumAmounts(R) = Sum(f, R)
      /\ SumAmounts(S \cup R) = Sum(f, S \cup R)
  BY <1>1, AmountsOf
<1>3. \A e \in S \cup R : f[e] \in Int
  BY DEF Amounts
<1> HIDE DEF f
<1>4. Sum(f, S \cup R) = Sum(f, S) + Sum(f, R)
  BY <1>3, SumUnion
<1> QED
  BY <1>2, <1>4

LEMMA AmountsOne ==
  ASSUME NEW x, x.amount \in Int
  PROVE  SumAmounts({x}) = x.amount
<1> DEFINE f == Amounts({x})
<1>1. IsFiniteSet({}) /\ IsFiniteSet({x}) /\ x \notin {}
  BY FS_EmptySet, FS_Singleton
<1>2. SumAmounts({x}) = Sum(f, {x})
  BY <1>1, AmountsOf
<1>3. f[x] = x.amount /\ \A e \in {} \cup {x} : f[e] \in Int
  BY DEF Amounts
<1> HIDE DEF f
<1>4. Sum(f, {} \cup {x}) = Sum(f, {}) + f[x]
  BY <1>1, <1>3, SumAdd
<1>5. {} \cup {x} = {x}
  OBVIOUS
<1>6. Sum(f, {x}) = 0 + f[x]
  BY <1>4, <1>5, SumEmpty
<1> QED
  BY <1>2, <1>3, <1>6

\* A plan that only gives takes nothing.
LEMMA GivesOK ==
  ASSUME WalletInv, NEW p, NEW u \in Users, IsFiniteSet(p.entries),
         \A e \in p.entries : e.user = u /\ e.amount \in Nat
  PROVE  MoneyOK(p, u)
<1>1. SumAmounts(p.entries) \in Nat
  BY AmountsType
<1>2. balance[u] \in Nat
  BY DEF WalletInv, Settled
<1> QED
  BY <1>1, <1>2 DEF MoneyOK

LEMMA WalletMove ==
  ASSUME IInv, WalletInv, NEW s \in Calls, NEW x, call' = [call EXCEPT ![s] = x],
         UNCHANGED <<ledger, balance>>, OwedPays(x.owed),
         x.at = "commit" => MoneyOK(x.plan, x.owner)
  PROVE  WalletInv'
<1>1. call'[s] = x /\ \A z \in Calls \ {s} : call'[z] = call[z]
  BY DEF IInv, CallsOK
<1>2. Settled'
  BY DEF WalletInv, Settled
<1> QED
  BY <1>1, <1>2 DEF WalletInv, MoneyOK, OwedPays

LEMMA RollBackMoney ==
  ASSUME IInv, WalletInv, NEW s \in Calls, RollBack(s)
  PROVE  WalletInv'
<1>1. PICK x : x = Idle
  OBVIOUS
<1>2. x.at = "idle" /\ OwedPays(x.owed)
  BY <1>1, FS_EmptySet DEF Idle, OwedPays
<1>3. call' = [call EXCEPT ![s] = x] /\ UNCHANGED <<ledger, balance>>
  BY <1>1 DEF RollBack, tables
<1> QED
  BY <1>2, <1>3, WalletMove

LEMMA ProposeMoney ==
  ASSUME IInv, WalletInv, NEW s \in Calls, NEW c, c = call[s], NEW p, Propose(s, p),
         MoneyOK(p, c.owner)
  PROVE  WalletInv'
<1>1. CallOK(c) /\ OwedPays(c.owed)
  BY DEF IInv, CallsOK, WalletInv
<1>2. PICK x : x = [c EXCEPT !.at = "commit", !.plan = p]
  OBVIOUS
<1>3. x.plan = p /\ x.owner = c.owner /\ x.owed = c.owed
  BY <1>1, <1>2 DEF CallOK
<1>4. call' = [call EXCEPT ![s] = x] /\ UNCHANGED <<ledger, balance>>
  BY <1>2 DEF Propose, tables
<1> QED
  BY <1>1, <1>3, <1>4, WalletMove

LEMMA BeginMoney ==
  ASSUME IInv, WalletInv, NEW s \in Calls, NEW i \in Inputs, Begin(s, i)
  PROVE  WalletInv'
<1>1. PICK x : x = [Idle EXCEPT !.at = IF i.op = "settle" THEN "owed" ELSE "wallet",
                                !.input = i, !.now = clock, !.owner = WalletOf(i)]
  OBVIOUS
<1>2. x.at # "commit" /\ OwedPays(x.owed)
  BY <1>1, FS_EmptySet DEF Idle, OwedPays
<1>3. call' = [call EXCEPT ![s] = x] /\ UNCHANGED <<ledger, balance>>
  BY <1>1 DEF Begin, tables
<1> QED
  BY <1>2, <1>3, WalletMove

LEMMA LockWalletMoney ==
  ASSUME IInv, WalletInv, NEW s \in Calls, LockWallet(s)
  PROVE  WalletInv'
<1>1. PICK c : c = call[s]
  OBVIOUS
<1>2. PICK x : x = [c EXCEPT !.at = "decide"]
  OBVIOUS
<1>3. CallOK(c) /\ OwedPays(c.owed)
  BY <1>1 DEF IInv, CallsOK, WalletInv
<1>4. x.at = "decide" /\ x.owed = c.owed
  BY <1>2, <1>3 DEF CallOK
<1>5. call' = [call EXCEPT ![s] = x] /\ UNCHANGED <<ledger, balance>>
  BY <1>1, <1>2 DEF LockWallet, tables
<1> QED
  BY <1>3, <1>4, <1>5, WalletMove

LEMMA PayoutsOK ==
  ASSUME IInv, NEW u, NEW done \in BOOLEAN
  PROVE  OwedPays(Payouts(u, done, CodesOf(codes, u)))
<1> DEFINE late == InWindow(CodesOf(codes, u))
           later == {[key |-> LaterKey(c.id), amount |-> LaterBonus, code |-> c.id] : c \in late}
           first == [key |-> FirstKey(u), amount |-> FirstBonus,
                     code |-> Earliest(CodesOf(codes, u)).id]
<1>1. IsFiniteSet(late)
  <2>1. late \subseteq codes
    BY DEF InWindow, CodesOf
  <2> QED
    BY <2>1, FS_Subset DEF IInv, Books, CodeBooks
<1>2. IsFiniteSet(later)
  <2> DEFINE f == [c \in late |-> [key |-> LaterKey(c.id), amount |-> LaterBonus, code |-> c.id]]
  <2>1. later = {f[c] : c \in late}
    OBVIOUS
  <2> HIDE DEF late, later, f
  <2> QED
    BY <1>1, <2>1, FiniteImage
<1>3. IsFiniteSet({first} \cup later)
  <2> HIDE DEF first, later
  <2> QED
    BY <1>2, FS_Singleton, FS_Union
<1>4. \A q \in {first} \cup later : q.amount \in Nat
  BY ReferralsAssumption
<1>5. Owed(u, CodesOf(codes, u)) = {first} \cup later
  BY DEF Owed
<1> HIDE DEF first, later
<1>6. OwedPays({}) /\ OwedPays({first} \cup later)
  BY <1>3, <1>4, FS_EmptySet DEF OwedPays
<1> QED
  BY <1>5, <1>6 DEF Payouts

LEMMA ReadOwedMoney ==
  ASSUME IInv, WalletInv, NEW s \in Calls, ReadOwed(s)
  PROVE  WalletInv'
<1>1. CASE RollBack(s)
  BY <1>1, RollBackMoney
<1>2. CASE ~RollBack(s)
  <2>1. PICK c : c = call[s]
    OBVIOUS
  <2>2. CallOK(c)
    BY <2>1 DEF IInv, CallsOK
  <2>3. PICK owed : owed = Payouts(c.input.user, MissionComplete(c.input.user),
                                   CodesOf(codes, c.input.user))
    OBVIOUS
  <2>4. PICK b \in BindingOf(referrals, c.input.user) :
          /\ call' = [call EXCEPT ![s].at = "wallet", ![s].owed = owed,
                                  ![s].owner = b.inviter]
          /\ UNCHANGED <<tables, clock>>
    BY <1>2, <2>1, <2>3 DEF ReadOwed
  <2>5. PICK x : x = [c EXCEPT !.at = "wallet", !.owed = owed, !.owner = b.inviter]
    OBVIOUS
  <2>6. x.at = "wallet" /\ x.owed = owed
    BY <2>2, <2>5 DEF CallOK
  <2>7. OwedPays(owed)
    BY <2>3, PayoutsOK DEF MissionComplete
  <2>8. call' = [call EXCEPT ![s] = x] /\ UNCHANGED <<ledger, balance>>
    BY <2>1, <2>4, <2>5 DEF tables
  <2> QED
    BY <2>6, <2>7, <2>8, WalletMove
<1> QED
  BY <1>1, <1>2

\* Runs, teams and bindings pay nothing.
LEMMA UnpaidMoney ==
  ASSUME IInv, WalletInv, NEW s \in Calls,
         StartRun(s) \/ FinishRun(s) \/ ChangeTeam(s) \/ Bind(s)
  PROVE  WalletInv'
<1>1. PICK c : c = call[s]
  OBVIOUS
<1>2. c.at = "decide" /\ c.owner \in Users
  BY <1>1, DecideFacts DEF StartRun, FinishRun, ChangeTeam, Bind, Deciding
<1>3. RollBack(s) \/ \E p : Propose(s, p) /\ p.entries = {}
  <2>1. CASE StartRun(s)
    BY <2>1 DEF StartRun, Nothing
  <2>2. CASE FinishRun(s)
    <3>1. \A row, flags : [Nothing EXCEPT !.runs = row, !.audit = flags].entries = {}
      BY DEF Nothing
    <3>2. RollBack(s) \/ \E row, flags :
            Propose(s, [Nothing EXCEPT !.runs = row, !.audit = flags])
      BY <2>2 DEF FinishRun
    <3> QED
      BY <3>1, <3>2
  <2>3. CASE ChangeTeam(s) \/ Bind(s)
    BY <2>3 DEF ChangeTeam, Bind, Nothing
  <2> QED
    BY <2>1, <2>2, <2>3
<1>4. ASSUME NEW p, Propose(s, p), p.entries = {} PROVE WalletInv'
  <2>1. MoneyOK(p, c.owner)
    BY <1>2, <1>4, GivesOK, FS_EmptySet
  <2> QED
    BY <1>1, <1>4, <2>1, ProposeMoney
<1> QED
  BY <1>3, <1>4, RollBackMoney

LEMMA ClaimMoney ==
  ASSUME IInv, WalletInv, NEW s \in Calls, Claim(s)
  PROVE  WalletInv'
<1>1. PICK c : c = call[s]
  OBVIOUS
<1>2. c.at = "decide" /\ c.input.op = "claim"
  BY <1>1 DEF Claim, Deciding
<1>3. c.owner \in Users /\ c.owner = c.input.user /\ c.input \in Inputs
  BY <1>1, <1>2, DecideFacts DEF CallOK, Located
<1>4. PICK ch, u, period : /\ ch = c.input.arg /\ u = c.owner
                           /\ period = PeriodKey(Catalogue[ch].period, c.now)
  OBVIOUS
<1>5. PICK ids : ids = NewUnlocks(ch, u, c.now)
  OBVIOUS
<1>6. PICK paid : paid = ClaimEntries(ch, period, u) \cup UnlockEntries(ids, u)
  OBVIOUS
<1>7. RollBack(s) \/ \E p : Propose(s, p) /\ p.entries = paid
  <2>1. PICK p : p = Claimed(ch, u, period, ids)
    OBVIOUS
  <2>2. RollBack(s) \/ Propose(s, p)
    <3>1. /\ ch = call[s].input.arg /\ u = call[s].input.user
          /\ period = PeriodKey(Catalogue[ch].period, call[s].now)
          /\ ids = NewUnlocks(ch, u, call[s].now)
      BY <1>1, <1>3, <1>4, <1>5
    <3>2. CASE ~RollBack(s)
      <4>1. Propose(s, Claimed(ch, u, period, ids))
        BY <3>1, <3>2, ClaimPlan
      <4> QED
        BY <4>1, <2>1
    <3> QED
      BY <3>2
  <2>3. p.entries = paid
    BY <1>6, <2>1 DEF Claimed, Nothing
  <2> QED
    BY <2>2, <2>3
<1>8. ids \subseteq DOMAIN Achievements
  BY <1>5 DEF NewUnlocks, Unlocks
<1>9. ch \in DOMAIN Catalogue /\ Catalogue[ch].reward \in Nat
  BY <1>2, <1>3, <1>4, EconomyAssumption, ChallengesAssumption
<1>10. IsFiniteSet(paid)
  <2>1. IsFiniteSet(ClaimEntries(ch, period, u))
    BY FS_EmptySet, FS_Singleton DEF ClaimEntries
  <2>2. PICK due : due = {a \in ids : Achievements[a].reward > 0}
    OBVIOUS
  <2>3. IsFiniteSet(due)
    BY <1>8, <2>2, ChallengesAssumption, FS_Subset
  <2>4. IsFiniteSet({Entry(AchievementKey(a, u), u, Achievements[a].reward) : a \in due})
    <3> DEFINE f == [a \in due |-> Entry(AchievementKey(a, u), u, Achievements[a].reward)]
    <3>1. {f[a] : a \in due} =
            {Entry(AchievementKey(a, u), u, Achievements[a].reward) : a \in due}
      OBVIOUS
    <3> HIDE DEF f
    <3> QED
      BY <2>3, <3>1, FiniteImage
  <2>5. IsFiniteSet(UnlockEntries(ids, u))
    BY <2>2, <2>4 DEF UnlockEntries
  <2> QED
    BY <1>6, <2>1, <2>5, FS_Union
<1>11. \A e \in paid : e.user = u /\ e.amount \in Nat
  BY <1>6, <1>8, <1>9, ChallengesAssumption DEF ClaimEntries, UnlockEntries, Entry
<1>12. ASSUME NEW p, Propose(s, p), p.entries = paid PROVE WalletInv'
  <2>1. MoneyOK(p, u)
    BY <1>3, <1>4, <1>10, <1>11, <1>12, GivesOK
  <2> QED
    BY <1>1, <1>4, <1>12, <2>1, ProposeMoney
<1> QED
  BY <1>7, <1>12, RollBackMoney

LEMMA RedeemMoney ==
  ASSUME IInv, WalletInv, NEW s \in Calls, Redeem(s)
  PROVE  WalletInv'
<1>1. PICK c : c = call[s]
  OBVIOUS
<1>2. c.at = "decide" /\ c.input.op = "redeem"
  BY <1>1 DEF Redeem, Deciding
<1>3. c.owner \in Users /\ c.owner = c.input.user
  BY <1>1, <1>2, DecideFacts DEF CallOK, Located
<1>4. PICK paid : paid = CodeEntries(c.input.arg, c.owner)
  OBVIOUS
<1>5. RollBack(s) \/ \E p : Propose(s, p) /\ p.entries = paid
  <2>1. PICK p : p = [Nothing EXCEPT
                        !.codes = {[id |-> c.input.arg, user |-> c.owner,
                                    flavor |-> c.input.note, at |-> c.now]},
                        !.entries = paid]
    OBVIOUS
  <2>2. RollBack(s) \/ Propose(s, p)
    BY <1>1, <1>3, <1>4, <2>1 DEF Redeem
  <2>3. p.entries = paid
    BY <2>1 DEF Nothing
  <2> QED
    BY <2>2, <2>3
<1>6. IsFiniteSet(paid) /\ \A e \in paid : e.user = c.owner /\ e.amount \in Nat
  <2>1. IsFiniteSet(paid)
    BY <1>4, FS_EmptySet, FS_Singleton DEF CodeEntries
  <2>2. \A e \in paid : e.user = c.owner /\ e.amount \in Nat
    BY <1>4, EconomyAssumption DEF CodeEntries, Entry
  <2> QED
    BY <2>1, <2>2
<1>7. ASSUME NEW p, Propose(s, p), p.entries = paid PROVE WalletInv'
  <2>1. MoneyOK(p, c.owner)
    BY <1>3, <1>6, <1>7, GivesOK
  <2> QED
    BY <1>1, <1>7, <2>1, ProposeMoney
<1> QED
  BY <1>5, <1>7, RollBackMoney

LEMMA SettleMoney ==
  ASSUME IInv, WalletInv, NEW s \in Calls, Settle(s)
  PROVE  WalletInv'
<1>1. PICK c : c = call[s]
  OBVIOUS
<1>2. c.at = "decide" /\ c.owner \in Users /\ OwedPays(c.owed)
  BY <1>1, DecideFacts DEF Settle, Deciding, WalletInv
<1>3. PICK due : due = Unpaid(c.owed)
  OBVIOUS
<1>4. IsFiniteSet(due) /\ \A q \in due : q.amount \in Nat
  BY <1>2, <1>3, FS_Subset DEF Unpaid, OwedPays
<1>5. PICK paid : paid = {Entry(q.key, c.owner, q.amount) : q \in due}
  OBVIOUS
<1>6. \E p : Propose(s, p) /\ p.entries = paid
  <2>1. PICK first : first = {<<c.input.user, q.code>> :
                                q \in {d \in due : d.key = FirstKey(c.input.user)}}
    OBVIOUS
  <2>2. PICK p : p = [Nothing EXCEPT !.entries = paid, !.first = first]
    OBVIOUS
  <2>3. Propose(s, p)
    BY <1>1, <1>3, <1>5, <2>1, <2>2 DEF Settle
  <2>4. p.entries = paid
    BY <2>2 DEF Nothing
  <2> QED
    BY <2>3, <2>4
<1>7. IsFiniteSet({Entry(q.key, c.owner, q.amount) : q \in due})
  <2> DEFINE f == [q \in due |-> Entry(q.key, c.owner, q.amount)]
  <2>1. {f[q] : q \in due} = {Entry(q.key, c.owner, q.amount) : q \in due}
    OBVIOUS
  <2> HIDE DEF f
  <2> QED
    BY <1>4, <2>1, FiniteImage
<1>8. \A e \in paid : e.user = c.owner /\ e.amount \in Nat
  BY <1>4, <1>5 DEF Entry
<1>9. ASSUME NEW p, Propose(s, p), p.entries = paid PROVE WalletInv'
  <2>1. MoneyOK(p, c.owner)
    BY <1>2, <1>5, <1>7, <1>8, <1>9, GivesOK
  <2> QED
    BY <1>1, <1>9, <2>1, ProposeMoney
<1> QED
  BY <1>6, <1>9

\* A debit is compared with the balance under the wallet lock.
LEMMA AdjustMoney ==
  ASSUME IInv, WalletInv, NEW s \in Calls, Adjust(s)
  PROVE  WalletInv'
<1>1. PICK c : c = call[s]
  OBVIOUS
<1>2. c.at = "decide" /\ c.input.op = "adjust"
  BY <1>1 DEF Adjust, Deciding
<1>3. c.owner \in Users /\ c.owner = c.input.user /\ c.input.arg \in Int
  BY <1>1, <1>2, DecideFacts, EconomyAssumption DEF CallOK, Located
<1>4. CASE RollBack(s)
  BY <1>4, RollBackMoney
<1>5. CASE ~RollBack(s)
  <2>1. PICK id : id = CHOOSE i \in FreshAdjustments : TRUE
    OBVIOUS
  <2>2. PICK x : x = Entry(AdjustmentKey(id), c.owner, c.input.arg)
    OBVIOUS
  <2>3. PICK p : p = [Nothing EXCEPT
                        !.entries = {x},
                        !.audit = {[entity |-> "coin_ledger_entry", user |-> c.owner,
                                    at |-> c.now]}]
    OBVIOUS
  <2>4. x.user = c.owner /\ x.amount = c.input.arg /\ p.entries = {x}
    BY <2>2, <2>3 DEF Entry, Nothing
  <2>5. balance[c.owner] + c.input.arg >= 0 /\ Propose(s, p)
    BY <1>1, <1>3, <1>5, <2>1, <2>2, <2>3 DEF Adjust, Affordable
  <2>6. SumAmounts({x}) = c.input.arg
    BY <1>3, <2>4, AmountsOne
  <2>7. MoneyOK(p, c.owner)
    BY <1>3, <2>4, <2>5, <2>6, FS_Singleton DEF MoneyOK
  <2> QED
    BY <1>1, <2>5, <2>7, ProposeMoney
<1> QED
  BY <1>4, <1>5

\* What is written to the ledger moves the balance of its player alone; the
\* plans of other players are weighed against other wallets.
LEMMA CommitMoney ==
  ASSUME IInv, WalletInv, NEW s \in Calls, Commit(s)
  PROVE  WalletInv'
<1>1. PICK c : c = call[s]
  OBVIOUS
<1>2. PICK p, u : p = c.plan /\ u = c.owner
  OBVIOUS
<1>3. /\ u \in Users /\ PlanOK(p, u, c.input) /\ MoneyOK(p, u)
      /\ \A z \in Calls \ {s} : HoldsWallet(z) => call[z].owner # u
  BY <1>1, <1>2, CommitFacts DEF WalletInv
<1>4. /\ ledger' = ledger \cup p.entries
      /\ balance' = [v \in Users |-> balance[v] + Movement({e \in p.entries : e.user = v})]
      /\ call' = [call EXCEPT ![s] = Idle]
  BY <1>1, <1>2 DEF Commit
<1>5. /\ IsFiniteSet(p.entries) /\ \A e \in p.entries : e.user = u /\ e.amount \in Int
      /\ balance[u] + SumAmounts(p.entries) >= 0
      /\ p.entries \cap ledger = {}
  BY <1>3 DEF MoneyOK, PlanOK, EntriesOK, Recorded
<1>6. Settled
  BY DEF WalletInv
<1>7. SumAmounts(p.entries) \in Int
  BY <1>5, AmountsType
<1>8. \A v \in Users \ {u} :
        /\ {e \in p.entries : e.user = v} = {}
        /\ {e \in ledger' : e.user = v} = {e \in ledger : e.user = v}
  BY <1>4, <1>5
<1>9. \A v \in Users \ {u} :
        balance'[v] = balance[v] /\ balance'[v] = SumAmounts({e \in ledger' : e.user = v})
  <2> SUFFICES ASSUME NEW v \in Users \ {u}
               PROVE  /\ balance'[v] = balance[v]
                      /\ balance'[v] = SumAmounts({e \in ledger' : e.user = v})
    OBVIOUS
  <2>1. PICK rows : rows = {e \in ledger : e.user = v}
    OBVIOUS
  <2>2. {e \in ledger' : e.user = v} = rows
    BY <1>8, <2>1
  <2>3. balance[v] \in Nat /\ balance[v] = SumAmounts(rows)
    BY <1>6, <2>1 DEF Settled
  <2>4. balance'[v] = balance[v] + SumAmounts({e \in p.entries : e.user = v})
    BY <1>4 DEF Movement
  <2>5. balance'[v] = balance[v] + 0
    BY <1>8, <2>4, NoAmounts
  <2> QED
    BY <2>2, <2>3, <2>5, SMTT(30)
<1>10. /\ balance'[u] = balance[u] + SumAmounts(p.entries)
       /\ balance'[u] = SumAmounts({e \in ledger' : e.user = u})
  <2>1. PICK mine : mine = {e \in ledger : e.user = u}
    OBVIOUS
  <2>2. {e \in p.entries : e.user = u} = p.entries
        /\ {e \in ledger' : e.user = u} = mine \cup p.entries
    BY <1>4, <1>5, <2>1
  <2>3. balance'[u] = balance[u] + SumAmounts(p.entries)
    BY <1>3, <1>4, <2>2 DEF Movement
  <2>4. /\ IsFiniteSet(mine) /\ mine \cap p.entries = {}
        /\ \A e \in mine \cup p.entries : e.amount \in Int
    BY <1>5, <1>6, <2>1, FS_Subset DEF Settled
  <2>5. SumAmounts(mine \cup p.entries) = SumAmounts(mine) + SumAmounts(p.entries)
    BY <1>5, <2>4, AmountsUnion
  <2>6. balance[u] = SumAmounts(mine)
    BY <1>3, <1>6, <2>1 DEF Settled
  <2> QED
    BY <2>2, <2>3, <2>5, <2>6
<1>11. Settled'
  <2>1. IsFiniteSet(ledger') /\ \A e \in ledger' : e.amount \in Int
    BY <1>4, <1>5, <1>6, FS_Union DEF Settled
  <2>2. \A v \in Users : balance'[v] \in Nat
    <3>1. balance'[u] \in Nat
      <4>1. balance[u] \in Nat
        BY <1>3, <1>6 DEF Settled
      <4> QED
        BY <1>5, <1>7, <1>10, <4>1
    <3>2. \A v \in Users \ {u} : balance'[v] \in Nat
      BY <1>6, <1>9 DEF Settled
    <3> QED
      BY <3>1, <3>2
  <2>3. balance' \in [Users -> Nat]
    BY <1>4, <2>2
  <2>4. \A v \in Users : balance'[v] = SumAmounts({e \in ledger' : e.user = v})
    BY <1>9, <1>10
  <2> QED
    BY <2>1, <2>3, <2>4 DEF Settled
<1>12. call'[s] = Idle /\ \A z \in Calls \ {s} : call'[z] = call[z]
  BY <1>4 DEF IInv, CallsOK
<1>13. OwedPays(Idle.owed) /\ Idle.at # "commit"
  BY FS_EmptySet DEF Idle, OwedPays
<1>14. \A z \in Calls : OwedPays(call'[z].owed)
  BY <1>12, <1>13 DEF WalletInv
<1>15. ASSUME NEW z \in Calls, call'[z].at = "commit"
       PROVE  MoneyOK(call[z].plan, call[z].owner)' /\ call'[z] = call[z]
  <2>1. z # s /\ call'[z] = call[z]
    BY <1>12, <1>13, <1>15
  <2>2. PICK d : d = call[z]
    OBVIOUS
  <2>3. d.at = "commit" /\ d.owner \in Users \ {u} /\ MoneyOK(d.plan, d.owner)
    BY <1>3, <1>15, <2>1, <2>2 DEF HoldsWallet, WalletInv, IInv, CallsOK, CallOK, Located
  <2>4. balance'[d.owner] = balance[d.owner]
    BY <1>9, <2>3
  <2> QED
    BY <2>1, <2>2, <2>3, <2>4 DEF MoneyOK
<1> QED
  BY <1>11, <1>14, <1>15 DEF WalletInv

LEMMA StepWallet == IInv /\ WalletInv /\ [Next]_vars => WalletInv'
<1> SUFFICES ASSUME IInv, WalletInv, [Next]_vars PROVE WalletInv'
  OBVIOUS
<1>1. ASSUME NEW s \in Calls, Handle(s) PROVE WalletInv'
  <2>1. CASE \E i \in Inputs : Begin(s, i)
    BY <2>1, BeginMoney
  <2>2. CASE LockWallet(s) \/ ReadOwed(s)
    BY <2>2, LockWalletMoney, ReadOwedMoney
  <2>3. CASE Commit(s)
    BY <2>3, CommitMoney
  <2>4. CASE Abort(s)
    BY <2>4, RollBackMoney DEF Abort
  <2>5. CASE StartRun(s) \/ FinishRun(s) \/ ChangeTeam(s) \/ Bind(s)
    BY <2>5, UnpaidMoney
  <2>6. CASE Claim(s) \/ Redeem(s)
    BY <2>6, ClaimMoney, RedeemMoney
  <2>7. CASE Adjust(s) \/ Settle(s)
    BY <2>7, AdjustMoney, SettleMoney
  <2> QED
    BY <1>1, <2>1, <2>2, <2>3, <2>4, <2>5, <2>6, <2>7 DEF Handle
<1>2. CASE (\E u \in Users : UpdateProfile(u)) \/ Tick \/ UNCHANGED vars
  <2>1. UNCHANGED <<ledger, balance, call>>
    BY <1>2 DEF UpdateProfile, Tick, tables, vars
  <2> QED
    BY <2>1 DEF WalletInv, Settled, OwedPays, MoneyOK
<1> QED
  BY <1>1, <1>2 DEF Next

LEMMA InitWallet == Init => WalletInv
<1> SUFFICES ASSUME Init PROVE WalletInv
  OBVIOUS
<1>1. ledger = {} /\ balance = [u \in Users |-> 0] /\ call = [s \in Calls |-> Idle]
  BY DEF Init
<1>2. \A u : {e \in ledger : e.user = u} = {}
  BY <1>1
<1>3. Settled
  BY <1>1, <1>2, NoAmounts, FS_EmptySet DEF Settled
<1> QED
  BY <1>1, <1>3, FS_EmptySet DEF WalletInv, OwedPays, Idle

-----------------------------------------------------------------------------
(* Theorems                                                                *)

\* What a call checked under the wallet lock is never contradicted at COMMIT,
\* for any number of players and of calls.
THEOREM NoConflict == Spec => []NoKeyConflict
<1>1. IInv => NoKeyConflict
  <2> SUFFICES ASSUME IInv, NEW s \in Calls, call[s].at = "commit"
               PROVE  ~Conflicts(call[s].plan)
    BY DEF NoKeyConflict
  <2>1. PICK c : c = call[s]
    OBVIOUS
  <2>2. c.owner \in Users /\ PlanOK(c.plan, c.owner, c.input)
    BY <2>1 DEF IInv, CallsOK, CallOK, Located, Plans
  <2>3. ~Conflicts(c.plan)
    BY <2>2, PlanFits
  <2> QED
    BY <2>1, <2>3
<1> QED
  BY <1>1, AlwaysIInv, PTL

\* Every wallet holds what its ledger rows add up to, and never less than
\* nothing, although admins take coins while other calls pay.
THEOREM BalancesAreSums == Spec => []BalanceIsLedgerSum
<1>1. WalletInv => BalanceIsLedgerSum
  BY DEF WalletInv, Settled, BalanceIsLedgerSum
<1> QED
  BY <1>1, InitWallet, StepWallet, AlwaysIInv, PTL DEF Spec

\* Every switch of team waited for the lock and was unlocked, however many
\* calls of the player ran at once and in whatever order they committed.
THEOREM TeamsLock == Spec => []SwitchesRespectLock
<1>1. IInv => SwitchesRespectLock
  BY DEF IInv, Books, TeamBooks
<1> QED
  BY <1>1, AlwaysIInv, PTL

\* A player rejected often enough on a local day is in the audit log for that
\* day, in whatever order the calls commit: each counts the runs of its own
\* day and of later ones.
THEOREM AbuseFlagged == Spec => []AbuseIsFlagged
<1>1. IInv => AbuseIsFlagged
  BY PeriodsAssumption, EconomyAssumption
     DEF IInv, Books, AuditBooks, AbuseIsFlagged, RejectedOn, Flagged, LocalDate
<1> QED
  BY <1>1, AlwaysIInv, PTL

\* A verdict on a run is given once.
THEOREM VerdictsStay == Spec => RunsFinishOnce
<1>1. IInv /\ [Next]_vars =>
        [\A r \in RunIds : runs[r].status \in Terminal => runs'[r] = runs[r]]_vars
  <2> SUFFICES ASSUME IInv, Next, NEW r \in RunIds, runs[r].status \in Terminal
               PROVE  runs'[r] = runs[r]
    OBVIOUS
  <2>1. CASE runs' = runs
    BY <2>1
  <2>2. CASE \E s \in Calls : Commit(s)
    <3>1. PICK s \in Calls : Commit(s)
      BY <2>2
    <3>2. PICK c : c = call[s]
      OBVIOUS
    <3>3. RunsOK(c.plan, c.owner) /\ runs' = Written(c.plan.runs)
      BY <3>1, <3>2, CommitFacts DEF PlanOK, Commit
    <3> QED
      BY <3>3 DEF RunsOK, Written, Terminal, Unissued
  <2> QED
    BY <2>1, <2>2, ZenonT(40)
       DEF Next, Handle, Begin, LockWallet, Abort, RollBack, StartRun, FinishRun,
       Claim, ChangeTeam, Redeem, Adjust, Bind, ReadOwed, Settle, Propose, UpdateProfile,
       Tick, tables
<1> QED
  BY <1>1, AlwaysIInv, PTL DEF Spec, RunsFinishOnce

\* Nobody is bound to an inviter after redeeming a code, nor to a second one,
\* although a bind and a redemption may be in flight together.
THEOREM BoundFirst == Spec => BoundBeforeRedeeming
<1>1. IInv /\ [Next]_vars =>
        [\A b \in referrals' \ referrals :
           CodesOf(codes, b.invitee) = {} /\ BindingOf(referrals, b.invitee) = {}]_vars
  <2> SUFFICES ASSUME IInv, Next, NEW b \in referrals' \ referrals
               PROVE  CodesOf(codes, b.invitee) = {} /\ BindingOf(referrals, b.invitee) = {}
    OBVIOUS
  <2>1. CASE referrals' = referrals
    BY <2>1
  <2>2. CASE \E s \in Calls : Commit(s)
    <3>1. PICK s \in Calls : Commit(s)
      BY <2>2
    <3>2. PICK c : c = call[s]
      OBVIOUS
    <3>3. RowsOK(c.plan, c.owner, c.input) /\ b \in c.plan.referrals
      BY <3>1, <3>2, CommitFacts DEF PlanOK, Commit
    <3> QED
      BY <3>3 DEF RowsOK
  <2> QED
    BY <2>1, <2>2, ZenonT(40)
       DEF Next, Handle, Begin, LockWallet, Abort, RollBack, StartRun, FinishRun,
       Claim, ChangeTeam, Redeem, Adjust, Bind, ReadOwed, Settle, Propose, UpdateProfile,
       Tick, tables
<1> QED
  BY <1>1, AlwaysIInv, PTL DEF Spec, BoundBeforeRedeeming

-----------------------------------------------------------------------------
(* What referrals pay                                                      *)

\* A code for which a later bonus may be paid.
NotFirst(c) == \E d \in codes : d.user = c.user /\ d.at < c.at

Binds(u, inviter) == [invitee |-> u, inviter |-> inviter] \in referrals

\* Codes of a player have moments of their own, and one is the earliest.
CodeMoments ==
  /\ \A c \in codes : c.at \in Nat
  /\ \A c, d \in codes : c.user = d.user /\ c.at = d.at => c = d
  /\ \A u : CodesOf(codes, u) # {} =>
       \E c \in CodesOf(codes, u) : \A d \in CodesOf(codes, u) : c.at <= d.at

FirstPaid ==
  \A e \in ledger, u \in Users : e.key = FirstKey(u) =>
    MissionComplete(u) /\ CodesOf(codes, u) # {} /\ Binds(u, e.user)

LaterPaid ==
  \A e \in ledger : \A id : e.key = LaterKey(id) =>
    \E c \in codes : /\ c.id = id /\ NotFirst(c) /\ Binds(c.user, e.user)
                     /\ Recorded(FirstKey(c.user))

\* A referral key is paid once.
PaidOnce ==
  \A e, f \in ledger :
    e.key = f.key /\ e.key[1] \in {"referral:first", "referral:code"} => e = f

Bonus(key, u) == IF key = FirstKey(u) THEN FirstBonus ELSE LaterBonus

\* What may be paid for an invitee.
Due(key, u) ==
  \/ key = FirstKey(u)
  \/ \E c \in CodesOf(codes, u) : key = LaterKey(c.id) /\ NotFirst(c)

\* A settlement that knows what is owed, and one that has planned to pay it.
OwedOK(c) ==
  c.at \in Located /\ c.input.op = "settle" =>
    /\ MissionComplete(c.input.user) /\ CodesOf(codes, c.input.user) # {}
    /\ \E p \in c.owed : p.key = FirstKey(c.input.user)
    /\ \A p \in c.owed : Due(p.key, c.input.user) /\ p.amount = Bonus(p.key, c.input.user)

PayOK(c) ==
  c.at = "commit" /\ c.input.op = "settle" =>
    /\ \A e \in c.plan.entries :
         /\ e = Entry(e.key, c.owner, Bonus(e.key, c.input.user))
         /\ Due(e.key, c.input.user)
    /\ \/ Recorded(FirstKey(c.input.user))
       \/ \E e \in c.plan.entries : e.key = FirstKey(c.input.user)

\* The rows a plan adds are those of its call.
RowOK(c) ==
  c.at = "commit" =>
    /\ \A d \in c.plan.codes : d.at = c.now
    /\ \A b \in c.plan.referrals : b = [invitee |-> b.invitee, inviter |-> b.inviter]

Redeeming(c) == c.at # "idle" /\ c.input.op = "redeem"

MomentOK(c) ==
  Redeeming(c) => \A d \in codes : d.user = c.input.user => d.at # c.now

MomentsApart ==
  \A s, z \in Calls :
    s # z /\ Redeeming(call[s]) /\ Redeeming(call[z])
      /\ call[s].input.user = call[z].input.user => call[s].now # call[z].now

CallRefers(c) == OwedOK(c) /\ PayOK(c) /\ RowOK(c) /\ MomentOK(c)

ReferralInv ==
  /\ CodeMoments /\ FirstPaid /\ LaterPaid /\ PaidOnce
  /\ \A b \in referrals : b = [invitee |-> b.invitee, inviter |-> b.inviter]
  /\ \A s \in Calls : CallRefers(call[s])
  /\ MomentsApart

LEMMA IdleRefers == CallRefers(Idle)
  BY DEF CallRefers, OwedOK, PayOK, RowOK, MomentOK, Redeeming, Idle, Located

LEMMA InitReferralInv == Init => ReferralInv
<1> SUFFICES ASSUME Init PROVE ReferralInv
  OBVIOUS
<1>1. CodeMoments /\ FirstPaid /\ LaterPaid /\ PaidOnce
  BY DEF Init, CodeMoments, FirstPaid, LaterPaid, PaidOnce, CodesOf
<1>2. \A s \in Calls : CallRefers(call[s])
  BY IdleRefers DEF Init
<1>3. MomentsApart
  BY DEF Init, MomentsApart, Redeeming, Idle
<1> QED
  BY <1>1, <1>2, <1>3 DEF Init, ReferralInv

-----------------------------------------------------------------------------
(* What stays true                                                         *)

LEMMA AcceptedIs ==
  ASSUME IsFiniteSet(Issued), NEW u
  PROVE  AcceptedRuns(runs, u) > 0 <=>
           \E r \in RunIds : runs[r].user = u /\ runs[r].status = "accepted"
<1>1. PICK A : A = RunsOf(runs, u, "accepted")
  OBVIOUS
<1>2. A \subseteq Issued
  BY <1>1 DEF RunsOf, Issued
<1>3. IsFiniteSet(A) /\ Cardinality(A) \in Nat
  BY <1>2, FS_Subset, FS_CardinalityType
<1>4. Cardinality(A) = 0 <=> A = {}
  BY <1>3, FS_EmptySet
<1> QED
  BY <1>1, <1>3, <1>4 DEF AcceptedRuns, RunsOf

\* A step writes the tables only by committing.
LEMMA WritesAreCommits ==
  ASSUME IInv, [Next]_vars
  PROVE  \/ \E s \in Calls : Commit(s)
         \/ UNCHANGED <<runs, claims, unlocked, teams, referrals, codes, ledger, audit>>
<1>1. ASSUME NEW s \in Calls, Handle(s), ~Commit(s)
      PROVE  UNCHANGED tables
  <2>1. CASE \/ (\E i \in Inputs : Begin(s, i)) \/ LockWallet(s) \/ Abort(s)
             \/ StartRun(s) \/ FinishRun(s) \/ Claim(s)
    BY <2>1 DEF Begin, LockWallet, Abort, RollBack, StartRun, FinishRun, Claim, Propose
  <2>2. CASE \/ ChangeTeam(s) \/ Redeem(s) \/ Adjust(s) \/ Bind(s) \/ ReadOwed(s)
             \/ Settle(s)
    BY <2>2 DEF ChangeTeam, Redeem, Adjust, Bind, ReadOwed, Settle, RollBack, Propose
  <2> QED
    BY <1>1, <2>1, <2>2 DEF Handle
<1>2. CASE (\E u \in Users : UpdateProfile(u)) \/ Tick \/ UNCHANGED vars
  BY <1>2 DEF UpdateProfile, Tick, tables, vars
<1> QED
  BY <1>1, <1>2 DEF Next, tables

LEMMA AcceptedStays ==
  ASSUME IInv, [Next]_vars
  PROVE  \A r \in RunIds : runs[r].status = "accepted" => runs'[r] = runs[r]
<1>1. CASE \E s \in Calls : Commit(s)
  <2>1. PICK s \in Calls : Commit(s)
    BY <1>1
  <2>2. PICK c : c = call[s]
    OBVIOUS
  <2>3. RunsOK(c.plan, c.owner) /\ runs' = Written(c.plan.runs)
    BY <2>1, <2>2, CommitFacts DEF PlanOK, Commit
  <2> QED
    BY <2>3 DEF RunsOK, Written, Unissued
<1>2. CASE runs' = runs
  BY <1>2
<1> QED
  BY <1>1, <1>2, WritesAreCommits

LEMMA MissionStays ==
  ASSUME IInv, IInv', [Next]_vars, NEW u, MissionComplete(u)
  PROVE  MissionComplete(u)'
<1>1. \A r \in RunIds : runs[r].status = "accepted" => runs'[r] = runs[r]
  BY AcceptedStays
<1>2. PICK r \in RunIds : runs[r].user = u /\ runs[r].status = "accepted"
  BY AcceptedIs DEF MissionComplete, IInv, Books, AuditBooks
<1>3. AcceptedRuns(runs', u) > 0
  <2>1. IsFiniteSet(Issued)'
    BY DEF IInv, Books, AuditBooks
  <2>2. PICK A : A = RunsOf(runs', u, "accepted")
    OBVIOUS
  <2>3. A \subseteq Issued' /\ r \in A
    BY <1>1, <1>2, <2>2 DEF RunsOf, Issued
  <2>4. Cardinality(A) \in Nat /\ Cardinality(A) # 0
    BY <2>1, <2>3, FS_Subset, FS_CardinalityType, FS_EmptySet
  <2> QED
    BY <2>2, <2>4 DEF AcceptedRuns
<1>4. Current(teams', u) # {}
  <2>1. PICK m \in teams : m.user = u
    BY DEF MissionComplete, Current
  <2>2. m \in teams'
    BY WritesAreCommits DEF Commit
  <2> QED
    BY <2>1, <2>2 DEF IInv, Books, TeamBooks
<1>5. u \in profiled'
  BY ZenonT(40) DEF MissionComplete, Next, Handle, Begin, LockWallet, Commit, Abort, RollBack, StartRun,
     FinishRun, Claim, ChangeTeam, Redeem, Adjust, Bind, ReadOwed, Settle, Propose,
     UpdateProfile, Tick, tables, vars
<1> QED
  BY <1>3, <1>4, <1>5 DEF MissionComplete

LEMMA Grow ==
  ASSUME IInv, IInv', [Next]_vars
  PROVE  /\ codes \subseteq codes' /\ ledger \subseteq ledger' /\ referrals \subseteq referrals'
         /\ \A u : MissionComplete(u) => MissionComplete(u)'
         /\ \A c : NotFirst(c) => NotFirst(c)'
         /\ \A key, u : Due(key, u) => Due(key, u)'
         /\ \A key : Recorded(key) => Recorded(key)'
         /\ \A c : OwedOK(c) => OwedOK(c)'
         /\ \A c : PayOK(c) => PayOK(c)'
<1>1. codes \subseteq codes' /\ ledger \subseteq ledger' /\ referrals \subseteq referrals'
  BY WritesAreCommits DEF Commit
<1>2. \A u : MissionComplete(u) => MissionComplete(u)'
  BY MissionStays
<1>3. \A c : NotFirst(c) => NotFirst(c)'
  BY <1>1 DEF NotFirst
<1>4. \A key, u : Due(key, u) => Due(key, u)'
  BY <1>1, <1>3 DEF Due, CodesOf
<1>5. \A key : Recorded(key) => Recorded(key)'
  BY <1>1 DEF Recorded
<1>6. \A c : OwedOK(c) => OwedOK(c)'
  BY <1>1, <1>2, <1>4 DEF OwedOK, CodesOf, Bonus
<1>7. \A c : PayOK(c) => PayOK(c)'
  BY <1>4, <1>5 DEF PayOK, Bonus
<1> QED
  BY <1>1, <1>2, <1>3, <1>4, <1>5, <1>6, <1>7

-----------------------------------------------------------------------------
(* Calls that move, and calls that plan                                    *)

LEMMA MoveRefers ==
  ASSUME IInv, IInv', ReferralInv, [Next]_vars, UNCHANGED tables,
         NEW s \in Calls, NEW x, call' = [call EXCEPT ![s] = x], CallRefers(x),
         Redeeming(x) => \A z \in Calls \ {s} :
           Redeeming(call[z]) /\ call[z].input.user = x.input.user => call[z].now # x.now
  PROVE  ReferralInv'
<1>1. call'[s] = x /\ \A z \in Calls \ {s} : call'[z] = call[z]
  BY DEF IInv, CallsOK
<1>2. /\ CodeMoments' /\ PaidOnce'
      /\ \A b \in referrals' : b = [invitee |-> b.invitee, inviter |-> b.inviter]
  BY DEF ReferralInv, CodeMoments, PaidOnce, tables
<1>3. FirstPaid'
  BY Grow DEF ReferralInv, FirstPaid, Binds, tables
<1>4. LaterPaid'
  BY SMTT(30) DEF ReferralInv, LaterPaid, NotFirst, Binds, Recorded, tables
<1>5. \A c : CallRefers(c) => CallRefers(c)'
  BY Grow DEF CallRefers, RowOK, MomentOK, tables
<1>6. \A z \in Calls : CallRefers(call[z])'
  BY <1>1, <1>5 DEF ReferralInv
<1>7. MomentsApart'
  BY <1>1 DEF ReferralInv, MomentsApart
<1> QED
  BY <1>2, <1>3, <1>4, <1>6, <1>7 DEF ReferralInv

LEMMA RollBackRefers ==
  ASSUME IInv, IInv', ReferralInv, [Next]_vars, NEW s \in Calls, RollBack(s)
  PROVE  ReferralInv'
<1>1. PICK x : x = Idle
  OBVIOUS
<1>2. CallRefers(x) /\ ~Redeeming(x)
  BY <1>1, IdleRefers DEF Redeeming, Idle
<1>3. call' = [call EXCEPT ![s] = x] /\ UNCHANGED tables
  BY <1>1 DEF RollBack
<1> QED
  BY <1>2, <1>3, MoveRefers

LEMMA BeginRefers ==
  ASSUME IInv, IInv', ReferralInv, [Next]_vars, NEW s \in Calls, NEW i \in Inputs, Begin(s, i)
  PROVE  ReferralInv'
<1>1. PICK x : x = [Idle EXCEPT !.at = IF i.op = "settle" THEN "owed" ELSE "wallet",
                                !.input = i, !.now = clock, !.owner = WalletOf(i)]
  OBVIOUS
<1>2. /\ x.at = IF i.op = "settle" THEN "owed" ELSE "wallet"
      /\ x.input = i /\ x.now = clock
  BY <1>1 DEF Idle
<1>3. CallRefers(x)
  BY <1>2 DEF Begin, CallRefers, OwedOK, PayOK, RowOK, MomentOK, Redeeming, Located
<1>4. Redeeming(x) => \A z \in Calls \ {s} :
        Redeeming(call[z]) /\ call[z].input.user = x.input.user => call[z].now # x.now
  BY <1>2 DEF Begin, Redeeming
<1>5. call' = [call EXCEPT ![s] = x] /\ UNCHANGED tables
  BY <1>1 DEF Begin
<1> QED
  BY <1>3, <1>4, <1>5, MoveRefers

LEMMA LockWalletRefers ==
  ASSUME IInv, IInv', ReferralInv, [Next]_vars, NEW s \in Calls, LockWallet(s)
  PROVE  ReferralInv'
<1>1. PICK c : c = call[s]
  OBVIOUS
<1>2. PICK x : x = [c EXCEPT !.at = "decide"]
  OBVIOUS
<1>3. CallOK(c) /\ c.at = "wallet" /\ CallRefers(c)
  BY <1>1 DEF IInv, CallsOK, LockWallet, ReferralInv
<1>4. /\ x.at = "decide" /\ x.input = c.input /\ x.now = c.now /\ x.owed = c.owed
  BY <1>2, <1>3 DEF CallOK
<1>5. CallRefers(x)
  BY <1>3, <1>4 DEF CallRefers, OwedOK, PayOK, RowOK, MomentOK, Redeeming, Located
<1>6. \A z \in Calls \ {s} :
        Redeeming(x) /\ Redeeming(call[z]) /\ call[z].input.user = x.input.user
          => call[z].now # x.now
  BY <1>1, <1>3, <1>4 DEF ReferralInv, MomentsApart, Redeeming
<1>7. call' = [call EXCEPT ![s] = x] /\ UNCHANGED tables
  BY <1>1, <1>2 DEF LockWallet
<1> QED
  BY <1>5, <1>6, <1>7, MoveRefers

\* A later code is later than some other, whichever the earliest is.
LEMMA LaterIsNotFirst ==
  ASSUME CodeMoments, NEW u, NEW c \in InWindow(CodesOf(codes, u))
  PROVE  c \in CodesOf(codes, u) /\ NotFirst(c)
<1>1. PICK first : first = Earliest(CodesOf(codes, u))
  OBVIOUS
<1>2. c \in CodesOf(codes, u) /\ c # first
  BY <1>1 DEF InWindow
<1>3. first \in CodesOf(codes, u) /\ \A d \in CodesOf(codes, u) : first.at <= d.at
  BY <1>1, <1>2 DEF Earliest, CodeMoments
<1> QED
  BY <1>2, <1>3 DEF CodesOf, NotFirst, CodeMoments

LEMMA ReadOwedRefers ==
  ASSUME IInv, IInv', ReferralInv, [Next]_vars, NEW s \in Calls, ReadOwed(s)
  PROVE  ReferralInv'
<1>1. CASE RollBack(s)
  BY <1>1, RollBackRefers
<1>2. CASE ~RollBack(s)
  <2>1. PICK c : c = call[s]
    OBVIOUS
  <2>2. CallOK(c) /\ c.at = "owed" /\ c.input.op = "settle"
    BY <2>1 DEF IInv, CallsOK, ReadOwed, CallOK
  <2>3. PICK u, done, owed : /\ u = c.input.user /\ done = MissionComplete(u)
                             /\ owed = Payouts(u, done, CodesOf(codes, u))
    OBVIOUS
  <2>4. PICK b \in BindingOf(referrals, u) :
          /\ call' = [call EXCEPT ![s].at = "wallet", ![s].owed = owed,
                                  ![s].owner = b.inviter]
          /\ UNCHANGED tables
    BY <1>2, <2>1, <2>3 DEF ReadOwed
  <2>5. owed # {}
    BY <1>2, <2>1, <2>3 DEF ReadOwed
  <2>6. done /\ CodesOf(codes, u) # {} /\ owed = Owed(u, CodesOf(codes, u))
    BY <2>3, <2>5 DEF Payouts
  <2>7. \E p \in owed : p.key = FirstKey(u)
    <3>1. PICK q : q = [key |-> FirstKey(u), amount |-> FirstBonus,
                        code |-> Earliest(CodesOf(codes, u)).id]
      OBVIOUS
    <3>2. q \in owed /\ q.key = FirstKey(u)
      BY <2>6, <3>1 DEF Owed
    <3> QED
      BY <3>2
  <2>8. ASSUME NEW p \in owed
        PROVE  Due(p.key, u) /\ p.amount = Bonus(p.key, u)
    <3>1. CASE p = [key |-> FirstKey(u), amount |-> FirstBonus,
                    code |-> Earliest(CodesOf(codes, u)).id]
      BY <3>1 DEF Due, Bonus
    <3>2. CASE \E k \in InWindow(CodesOf(codes, u)) :
                 p = [key |-> LaterKey(k.id), amount |-> LaterBonus, code |-> k.id]
      BY <3>2, LaterIsNotFirst DEF Due, Bonus, FirstKey, LaterKey, ReferralInv
    <3> QED
      BY <2>6, <3>1, <3>2 DEF Owed
  <2>9. PICK x : x = [c EXCEPT !.at = "wallet", !.owed = owed, !.owner = b.inviter]
    OBVIOUS
  <2>10. x.at = "wallet" /\ x.input = c.input /\ x.owed = owed
    BY <2>2, <2>9 DEF CallOK
  <2>11. CallRefers(x) /\ ~Redeeming(x)
    BY <2>2, <2>3, <2>6, <2>7, <2>8, <2>10
       DEF CallRefers, OwedOK, PayOK, RowOK, MomentOK, Redeeming
  <2>12. call' = [call EXCEPT ![s] = x]
    BY <2>1, <2>4, <2>9
  <2> QED
    BY <2>4, <2>11, <2>12, MoveRefers
<1> QED
  BY <1>1, <1>2

\* What the plan of each operation says of codes, referrals and payouts.
Proposed(c, p) ==
  /\ \A d \in p.codes : d.at = c.now
  /\ \A b \in p.referrals : b = [invitee |-> b.invitee, inviter |-> b.inviter]
  /\ c.input.op = "settle" =>
       p.entries = {Entry(q.key, c.owner, q.amount) : q \in Unpaid(c.owed)}

LEMMA ProposeRefers ==
  ASSUME IInv, IInv', ReferralInv, [Next]_vars, NEW s \in Calls, NEW c, c = call[s],
         c.at = "decide", NEW p, Propose(s, p), Proposed(c, p)
  PROVE  ReferralInv'
<1>1. CallOK(c) /\ CallRefers(c)
  BY DEF IInv, CallsOK, ReferralInv
<1>2. PICK x : x = [c EXCEPT !.at = "commit", !.plan = p]
  OBVIOUS
<1>3. /\ x.at = "commit" /\ x.plan = p /\ x.owner = c.owner /\ x.input = c.input
      /\ x.owed = c.owed /\ x.now = c.now
  BY <1>1, <1>2 DEF CallOK
<1>4. OwedOK(x) /\ RowOK(x) /\ MomentOK(x)
  BY <1>1, <1>3 DEF CallRefers, OwedOK, RowOK, MomentOK, Redeeming, Located, Proposed
<1>5. PayOK(x)
  <2> SUFFICES ASSUME c.input.op = "settle" PROVE PayOK(x)
    BY <1>3 DEF PayOK
  <2>1. /\ \E q \in c.owed : q.key = FirstKey(c.input.user)
        /\ \A q \in c.owed : /\ Due(q.key, c.input.user)
                             /\ q.amount = Bonus(q.key, c.input.user)
    BY <1>1 DEF CallRefers, OwedOK, Located
  <2>2. ASSUME NEW e \in p.entries
        PROVE  /\ e = Entry(e.key, c.owner, Bonus(e.key, c.input.user))
               /\ Due(e.key, c.input.user)
    <3>1. PICK q \in Unpaid(c.owed) : e = Entry(q.key, c.owner, q.amount)
      BY DEF Proposed
    <3>2. e.key = q.key /\ q \in c.owed
      BY <3>1 DEF Entry, Unpaid
    <3> QED
      BY <2>1, <3>1, <3>2
  <2>3. \/ Recorded(FirstKey(c.input.user))
        \/ \E e \in p.entries : e.key = FirstKey(c.input.user)
    <3>1. PICK q \in c.owed : q.key = FirstKey(c.input.user)
      BY <2>1
    <3>2. PICK e : e = Entry(q.key, c.owner, q.amount)
      OBVIOUS
    <3>3. e.key = FirstKey(c.input.user)
      BY <3>1, <3>2 DEF Entry
    <3>4. ~Recorded(q.key) => e \in p.entries
      BY <3>2 DEF Proposed, Unpaid
    <3> QED
      BY <3>1, <3>3, <3>4
  <2> QED
    BY <1>3, <2>2, <2>3 DEF PayOK
<1>6. \A z \in Calls \ {s} :
        Redeeming(x) /\ Redeeming(call[z]) /\ call[z].input.user = x.input.user
          => call[z].now # x.now
  BY <1>3 DEF ReferralInv, MomentsApart, Redeeming
<1>7. call' = [call EXCEPT ![s] = x] /\ UNCHANGED tables
  BY <1>2 DEF Propose
<1> QED
  BY <1>4, <1>5, <1>6, <1>7, MoveRefers DEF CallRefers

\* Each operation decides: it rolls back, or proposes a plan of that form.
Decides(s) ==
  /\ call[s].at = "decide"
  /\ RollBack(s) \/ \E p : Propose(s, p) /\ Proposed(call[s], p)

LEMMA OperationsDecide ==
  ASSUME NEW s \in Calls,
         \/ StartRun(s) \/ FinishRun(s) \/ Claim(s) \/ ChangeTeam(s) \/ Redeem(s)
         \/ Adjust(s) \/ Bind(s) \/ Settle(s)
  PROVE  Decides(s)
<1>1. CASE StartRun(s)
  BY <1>1 DEF StartRun, Deciding, Decides, Proposed, Nothing
<1>2. CASE FinishRun(s)
  BY <1>2 DEF FinishRun, Deciding, Decides, Proposed, Nothing
<1>3. CASE Claim(s)
  BY <1>3 DEF Claim, Deciding, Decides, Proposed, Nothing
<1>4. CASE ChangeTeam(s)
  BY <1>4 DEF ChangeTeam, Deciding, Decides, Proposed, Nothing
<1>5. CASE Redeem(s)
  <2>1. call[s].at = "decide" /\ call[s].input.op = "redeem"
    BY <1>5 DEF Redeem, Deciding
  <2>2. CASE ~RollBack(s)
    <3>1. PICK row, paid : /\ row = [id |-> call[s].input.arg, user |-> call[s].input.user,
                                     flavor |-> call[s].input.note, at |-> call[s].now]
                           /\ paid = CodeEntries(call[s].input.arg, call[s].input.user)
      OBVIOUS
    <3>2. PICK p : p = [Nothing EXCEPT !.codes = {row}, !.entries = paid]
      OBVIOUS
    <3>3. Propose(s, p)
      BY <1>5, <2>2, <3>1, <3>2 DEF Redeem
    <3>4. p.codes = {row} /\ p.referrals = {} /\ row.at = call[s].now
      BY <3>1, <3>2 DEF Nothing
    <3> QED
      BY <2>1, <3>3, <3>4 DEF Decides, Proposed
  <2> QED
    BY <2>1, <2>2 DEF Decides
<1>6. CASE Adjust(s)
  BY <1>6 DEF Adjust, Deciding, Decides, Proposed, Nothing
<1>7. CASE Bind(s)
  BY <1>7 DEF Bind, Deciding, Decides, Proposed, Nothing
<1>8. CASE Settle(s)
  <2>1. call[s].at = "decide"
    BY <1>8 DEF Settle, Deciding
  <2>2. PICK entries, first :
          /\ Propose(s, [Nothing EXCEPT !.entries = entries, !.first = first])
          /\ entries = {Entry(q.key, call[s].owner, q.amount) : q \in Unpaid(call[s].owed)}
    BY <1>8 DEF Settle
  <2>3. PICK p : p = [Nothing EXCEPT !.entries = entries, !.first = first]
    OBVIOUS
  <2>4. p.codes = {} /\ p.referrals = {} /\ p.entries = entries
    BY <2>3 DEF Nothing
  <2> QED
    BY <2>1, <2>2, <2>3, <2>4 DEF Decides, Proposed
<1> QED
  BY <1>1, <1>2, <1>3, <1>4, <1>5, <1>6, <1>7, <1>8

LEMMA DecideRefers ==
  ASSUME IInv, IInv', ReferralInv, [Next]_vars, NEW s \in Calls, Decides(s)
  PROVE  ReferralInv'
<1>1. CASE RollBack(s)
  BY <1>1, RollBackRefers
<1>2. CASE \E p : Propose(s, p) /\ Proposed(call[s], p)
  <2>1. PICK c : c = call[s]
    OBVIOUS
  <2>2. PICK p : Propose(s, p) /\ Proposed(c, p)
    BY <1>2, <2>1
  <2> QED
    BY <2>1, <2>2, ProposeRefers DEF Decides
<1> QED
  BY <1>1, <1>2 DEF Decides

-----------------------------------------------------------------------------
(* Committing                                                              *)

\* The key of an entry that a settlement pays names its invitee.
LEMMA DueOf ==
  ASSUME CodeBooks, NEW key, NEW u, Due(key, u)
  PROVE  /\ \A v : key = FirstKey(v) => v = u
         /\ \A id : key = LaterKey(id) =>
              \E c \in codes : c.user = u /\ c.id = id /\ NotFirst(c)
BY DEF Due, FirstKey, LaterKey, CodesOf

LEMMA CommitRefers ==
  ASSUME IInv, IInv', ReferralInv, [Next]_vars, NEW s \in Calls, Commit(s)
  PROVE  ReferralInv'
<1>1. PICK c : c = call[s]
  OBVIOUS
<1>2. PICK p, u : p = c.plan /\ u = c.input.user
  OBVIOUS
<1>3. /\ CallOK(c) /\ c.at = "commit" /\ CallRefers(c) /\ PlanOK(p, c.owner, c.input)
      /\ c.now \in Nat /\ c.input \in Inputs /\ c.owner \in Users
  BY <1>1, <1>2, CommitFacts DEF ReferralInv, CallOK
<1>4. /\ codes' = codes \cup p.codes /\ ledger' = ledger \cup p.entries
      /\ referrals' = referrals \cup p.referrals
      /\ call' = [call EXCEPT ![s] = Idle]
  BY <1>1, <1>2 DEF Commit
<1>5. call'[s] = Idle /\ \A z \in Calls \ {s} : call'[z] = call[z]
  BY <1>4 DEF IInv, CallsOK
<1>6. ASSUME NEW d \in p.codes
      PROVE  /\ Redeeming(c) /\ d.user = u /\ d.at = c.now /\ p.codes = {d}
             /\ \A k \in codes : k.user = u => k.at # c.now
  <2>1. c.input.op = "redeem" /\ d.user = c.owner /\ p.codes = {d}
    BY <1>3 DEF PlanOK, RowsOK
  <2>2. d.user = u
    BY <1>2, <1>3, <2>1 DEF CallOK, Located
  <2> QED
    BY <1>2, <1>3, <2>1, <2>2 DEF CallRefers, RowOK, MomentOK, Redeeming
<1>7. CodeMoments'
  <2>1. /\ \A d \in codes' : d.at \in Nat
        /\ \A d, k \in codes' : d.user = k.user /\ d.at = k.at => d = k
    BY <1>3, <1>4, <1>6 DEF ReferralInv, CodeMoments
  <2>2. ASSUME NEW v, CodesOf(codes', v) # {}
        PROVE  \E k \in CodesOf(codes', v) : \A d \in CodesOf(codes', v) : k.at <= d.at
    <3>1. CASE CodesOf(codes', v) = CodesOf(codes, v)
      BY <2>2, <3>1 DEF ReferralInv, CodeMoments
    <3>2. CASE CodesOf(codes', v) # CodesOf(codes, v)
      <4>1. PICK d \in p.codes : d.user = v
        BY <1>4, <3>2 DEF CodesOf
      <4>2. CodesOf(codes', v) = CodesOf(codes, v) \cup {d} /\ d.at \in Nat
        BY <1>3, <1>4, <1>6, <4>1 DEF CodesOf
      <4>3. CASE CodesOf(codes, v) = {}
        BY <4>2, <4>3
      <4>4. CASE CodesOf(codes, v) # {}
        <5>1. PICK k \in CodesOf(codes, v) : \A e \in CodesOf(codes, v) : k.at <= e.at
          BY <4>4 DEF ReferralInv, CodeMoments
        <5>2. \A e \in CodesOf(codes, v) : e.at \in Nat
          BY DEF CodesOf, ReferralInv, CodeMoments
        <5>3. CASE k.at <= d.at
          BY <4>2, <5>1, <5>3
        <5>4. CASE ~(k.at <= d.at)
          <6>1. \A e \in CodesOf(codes', v) : d.at <= e.at
            BY <4>2, <5>1, <5>2, <5>4
          <6> QED
            BY <4>2, <6>1
        <5> QED
          BY <5>3, <5>4
      <4> QED
        BY <4>3, <4>4
    <3> QED
      BY <3>1, <3>2
  <2> QED
    BY <2>1, <2>2 DEF CodeMoments
<1>8. \A b \in referrals' : b = [invitee |-> b.invitee, inviter |-> b.inviter]
  BY <1>2, <1>3, <1>4 DEF ReferralInv, CallRefers, RowOK
\* What a plan of a settlement pays, and that no other plan pays for referrals.
<1>9. ASSUME NEW e \in p.entries, e.key[1] \in {"referral:first", "referral:code"}
      PROVE  /\ c.input.op = "settle" /\ Due(e.key, u) /\ Binds(u, e.user)
             /\ e = Entry(e.key, c.owner, Bonus(e.key, u))
  <2>1. c.input.op = "settle"
    <3>1. KeyOK(e.key, p, c.owner, c.input)
      BY <1>3 DEF PlanOK, EntriesOK
    <3> QED
      BY <1>9, <3>1, KeyFamilies
  <2>2. Due(e.key, u) /\ e = Entry(e.key, c.owner, Bonus(e.key, u))
    BY <1>2, <1>3, <2>1 DEF CallRefers, PayOK
  <2>3. PICK b \in referrals : b.invitee = u /\ b.inviter = c.owner
    BY <1>2, <1>3, <2>1 DEF CallOK, Located
  <2>4. Binds(u, c.owner)
    BY <2>3 DEF ReferralInv, Binds
  <2>5. e.user = c.owner
    BY <2>2 DEF Entry
  <2> QED
    BY <2>1, <2>2, <2>4, <2>5
<1>10. FirstPaid'
  <2> SUFFICES ASSUME NEW e \in ledger', NEW v \in Users, e.key = FirstKey(v)
               PROVE  MissionComplete(v)' /\ CodesOf(codes', v) # {} /\ Binds(v, e.user)'
    BY DEF FirstPaid
  <2>1. MissionComplete(v) /\ CodesOf(codes, v) # {} /\ Binds(v, e.user)
    <3>1. CASE e \in ledger
      BY <3>1 DEF ReferralInv, FirstPaid
    <3>2. CASE e \in p.entries
      <4>1. c.input.op = "settle" /\ Due(e.key, u) /\ Binds(u, e.user)
        BY <1>9, <3>2 DEF FirstKey
      <4>2. v = u
        BY <4>1, DueOf DEF IInv, Books
      <4> QED
        BY <1>2, <1>3, <4>1, <4>2 DEF CallRefers, OwedOK, Located
    <3> QED
      BY <1>4, <3>1, <3>2
  <2> QED
    BY <1>4, <2>1, Grow DEF CodesOf, Binds
<1>11. LaterPaid'
  <2> SUFFICES ASSUME NEW e \in ledger', NEW id, e.key = LaterKey(id)
               PROVE  \E k \in codes' : /\ k.id = id /\ NotFirst(k)' /\ Binds(k.user, e.user)'
                                        /\ Recorded(FirstKey(k.user))'
    BY DEF LaterPaid
  <2>1. \E k \in codes : /\ k.id = id /\ NotFirst(k) /\ Binds(k.user, e.user)
                         /\ Recorded(FirstKey(k.user))'
    <3>1. CASE e \in ledger
      BY <3>1, Grow DEF ReferralInv, LaterPaid
    <3>2. CASE e \in p.entries
      <4>1. c.input.op = "settle" /\ Due(e.key, u) /\ Binds(u, e.user)
        BY <1>9, <3>2 DEF LaterKey
      <4>2. PICK k \in codes : k.user = u /\ k.id = id /\ NotFirst(k)
        BY <4>1, DueOf DEF IInv, Books
      <4>3. Recorded(FirstKey(u))'
        BY <1>2, <1>3, <1>4, <4>1 DEF CallRefers, PayOK, Recorded
      <4> QED
        BY <4>1, <4>2, <4>3
    <3> QED
      BY <1>4, <3>1, <3>2
  <2> QED
    BY <1>4, <2>1, Grow DEF Binds
<1>12. PaidOnce'
  <2> SUFFICES ASSUME NEW e \in ledger', NEW f \in ledger', e.key = f.key,
                      e.key[1] \in {"referral:first", "referral:code"}
               PROVE  e = f
    BY DEF PaidOnce
  <2>1. CASE e \in ledger /\ f \in ledger
    BY <2>1 DEF ReferralInv, PaidOnce
  <2>2. CASE e \in p.entries /\ f \in p.entries
    BY <1>9, <2>2
  <2>3. ~ \E g \in p.entries, h \in ledger : g.key = h.key
    BY <1>3 DEF PlanOK, EntriesOK, Recorded
  <2> QED
    BY <1>4, <2>1, <2>2, <2>3
<1>13. ASSUME NEW z \in Calls \ {s}, NEW d, d = call[z]
       PROVE  CallRefers(d)'
  <2>1. CallRefers(d)
    BY <1>13 DEF ReferralInv
  <2>2. MomentOK(d)'
    <3> SUFFICES ASSUME Redeeming(d), NEW k \in p.codes, k.user = d.input.user
                 PROVE  k.at # d.now
      BY <1>4, <2>1 DEF CallRefers, MomentOK
    <3> QED
      BY <1>1, <1>2, <1>6, <1>13 DEF ReferralInv, MomentsApart
  <2> QED
    BY <2>1, <2>2, Grow DEF CallRefers, RowOK
<1>14. \A z \in Calls : CallRefers(call[z])'
  <2>1. CallRefers(Idle)'
    BY DEF CallRefers, OwedOK, PayOK, RowOK, MomentOK, Redeeming, Idle, Located
  <2> QED
    BY <1>5, <1>13, <2>1
<1>15. MomentsApart'
  BY <1>5 DEF ReferralInv, MomentsApart, Redeeming, Idle
<1> QED
  BY <1>7, <1>8, <1>10, <1>11, <1>12, <1>14, <1>15 DEF ReferralInv

LEMMA StepReferralInv ==
  ASSUME IInv, IInv', ReferralInv, [Next]_vars
  PROVE  ReferralInv'
<1>1. ASSUME NEW s \in Calls, Handle(s)
      PROVE  ReferralInv'
  <2>1. CASE \E i \in Inputs : Begin(s, i)
    BY <2>1, BeginRefers
  <2>2. CASE LockWallet(s)
    BY <2>2, LockWalletRefers
  <2>3. CASE Commit(s)
    BY <2>3, CommitRefers
  <2>4. CASE Abort(s)
    BY <2>4, RollBackRefers DEF Abort
  <2>5. CASE \/ StartRun(s) \/ FinishRun(s) \/ Claim(s) \/ ChangeTeam(s) \/ Redeem(s)
             \/ Adjust(s) \/ Bind(s) \/ Settle(s)
    BY <2>5, OperationsDecide, DecideRefers
  <2>6. CASE ReadOwed(s)
    BY <2>6, ReadOwedRefers
  <2> QED
    BY <1>1, <2>1, <2>2, <2>3, <2>4, <2>5, <2>6 DEF Handle
<1>2. CASE (\E u \in Users : UpdateProfile(u)) \/ Tick \/ UNCHANGED vars
  <2>1. UNCHANGED <<runs, teams, referrals, codes, ledger, call>>
    BY <1>2 DEF UpdateProfile, Tick, tables, vars
  <2>2. /\ CodeMoments' /\ PaidOnce' /\ LaterPaid' /\ MomentsApart'
        /\ \A b \in referrals' : b = [invitee |-> b.invitee, inviter |-> b.inviter]
    BY <2>1 DEF ReferralInv, CodeMoments, PaidOnce, LaterPaid, NotFirst, Binds, Recorded, MomentsApart
  <2>3. FirstPaid'
    BY <2>1, Grow DEF ReferralInv, FirstPaid, Binds
  <2>4. \A c : CallRefers(c) => CallRefers(c)'
    BY <2>1, Grow DEF CallRefers, RowOK, MomentOK
  <2>5. \A z \in Calls : CallRefers(call[z])'
    BY <2>1, <2>4 DEF ReferralInv
  <2> QED
    BY <2>2, <2>3, <2>5 DEF ReferralInv
<1> QED
  BY <1>1, <1>2 DEF Next

LEMMA AlwaysReferralInv == Spec => [](IInv /\ ReferralInv)
<1>1. IInv /\ ReferralInv /\ [Next]_vars => IInv' /\ ReferralInv'
  BY StepIInv, StepReferralInv
<1> QED
  BY InitIInv, InitReferralInv, <1>1, PTL DEF Spec

-----------------------------------------------------------------------------
(* The theorem                                                             *)

\* n codes earn at most n - 1 later bonuses: the earliest earns none.
LEMMA LaterAreFewer ==
  ASSUME IInv, ReferralInv, NEW u, CodesOf(codes, u) # {}, NEW later,
         later = {e \in ledger : \E c \in CodesOf(codes, u) : e.key = LaterKey(c.id)}
  PROVE  Cardinality(later) < Cardinality(CodesOf(codes, u))
<1>1. PICK C : C = CodesOf(codes, u)
  OBVIOUS
<1>2. IsFiniteSet(C) /\ C # {} /\ C \subseteq codes
  BY <1>1, FS_Subset DEF CodesOf, IInv, Books, CodeBooks
<1>3. PICK first \in C : \A d \in C : first.at <= d.at
  BY <1>1 DEF ReferralInv, CodeMoments
<1>4. ~NotFirst(first)
  BY <1>1, <1>3 DEF NotFirst, CodesOf, ReferralInv, CodeMoments
<1>5. PICK f : f = [e \in later |-> CHOOSE c \in C : e.key = LaterKey(c.id)]
  OBVIOUS
<1>6. ASSUME NEW e \in later
      PROVE  f[e] \in C \ {first} /\ e.key = LaterKey(f[e].id)
  <2>1. f[e] \in C /\ e.key = LaterKey(f[e].id)
    BY <1>1, <1>5
  <2>2. PICK c \in codes : c.id = f[e].id /\ NotFirst(c)
    BY <2>1 DEF ReferralInv, LaterPaid
  <2>3. c = f[e]
    BY <1>2, <2>1, <2>2 DEF IInv, Books, CodeBooks
  <2> QED
    BY <1>4, <2>1, <2>2, <2>3
<1>7. \A e, g \in later : f[e] = f[g] => e = g
  BY <1>6 DEF ReferralInv, PaidOnce, LaterKey
<1>8. f \in Injection(later, C \ {first})
  <2>1. f \in [later -> C \ {first}]
    BY <1>5, <1>6
  <2> QED
    BY <1>7, <2>1 DEF Injection, IsInjective
<1>9. IsFiniteSet(C \ {first}) /\ Cardinality(C \ {first}) = Cardinality(C) - 1
  BY <1>2, <1>3, FS_RemoveElement
<1>10. /\ IsFiniteSet(later) /\ Cardinality(later) <= Cardinality(C \ {first})
       /\ Cardinality(later) \in Nat /\ Cardinality(C) \in Nat
  BY <1>2, <1>8, <1>9, FS_Injection, FS_CardinalityType
<1> QED
  BY <1>1, <1>9, <1>10

\* Referral coins go to the inviter alone, after the mission, the first bonus
\* not after a later one, and never more later ones than codes but one, for
\* any number of settlements that read before they lock.
THEOREM ReferralsPay == Spec => []ReferralsPayTheInviter
<1>1. IInv /\ ReferralInv => ReferralsPayTheInviter
  <2> SUFFICES ASSUME IInv, ReferralInv, NEW u \in Users, NEW first, NEW later,
                      first = {e \in ledger : e.key = FirstKey(u)},
                      later = {e \in ledger :
                                 \E c \in CodesOf(codes, u) : e.key = LaterKey(c.id)}
               PROVE  /\ \A e \in first \cup later :
                           [invitee |-> u, inviter |-> e.user] \in referrals
                      /\ first # {} => MissionComplete(u)
                      /\ later # {} => first # {}
                      /\ first # {} => Cardinality(later) < Cardinality(CodesOf(codes, u))
    BY DEF ReferralsPayTheInviter
  <2>1. \A e \in first : Binds(u, e.user) /\ MissionComplete(u) /\ CodesOf(codes, u) # {}
    BY DEF ReferralInv, FirstPaid
  <2>2. \A e \in later : Binds(u, e.user) /\ Recorded(FirstKey(u))
    <3> SUFFICES ASSUME NEW e \in later
                 PROVE  Binds(u, e.user) /\ Recorded(FirstKey(u))
      OBVIOUS
    <3>1. PICK c \in CodesOf(codes, u) : e.key = LaterKey(c.id)
      OBVIOUS
    <3>2. PICK d \in codes : /\ d.id = c.id /\ Binds(d.user, e.user)
                             /\ Recorded(FirstKey(d.user))
      BY <3>1 DEF ReferralInv, LaterPaid
    <3>3. d = c /\ c.user = u
      BY <3>2 DEF CodesOf, IInv, Books, CodeBooks
    <3> QED
      BY <3>2, <3>3
  <2>3. later # {} => first # {}
    BY <2>2 DEF Recorded
  <2>4. first # {} => Cardinality(later) < Cardinality(CodesOf(codes, u))
    BY <2>1, LaterAreFewer
  <2> QED
    BY <2>1, <2>2, <2>3, <2>4 DEF Binds
<1> QED
  BY <1>1, AlwaysReferralInv, PTL

-----------------------------------------------------------------------------
(* What rewards were earned with                                           *)

\* A claim some player could make.
Claimable(k) ==
  /\ k = [challenge |-> k.challenge, user |-> k.user, period |-> k.period]
  /\ k.challenge \in DOMAIN Catalogue /\ k.user \in Users
  /\ Evaluable(Catalogue[k.challenge])
  /\ \E t \in Start..MaxTime : k.period = PeriodKey(Catalogue[k.challenge].period, t)

\* A claim that was earned, and paid by one of the rows if it pays.
ClaimOK(k, rows) ==
  /\ Claimable(k)
  /\ Facts(k) >= Catalogue[k.challenge].target
  /\ Catalogue[k.challenge].reward > 0 =>
       \E e \in rows : e.key = ChallengeKey(k.challenge, k.period, k.user)

\* The days, of which last is the latest, that u checked in on.
Streak(u, n, done) ==
  \E c \in DOMAIN Catalogue, last \in LocalDate(Start)..LocalDate(MaxTime) :
    /\ Catalogue[c].kind = "daily_checkin"
    /\ \A i \in 0..(n - 1) :
         [challenge |-> c, user |-> u, period |-> <<"day", last - i>>] \in done

UnlockOK(x, done, rows) ==
  /\ x \in [id : DOMAIN Achievements, user : Users]
  /\ Streak(x.user, Achievements[x.id].threshold, done)
  /\ Achievements[x.id].reward > 0 =>
       \E e \in rows : e.key = AchievementKey(x.id, x.user)

Timely(run) == run.issuedAt <= MaxTime /\ run.finishedAt <= MaxTime

\* A plan of a claim was earned already.
GainOK(p) ==
  /\ \A r \in DOMAIN p.runs : Timely(p.runs[r])
  /\ \A e \in p.entries : e.amount # 0
  /\ \A k \in p.claims : ClaimOK(k, p.entries)
  /\ \A x \in p.unlocked : UnlockOK(x, claims \cup p.claims, p.entries)

TimeOK(c) == c.now <= clock /\ (c.at # "idle" => Start <= c.now)

EarnedBooks ==
  /\ \A k \in claims : ClaimOK(k, ledger)
  /\ \A x \in unlocked : UnlockOK(x, claims, ledger)

TypeBooks ==
  /\ clock \in Start..MaxTime /\ IsFiniteSet(teams) /\ profiled \subseteq Users
  /\ \A r \in RunIds : /\ Timely(runs[r])
                       /\ runs[r].status # "none" => runs[r].user \in Users
  /\ \A b \in referrals : b.invitee \in Users
  /\ \A e \in ledger : e.user \in Users /\ e.amount # 0

EarnedInv ==
  /\ TypeBooks /\ EarnedBooks
  /\ \A s \in Calls : TimeOK(call[s]) /\ (call[s].at = "commit" => GainOK(call[s].plan))

-----------------------------------------------------------------------------
(* Dates                                                                   *)

LEMMA DateType ==
  ASSUME NEW t \in Int
  PROVE  LocalDate(t) \in Int
BY PeriodsAssumption DEF LocalDate

LEMMA DatesGrow ==
  ASSUME NEW s \in Int, NEW t \in Int, s <= t
  PROVE  LocalDate(s) <= LocalDate(t)
<1>1. PICK D, x, y : D = DayLength /\ x = s + Offset /\ y = t + Offset
  OBVIOUS
<1>2. D \in Nat \ {0} /\ x \in Int /\ y \in Int /\ x <= y
  BY <1>1, PeriodsAssumption
<1>3. x \div D <= y \div D
  BY <1>2
<1> QED
  BY <1>1, <1>3 DEF LocalDate

\* From the midnight of a date on, the date has come.
LEMMA MidnightPassed ==
  ASSUME NEW x \in Int, NEW t \in Int, t >= LocalMidnight(x)
  PROVE  LocalDate(t) >= x
<1>1. PICK D, y : D = DayLength /\ y = t + Offset
  OBVIOUS
<1>2. D \in Nat \ {0} /\ y \in Int /\ y >= x * D
  BY <1>1, PeriodsAssumption DEF LocalMidnight
<1>3. y \div D >= x
  BY <1>2
<1> QED
  BY <1>1, <1>3 DEF LocalDate

\* The month of a date after the clock's start has begun.
LEMMA MonthBegins ==
  ASSUME NEW d \in Int, LocalDate(Start) <= d
  PROVE  MonthOf(d) \in Int
<1>1. PICK S : S = {m \in FirstOfMonth : m <= d}
  OBVIOUS
<1>2. S \subseteq Int /\ \A m \in S : m <= d
  BY <1>1, PeriodsAssumption
<1>3. S # {}
  <2>1. PICK m \in FirstOfMonth : m <= LocalDate(Start)
    BY EconomyAssumption
  <2>2. m \in Int /\ LocalDate(Start) \in Int
    BY DateType, PeriodsAssumption, EconomyAssumption
  <2> QED
    BY <1>1, <2>1, <2>2
<1>4. PICK T : T = {n \in Nat : d - n \in S}
  OBVIOUS
<1>5. T # {}
  <2>1. PICK m \in S : TRUE
    BY <1>3
  <2>2. d - m \in Nat /\ d - (d - m) = m
    BY <1>2
  <2> QED
    BY <1>4, <2>2
<1>6. PICK n \in T : \A l \in T : n <= l
  BY <1>4, <1>5, LeastNatural
<1>7. \A m \in S : d - n >= m
  <2> SUFFICES ASSUME NEW m \in S PROVE d - n >= m
    OBVIOUS
  <2>1. d - m \in Nat /\ d - (d - m) = m /\ m \in Int
    BY <1>2
  <2>2. d - m \in T
    BY <1>4, <2>1
  <2>3. n <= d - m /\ n \in Nat
    BY <1>4, <1>6, <2>2
  <2> QED
    BY <2>1, <2>3
<1>8. d - n \in S
  BY <1>4, <1>6
<1>9. \E x \in S : \A y \in S : x >= y
  BY <1>7, <1>8
<1>10. Max(S) \in S
  BY <1>9 DEF Max
<1> QED
  BY <1>1, <1>2, <1>10 DEF MonthOf

\* A period begins at the midnight of the date its key holds.
LEMMA PeriodDate ==
  ASSUME NEW now \in Start..MaxTime, NEW period \in {"day", "week", "month"}
  PROVE  \E x \in Int : /\ PeriodKey(period, now) = <<period, x>>
                        /\ PeriodStart(period, now) = LocalMidnight(x)
<1>1. now \in Int /\ Start \in Int /\ Start <= now
  BY EconomyAssumption
<1>2. PICK d : d = LocalDate(now)
  OBVIOUS
<1>3. d \in Int /\ LocalDate(Start) <= d
  BY <1>1, <1>2, DateType, DatesGrow
<1>4. CASE period = "day"
  BY <1>2, <1>3, <1>4 DEF PeriodKey, PeriodStart, DayKey, DayStart
<1>5. CASE period = "week"
  <2>1. SaturdayBefore(d) \in Int
    BY <1>3 DEF SaturdayBefore, Saturday
  <2> QED
    BY <1>2, <1>5, <2>1 DEF PeriodKey, PeriodStart, WeekKey, WeekStart
<1>6. CASE period = "month"
  <2>1. MonthOf(d) \in Int
    BY <1>3, MonthBegins
  <2> QED
    BY <1>2, <1>6, <2>1 DEF PeriodKey, PeriodStart, MonthKey, MonthStart
<1> QED
  BY <1>4, <1>5, <1>6

-----------------------------------------------------------------------------
(* Streaks                                                                 *)

\* The function that CurrentStreak walks with.
Walk(claimed) ==
  CHOOSE walk : walk = [day \in Int |-> IF day \in claimed THEN 1 + walk[day - 1] ELSE 0]

\* How many days, from this one back, were claimed without a gap.
Gaps(claimed, day) == {n \in Nat : day - n \notin claimed}
Length(claimed, day) == CHOOSE n \in Gaps(claimed, day) : \A m \in Gaps(claimed, day) : n <= m

LEMMA StreakWalks ==
  ASSUME NEW claimed, NEW today
  PROVE  CurrentStreak(claimed, today) =
           Walk(claimed)[IF today \in claimed THEN today ELSE today - 1]
BY DEF CurrentStreak, Walk

LEMMA LengthIs ==
  ASSUME NEW claimed, NEW low \in Int, claimed \subseteq Int, \A d \in claimed : d >= low,
         NEW day \in Int, NEW n, n = Length(claimed, day)
  PROVE  /\ n \in Nat /\ day - n \notin claimed
         /\ \A m \in Nat : day - m \notin claimed => n <= m
<1>1. PICK G : G = Gaps(claimed, day)
  OBVIOUS
<1>2. G \subseteq Nat
  BY <1>1 DEF Gaps
<1>3. G # {}
  <2>1. CASE day < low
    <3>1. day - 0 = day /\ day \notin claimed
      BY <2>1
    <3> QED
      BY <1>1, <3>1 DEF Gaps
  <2>2. CASE ~(day < low)
    <3>1. PICK m : m = day - low + 1
      OBVIOUS
    <3>2. m \in Nat /\ day - m < low /\ day - m \in Int
      BY <2>2, <3>1
    <3>3. day - m \notin claimed
      BY <3>2
    <3> QED
      BY <1>1, <3>2, <3>3 DEF Gaps
  <2> QED
    BY <2>1, <2>2
<1>4. \E k \in G : \A m \in G : k <= m
  BY <1>2, <1>3, LeastNatural
<1>5. n \in G /\ \A m \in G : n <= m
  BY <1>1, <1>4 DEF Length
<1> QED
  BY <1>1, <1>5 DEF Gaps

\* The walk exists: it is that length.
LEMMA WalkIs ==
  ASSUME NEW claimed, NEW low \in Int, claimed \subseteq Int, \A d \in claimed : d >= low
  PROVE  Walk(claimed) =
           [day \in Int |-> IF day \in claimed THEN 1 + Walk(claimed)[day - 1] ELSE 0]
<1>1. PICK w : w = [day \in Int |-> Length(claimed, day)]
  OBVIOUS
<1>2. ASSUME NEW day \in Int
      PROVE  w[day] = IF day \in claimed THEN 1 + w[day - 1] ELSE 0
  <2>1. PICK n, m : n = w[day] /\ m = w[day - 1]
    OBVIOUS
  <2>2. day - 1 \in Int
    OBVIOUS
  <2>3. n = Length(claimed, day) /\ m = Length(claimed, day - 1)
    BY <1>1, <2>1, <2>2
  <2>4. /\ n \in Nat /\ day - n \notin claimed
        /\ \A k \in Nat : day - k \notin claimed => n <= k
    BY <2>3, LengthIs
  <2>5. /\ m \in Nat /\ day - 1 - m \notin claimed
        /\ \A k \in Nat : day - 1 - k \notin claimed => m <= k
    BY <2>2, <2>3, LengthIs
  <2>6. CASE day \notin claimed
    <3>1. day - 0 = day
      OBVIOUS
    <3>2. n <= 0
      BY <2>4, <2>6, <3>1
    <3> QED
      BY <2>1, <2>4, <2>6, <3>2
  <2>7. CASE day \in claimed
    <3>1. n # 0
      <4>1. day - 0 = day
        OBVIOUS
      <4> QED
        BY <2>4, <2>7, <4>1
    <3>2. n - 1 \in Nat /\ day - 1 - (n - 1) = day - n
      BY <2>4, <3>1
    <3>3. m <= n - 1
      BY <2>4, <2>5, <3>2
    <3>4. m + 1 \in Nat /\ day - (m + 1) = day - 1 - m
      BY <2>5
    <3>5. n <= m + 1
      BY <2>4, <2>5, <3>4
    <3> QED
      BY <2>1, <2>4, <2>5, <2>7, <3>3, <3>5
  <2> QED
    BY <2>6, <2>7
<1>3. w = [day \in Int |-> IF day \in claimed THEN 1 + w[day - 1] ELSE 0]
  <2>1. PICK v : v = [day \in Int |-> IF day \in claimed THEN 1 + w[day - 1] ELSE 0]
    OBVIOUS
  <2>2. \A day \in Int : w[day] = v[day]
    BY <1>2, <2>1
  <2> QED
    BY <1>1, <2>1, <2>2
<1> QED
  BY <1>3 DEF Walk

\* The streak of a day that was claimed: every day of it was.
LEMMA StreakHeld ==
  ASSUME NEW claimed, NEW low \in Int, claimed \subseteq Int, \A d \in claimed : d >= low,
         NEW today \in claimed, NEW n \in Nat, CurrentStreak(claimed, today) >= n
  PROVE  \A i \in 0..(n - 1) : today - i \in claimed
<1>1. PICK w, m : w = Walk(claimed) /\ m = Length(claimed, today)
  OBVIOUS
<1>2. today \in Int
  OBVIOUS
<1>3. /\ m \in Nat /\ today - m \notin claimed
      /\ \A k \in Nat : today - k \notin claimed => m <= k
  BY <1>1, <1>2, LengthIs
<1>4. \A day \in Int : w[day] = IF day \in claimed THEN 1 + w[day - 1] ELSE 0
  BY <1>1, WalkIs
<1>5. w[today] = m
  <2>1. PICK Bad : Bad = {j \in 0..m : w[today - j] # m - j}
    OBVIOUS
  <2>2. CASE Bad = {}
    <3>1. 0 \in 0..m /\ today - 0 = today /\ m - 0 = m
      BY <1>2, <1>3
    <3> QED
      BY <2>1, <2>2, <3>1
  <2>3. CASE Bad # {}
    <3>1. PICK j \in Bad : \A k \in Bad : k <= j
      BY <1>3, <2>1, <2>3, GreatestNatural
    <3>2. j \in 0..m /\ w[today - j] # m - j
      BY <2>1
    <3>3. j # m
      BY <1>2, <1>3, <1>4, <3>2
    <3>4. j + 1 \in 0..m /\ ~(j + 1 <= j)
      BY <1>3, <3>2, <3>3
    <3>5. w[today - (j + 1)] = m - (j + 1)
      BY <2>1, <3>1, <3>4
    <3>6. today - j \in claimed
      BY <1>3, <3>2, <3>3
    <3>7. w[today - j] = 1 + w[today - j - 1] /\ today - j - 1 = today - (j + 1)
      BY <1>2, <1>4, <3>2, <3>6
    <3>8. w[today - j] = 1 + (m - (j + 1))
      BY <3>5, <3>7
    <3> QED
      BY <1>3, <3>2, <3>8
  <2> QED
    BY <2>2, <2>3
<1>6. m >= n
  BY <1>1, <1>5, StreakWalks
<1>7. ASSUME NEW i \in 0..(n - 1) PROVE today - i \in claimed
  <2>1. i \in Nat /\ ~(m <= i)
    BY <1>3, <1>6
  <2> QED
    BY <1>3, <2>1
<1> QED
  BY <1>7

-----------------------------------------------------------------------------
(* The facts of a claim                                                    *)

LEMMA CountMore ==
  ASSUME NEW B, IsFiniteSet(B), NEW A, A \subseteq B
  PROVE  /\ Cardinality(A) \in Nat /\ Cardinality(B) \in Nat
         /\ Cardinality(A) <= Cardinality(B)
BY FS_Subset, FS_CardinalityType

\* The sets that Facts counts.
Fast(table, u, x) ==
  {r \in RunIds : /\ table[r].user = u /\ table[r].status = "accepted" /\ table[r].quick
                  /\ LocalDate(table[r].finishedAt) >= x}
Found(rows, u, x) == {c.flavor : c \in {d \in rows : d.user = u /\ LocalDate(d.at) >= x}}

LEMMA FlavorsAreFinite ==
  ASSUME NEW D, IsFiniteSet(D)
  PROVE  IsFiniteSet({c.flavor : c \in D})
<1> DEFINE f == [c \in D |-> c.flavor]
<1>1. {f[c] : c \in D} = {c.flavor : c \in D}
  OBVIOUS
<1> HIDE DEF f
<1> QED
  BY <1>1, FiniteImage

LEMMA FoundFinite ==
  ASSUME NEW rows, IsFiniteSet(rows), NEW u, NEW x
  PROVE  IsFiniteSet(Found(rows, u, x))
<1>1. PICK D : D = {d \in rows : d.user = u /\ LocalDate(d.at) >= x}
  OBVIOUS
<1>2. D \subseteq rows
  BY <1>1
<1>3. IsFiniteSet(D)
  BY <1>2, FS_Subset
<1>4. IsFiniteSet({c.flavor : c \in D})
  BY <1>3, FlavorsAreFinite
<1> QED
  BY <1>1, <1>4 DEF Found

LEMMA KindOf ==
  ASSUME NEW k, k.challenge \in DOMAIN Catalogue
  PROVE  /\ Catalogue[k.challenge].kind \in Kinds
         /\ Catalogue[k.challenge].period \in {"once", "day", "week", "month"}
         /\ Catalogue[k.challenge].target \in Nat \ {0}
         /\ Catalogue[k.challenge].reward \in Nat
BY ChallengesAssumption

\* What a player has done is never undone.
LEMMA FactsStay ==
  ASSUME IInv, IInv', [Next]_vars, IsFiniteSet(teams'), NEW k, k.challenge \in DOMAIN Catalogue
  PROVE  Facts(k) \in Nat /\ Facts(k)' \in Nat /\ Facts(k) <= Facts(k)'
<1>1. /\ teams \subseteq teams' /\ codes \subseteq codes'
      /\ IsFiniteSet(codes) /\ IsFiniteSet(codes') /\ IsFiniteSet(Issued) /\ IsFiniteSet(Issued')
  BY WritesAreCommits DEF Commit, IInv, Books, CodeBooks, AuditBooks
<1>2. \A r \in RunIds : runs[r].status = "accepted" => runs'[r] = runs[r]
  BY AcceptedStays
<1>3. PICK kind, u, x : kind = Catalogue[k.challenge].kind /\ u = k.user /\ x = k.period[2]
  OBVIOUS
<1>4. kind \in Kinds
  BY <1>3, KindOf
<1>5. CASE kind = "team_choice"
  <2>1. PICK A, B : A = {m \in teams : m.user = u} /\ B = {m \in teams' : m.user = u}
    OBVIOUS
  <2>2. A \subseteq B /\ IsFiniteSet(B)
    BY <1>1, <2>1, FS_Subset
  <2>3. Facts(k) = Cardinality(A) /\ Facts(k)' = Cardinality(B)
    BY <1>3, <1>5, <2>1 DEF Facts
  <2> QED
    BY <2>2, <2>3, CountMore
<1>6. CASE kind = "daily_checkin"
  BY <1>3, <1>6 DEF Facts
<1>7. CASE kind = "first_mini_game"
  <2>1. PICK A, B : /\ A = {r \in RunIds : runs[r].user = u /\ runs[r].status = "accepted"}
                    /\ B = {r \in RunIds : runs'[r].user = u /\ runs'[r].status = "accepted"}
    OBVIOUS
  <2>2. A \subseteq B /\ B \subseteq Issued'
    BY <1>2, <2>1 DEF Issued
  <2>3. IsFiniteSet(B)
    BY <1>1, <2>2, FS_Subset
  <2>4. Facts(k) = Cardinality(A) /\ Facts(k)' = Cardinality(B)
    BY <1>3, <1>7, <2>1 DEF Facts
  <2> QED
    BY <2>2, <2>3, <2>4, CountMore
<1>8. CASE kind = "tap_reflex_fast"
  <2>1. PICK A, B : A = Fast(runs, u, x) /\ B = Fast(runs', u, x)
    OBVIOUS
  <2>2. A \subseteq B /\ B \subseteq Issued'
    BY <1>2, <2>1 DEF Issued, Fast
  <2>3. IsFiniteSet(B)
    BY <1>1, <2>2, FS_Subset
  <2>4. Facts(k) = Cardinality(A) /\ Facts(k)' = Cardinality(B)
    BY <1>3, <1>8, <2>1 DEF Facts, Fast
  <2> QED
    BY <2>2, <2>3, <2>4, CountMore
<1>9. CASE kind = "distinct_flavors"
  <2>1. PICK A, B : A = Found(codes, u, x) /\ B = Found(codes', u, x)
    OBVIOUS
  <2>2. A \subseteq B
    BY <1>1, <2>1 DEF Found
  <2>3. IsFiniteSet(B)
    BY <1>1, <2>1, FoundFinite
  <2>4. Facts(k) = Cardinality(A) /\ Facts(k)' = Cardinality(B)
    BY <1>3, <1>9, <2>1 DEF Facts, Found
  <2> QED
    BY <2>2, <2>3, <2>4, CountMore
<1> QED
  BY <1>4, <1>5, <1>6, <1>7, <1>8, <1>9 DEF Kinds

\* What Progress counts at the moment of a claim is among the facts of the
\* claimed period.
LEMMA ProgressIsFacts ==
  ASSUME IInv, ReferralInv, IsFiniteSet(teams),
         NEW ch \in DOMAIN Catalogue, NEW u, NEW now \in Start..MaxTime, NEW k,
         k = [challenge |-> ch, user |-> u, period |-> PeriodKey(Catalogue[ch].period, now)],
         Evaluable(Catalogue[ch])
  PROVE  /\ Progress(Catalogue[ch], u, now, teams, runs, codes) \in Nat
         /\ Progress(Catalogue[ch], u, now, teams, runs, codes) <= Facts(k)
         /\ Facts(k) \in Nat
<1>1. PICK kind, period : kind = Catalogue[ch].kind /\ period = Catalogue[ch].period
  OBVIOUS
<1>2. k.challenge = ch /\ k.user = u /\ k.period = PeriodKey(period, now)
  BY <1>1
<1>3. kind \in Kinds /\ period \in {"once", "day", "week", "month"}
  BY <1>1, ChallengesAssumption
<1>4. PICK P : P = Progress(Catalogue[ch], u, now, teams, runs, codes)
  OBVIOUS
<1>5. IsFiniteSet(codes) /\ IsFiniteSet(Issued)
  BY DEF IInv, Books, CodeBooks, AuditBooks
<1>6. CASE kind = "team_choice"
  <2>1. PICK A : A = {m \in teams : m.user = u}
    OBVIOUS
  <2>2. IsFiniteSet(A) /\ Cardinality(A) \in Nat /\ (A # {} => Cardinality(A) # 0)
    BY <2>1, FS_Subset, FS_CardinalityType, FS_EmptySet
  <2>3. Facts(k) = Cardinality(A)
    BY <1>1, <1>2, <1>6, <2>1 DEF Facts
  <2>4. P = IF Current(teams, u) # {} THEN 1 ELSE 0
    BY <1>1, <1>4, <1>6 DEF Progress
  <2>5. Current(teams, u) \subseteq A
    BY <2>1 DEF Current
  <2> QED
    BY <1>4, <2>2, <2>3, <2>4, <2>5
<1>7. CASE kind = "daily_checkin"
  <2>1. Facts(k) = 1
    BY <1>1, <1>2, <1>7 DEF Facts
  <2>2. P = 1
    BY <1>1, <1>4, <1>7 DEF Progress
  <2> QED
    BY <1>4, <2>1, <2>2
<1>8. CASE kind = "first_mini_game"
  <2>1. PICK A : A = RunsOf(runs, u, "accepted")
    OBVIOUS
  <2>2. A \subseteq Issued
    BY <2>1 DEF RunsOf, Issued
  <2>3. Facts(k) = Cardinality(A)
    BY <1>1, <1>2, <1>8, <2>1 DEF Facts, RunsOf
  <2>4. P = Cardinality(A)
    BY <1>1, <1>4, <1>8, <2>1 DEF Progress, AcceptedRuns
  <2> QED
    BY <1>4, <1>5, <2>2, <2>3, <2>4, CountMore
<1>9. CASE kind = "tap_reflex_fast"
  <2>1. period \in {"day", "week", "month"}
    BY <1>1, <1>3, <1>9 DEF Evaluable
  <2>2. PICK x \in Int : k.period = <<period, x>> /\ PeriodStart(period, now) = LocalMidnight(x)
    BY <1>2, <2>1, PeriodDate
  <2>3. PICK A, B :
          /\ A = {r \in RunsOf(runs, u, "accepted") :
                    runs[r].quick /\ runs[r].finishedAt >= LocalMidnight(x)}
          /\ B = Fast(runs, u, x)
    OBVIOUS
  <2>4. A \subseteq B
    <3>1. \A r \in RunIds : runs[r].finishedAt \in Int
      BY DEF IInv, Books, RunBooks, Rows
    <3> QED
      BY <2>3, <3>1, MidnightPassed DEF RunsOf, Fast
  <2>5. B \subseteq Issued
    BY <2>3 DEF Fast, Issued
  <2>6. IsFiniteSet(B)
    BY <1>5, <2>5, FS_Subset
  <2>7. k.period[2] = x
    BY <2>2
  <2>8. Facts(k) = Cardinality(B)
    BY <1>1, <1>2, <1>9, <2>3, <2>7 DEF Facts, Fast
  <2>9. P = Cardinality(A)
    BY <1>1, <1>4, <1>9, <2>2, <2>3 DEF Progress, FastRunsSince
  <2> QED
    BY <1>4, <2>4, <2>6, <2>8, <2>9, CountMore
<1>10. CASE kind = "distinct_flavors"
  <2>1. period \in {"day", "week", "month"}
    BY <1>1, <1>3, <1>10 DEF Evaluable
  <2>2. PICK x \in Int : k.period = <<period, x>> /\ PeriodStart(period, now) = LocalMidnight(x)
    BY <1>2, <2>1, PeriodDate
  <2>3. PICK A, B :
          /\ A = {c.flavor : c \in {d \in CodesOf(codes, u) : d.at >= LocalMidnight(x)}}
          /\ B = Found(codes, u, x)
    OBVIOUS
  <2>4. A \subseteq B
    <3>1. \A d \in codes : d.at \in Int
      BY DEF ReferralInv, CodeMoments
    <3> QED
      BY <2>3, <3>1, MidnightPassed DEF CodesOf, Found
  <2>5. IsFiniteSet(B)
    BY <1>5, <2>3, FoundFinite
  <2>6. k.period[2] = x
    BY <2>2
  <2>7. Facts(k) = Cardinality(B)
    BY <1>1, <1>2, <1>10, <2>3, <2>6 DEF Facts, Found
  <2>8. P = Cardinality(A)
    BY <1>1, <1>4, <1>10, <2>2, <2>3 DEF Progress, FlavorsSince
  <2> QED
    BY <1>4, <2>4, <2>5, <2>7, <2>8, CountMore
<1> QED
  BY <1>3, <1>6, <1>7, <1>8, <1>9, <1>10 DEF Kinds

-----------------------------------------------------------------------------
(* Steps                                                                   *)

\* What was earned stays earned, as claims and rows are added.
LEMMA ClaimStays ==
  ASSUME IInv, IInv', [Next]_vars, IsFiniteSet(teams'),
         NEW k, NEW rows, NEW more, rows \subseteq more, ClaimOK(k, rows)
  PROVE  ClaimOK(k, more)'
<1>1. Claimable(k)'
  BY DEF ClaimOK, Claimable
<1>2. Facts(k)' >= Catalogue[k.challenge].target
  <2>1. k.challenge \in DOMAIN Catalogue /\ Facts(k) >= Catalogue[k.challenge].target
    BY DEF ClaimOK, Claimable
  <2>2. Facts(k) \in Nat /\ Facts(k)' \in Nat /\ Facts(k) <= Facts(k)'
    BY <2>1, FactsStay
  <2>3. Catalogue[k.challenge].target \in Nat
    BY <2>1, KindOf
  <2> QED
    BY <2>1, <2>2, <2>3
<1>3. Catalogue[k.challenge].reward > 0 =>
        \E e \in more : e.key = ChallengeKey(k.challenge, k.period, k.user)
  BY DEF ClaimOK
<1> QED
  BY <1>1, <1>2, <1>3 DEF ClaimOK

LEMMA UnlockStays ==
  ASSUME NEW x, NEW done, NEW since, done \subseteq since,
         NEW rows, NEW more, rows \subseteq more, UnlockOK(x, done, rows)
  PROVE  UnlockOK(x, since, more)
BY DEF UnlockOK, Streak

LEMMA GainStays ==
  ASSUME IInv, IInv', [Next]_vars, IsFiniteSet(teams'), NEW p, GainOK(p)
  PROVE  GainOK(p)'
<1>1. claims \subseteq claims'
  BY WritesAreCommits DEF Commit
<1>2. ASSUME NEW k \in p.claims PROVE ClaimOK(k, p.entries)'
  <2>1. ClaimOK(k, p.entries)
    BY DEF GainOK
  <2>2. PICK rows : rows = p.entries
    OBVIOUS
  <2> QED
    BY <2>1, <2>2, ClaimStays
<1>3. ASSUME NEW x \in p.unlocked PROVE UnlockOK(x, claims' \cup p.claims, p.entries)
  <2>1. UnlockOK(x, claims \cup p.claims, p.entries)
    BY DEF GainOK
  <2> QED
    BY <1>1, <2>1, UnlockStays
<1> QED
  BY <1>2, <1>3 DEF GainOK, Timely, UnlockOK, Streak

\* What the tables say stays true when they are left alone.
LEMMA BooksRest ==
  ASSUME IInv, IInv', EarnedInv, [Next]_vars,
         UNCHANGED <<runs, claims, unlocked, teams, referrals, codes, ledger>>,
         profiled' \subseteq Users, clock' \in Start..MaxTime, clock <= clock'
  PROVE  /\ TypeBooks' /\ EarnedBooks'
         /\ \A c : TimeOK(c) /\ c.now \in Nat => TimeOK(c)'
         /\ \A p : GainOK(p) => GainOK(p)'
<1>1. TypeBooks'
  BY DEF EarnedInv, TypeBooks, Timely
<1>2. IsFiniteSet(teams')
  BY DEF EarnedInv, TypeBooks
<1>3. EarnedBooks'
  <2>1. ASSUME NEW k \in claims PROVE ClaimOK(k, ledger)'
    <3>1. ClaimOK(k, ledger)
      BY DEF EarnedInv, EarnedBooks
    <3> QED
      BY <1>2, <3>1, ClaimStays
  <2> QED
    BY <2>1 DEF EarnedInv, EarnedBooks, UnlockOK, Streak
<1>4. \A c : TimeOK(c) /\ c.now \in Nat => TimeOK(c)'
  BY EconomyAssumption DEF TimeOK, EarnedInv, TypeBooks
<1>5. \A p : GainOK(p) => GainOK(p)'
  BY <1>2, GainStays
<1> QED
  BY <1>1, <1>3, <1>4, <1>5

LEMMA MoveGains ==
  ASSUME IInv, IInv', EarnedInv, [Next]_vars, UNCHANGED <<tables, clock>>,
         NEW s \in Calls, NEW x, call' = [call EXCEPT ![s] = x],
         TimeOK(x), x.now \in Nat, x.at = "commit" => GainOK(x.plan)
  PROVE  EarnedInv'
<1>1. call'[s] = x /\ \A z \in Calls \ {s} : call'[z] = call[z]
  BY DEF IInv, CallsOK
<1>2. /\ TypeBooks' /\ EarnedBooks'
      /\ \A c : TimeOK(c) /\ c.now \in Nat => TimeOK(c)'
      /\ \A p : GainOK(p) => GainOK(p)'
  <2>1. clock \in Int /\ clock \in Start..MaxTime /\ profiled \subseteq Users
    BY EconomyAssumption DEF EarnedInv, TypeBooks
  <2> QED
    BY <2>1, BooksRest DEF tables
<1>3. \A z \in Calls : TimeOK(call[z])'
  BY <1>1, <1>2 DEF EarnedInv, IInv, CallsOK, CallOK
<1>4. \A z \in Calls : call'[z].at = "commit" => GainOK(call[z].plan)'
  BY <1>1, <1>2 DEF EarnedInv
<1> QED
  BY <1>2, <1>3, <1>4 DEF EarnedInv

LEMMA RollBackGains ==
  ASSUME IInv, IInv', EarnedInv, [Next]_vars, NEW s \in Calls, RollBack(s)
  PROVE  EarnedInv'
<1>1. PICK x : x = Idle
  OBVIOUS
<1>2. x.at = "idle" /\ x.now = 0 /\ x.now \in Nat
  BY <1>1 DEF Idle
<1>3. TimeOK(x)
  BY <1>2, EconomyAssumption DEF TimeOK, EarnedInv, TypeBooks
<1>4. call' = [call EXCEPT ![s] = x] /\ UNCHANGED <<tables, clock>>
  BY <1>1 DEF RollBack
<1> QED
  BY <1>2, <1>3, <1>4, MoveGains

LEMMA BeginGains ==
  ASSUME IInv, IInv', EarnedInv, [Next]_vars, NEW s \in Calls, NEW i \in Inputs, Begin(s, i)
  PROVE  EarnedInv'
<1>1. PICK x : x = [Idle EXCEPT !.at = IF i.op = "settle" THEN "owed" ELSE "wallet",
                                !.input = i, !.now = clock, !.owner = WalletOf(i)]
  OBVIOUS
<1>2. x.at # "commit" /\ x.now = clock
  BY <1>1 DEF Idle
<1>3. TimeOK(x) /\ x.now \in Nat
  BY <1>2, EconomyAssumption DEF TimeOK, EarnedInv, TypeBooks
<1>4. call' = [call EXCEPT ![s] = x] /\ UNCHANGED <<tables, clock>>
  BY <1>1 DEF Begin
<1> QED
  BY <1>2, <1>3, <1>4, MoveGains

LEMMA LockWalletGains ==
  ASSUME IInv, IInv', EarnedInv, [Next]_vars, NEW s \in Calls, LockWallet(s)
  PROVE  EarnedInv'
<1>1. PICK c : c = call[s]
  OBVIOUS
<1>2. PICK x : x = [c EXCEPT !.at = "decide"]
  OBVIOUS
<1>3. CallOK(c) /\ c.at = "wallet" /\ TimeOK(c) /\ c.now \in Nat
  BY <1>1 DEF IInv, CallsOK, CallOK, LockWallet, EarnedInv
<1>4. x.at = "decide" /\ x.now = c.now
  BY <1>2, <1>3 DEF CallOK
<1>5. TimeOK(x)
  BY <1>3, <1>4 DEF TimeOK
<1>6. call' = [call EXCEPT ![s] = x] /\ UNCHANGED <<tables, clock>>
  BY <1>1, <1>2 DEF LockWallet
<1> QED
  BY <1>3, <1>4, <1>5, <1>6, MoveGains

LEMMA ReadOwedGains ==
  ASSUME IInv, IInv', EarnedInv, [Next]_vars, NEW s \in Calls, ReadOwed(s)
  PROVE  EarnedInv'
<1>1. CASE RollBack(s)
  BY <1>1, RollBackGains
<1>2. CASE ~RollBack(s)
  <2>1. PICK c : c = call[s]
    OBVIOUS
  <2>2. CallOK(c) /\ c.at = "owed" /\ TimeOK(c) /\ c.now \in Nat
    BY <2>1 DEF IInv, CallsOK, CallOK, ReadOwed, EarnedInv
  <2>3. PICK owed, inviter :
          /\ call' = [call EXCEPT ![s].at = "wallet", ![s].owed = owed,
                                  ![s].owner = inviter]
          /\ UNCHANGED <<tables, clock>>
    BY <1>2 DEF ReadOwed
  <2>4. PICK x : x = [c EXCEPT !.at = "wallet", !.owed = owed, !.owner = inviter]
    OBVIOUS
  <2>5. x.at = "wallet" /\ x.now = c.now
    BY <2>2, <2>4 DEF CallOK
  <2>6. TimeOK(x)
    BY <2>2, <2>5 DEF TimeOK
  <2>7. call' = [call EXCEPT ![s] = x]
    BY <2>1, <2>3, <2>4
  <2> QED
    BY <2>2, <2>3, <2>5, <2>6, <2>7, MoveGains
<1> QED
  BY <1>1, <1>2

-----------------------------------------------------------------------------
(* What each operation earns                                               *)

\* A call rolls back, or proposes what was earned.
Gains(s) == RollBack(s) \/ \E p : Propose(s, p) /\ GainOK(p)

LEMMA GainsStep ==
  ASSUME IInv, IInv', EarnedInv, [Next]_vars, NEW s \in Calls, call[s].at = "decide", Gains(s)
  PROVE  EarnedInv'
<1>1. CASE RollBack(s)
  BY <1>1, RollBackGains
<1>2. CASE \E p : Propose(s, p) /\ GainOK(p)
  <2>1. PICK p : Propose(s, p) /\ GainOK(p)
    BY <1>2
  <2>2. PICK c : c = call[s]
    OBVIOUS
  <2>3. CallOK(c) /\ c.at = "decide" /\ TimeOK(c) /\ c.now \in Nat
    BY <2>2 DEF IInv, CallsOK, CallOK, EarnedInv
  <2>4. PICK x : x = [c EXCEPT !.at = "commit", !.plan = p]
    OBVIOUS
  <2>5. x.at = "commit" /\ x.plan = p /\ x.now = c.now
    BY <2>3, <2>4 DEF CallOK
  <2>6. TimeOK(x)
    BY <2>3, <2>5 DEF TimeOK
  <2>7. call' = [call EXCEPT ![s] = x] /\ UNCHANGED <<tables, clock>>
    BY <2>1, <2>2, <2>4 DEF Propose
  <2> QED
    BY <2>1, <2>3, <2>5, <2>6, <2>7, MoveGains
<1> QED
  BY <1>1, <1>2 DEF Gains

\* The moment of a call that decides.
LEMMA NowIs ==
  ASSUME IInv, EarnedInv, NEW s \in Calls, NEW c, c = call[s], c.at # "idle"
  PROVE  c.now \in Start..MaxTime
BY EconomyAssumption DEF IInv, CallsOK, CallOK, EarnedInv, TimeOK, TypeBooks

LEMMA FinishTimely ==
  ASSUME NEW run \in Rows, Timely(run), NEW status, NEW now, now <= MaxTime, NEW attempt
  PROVE  Timely(Finish(run, status, now, attempt))
BY DEF Finish, Rows, Timely

\* Runs, teams and bindings earn nothing.
LEMMA NoGain ==
  ASSUME NEW p, p.entries = {}, p.claims = {}, p.unlocked = {},
         \A r \in DOMAIN p.runs : Timely(p.runs[r])
  PROVE  GainOK(p)
BY DEF GainOK

LEMMA StartRunGains ==
  ASSUME IInv, EarnedInv, NEW s \in Calls, StartRun(s)
  PROVE  Gains(s)
<1>1. PICK c : c = call[s]
  OBVIOUS
<1>2. c.at = "decide"
  BY <1>1 DEF StartRun, Deciding
<1>3. c.now \in Start..MaxTime
  BY <1>1, <1>2, NowIs
<1>4. PICK u, new, old : /\ u = c.input.user /\ old = Replaced(u, c.now)
                         /\ new = CHOOSE r \in FreshRuns : TRUE
  OBVIOUS
<1>5. PICK rows : rows = [r \in {new} \cup DOMAIN old |->
                            IF r = new THEN OpenRun(u, c.now) ELSE old[r]]
  OBVIOUS
<1>6. PICK p : p = [Nothing EXCEPT !.runs = rows]
  OBVIOUS
<1>7. Propose(s, p)
  BY <1>1, <1>4, <1>5, <1>6 DEF StartRun
<1>8. /\ p.entries = {} /\ p.claims = {} /\ p.unlocked = {} /\ p.runs = rows
  BY <1>6 DEF Nothing
<1>9. Timely(OpenRun(u, c.now))
  BY <1>3, EconomyAssumption DEF OpenRun, Unissued, Timely
<1>10. ASSUME NEW r \in DOMAIN old PROVE Timely(old[r])
  <2>1. r \in RunIds /\ old[r] = Finish(runs[r], "expired", c.now, "none")
    BY <1>4 DEF Replaced, RunsOf
  <2>2. runs[r] \in Rows /\ Timely(runs[r])
    BY <2>1 DEF IInv, Books, RunBooks, EarnedInv, TypeBooks
  <2> QED
    BY <1>3, <2>1, <2>2, FinishTimely
<1>11. \A r \in DOMAIN rows : Timely(rows[r])
  BY <1>5, <1>9, <1>10
<1> QED
  BY <1>7, <1>8, <1>11, NoGain DEF Gains

LEMMA FinishRunGains ==
  ASSUME IInv, EarnedInv, NEW s \in Calls, FinishRun(s)
  PROVE  Gains(s)
<1>1. PICK c : c = call[s]
  OBVIOUS
<1>2. c.at = "decide" /\ c.input.op = "finish_run"
  BY <1>1 DEF FinishRun, Deciding
<1>3. c.now \in Start..MaxTime /\ c.input \in Inputs
  BY <1>1, <1>2, NowIs, DecideFacts
<1>4. PICK r : r = c.input.arg /\ r \in RunIds
  BY <1>2, <1>3, EconomyAssumption
<1>5. RollBack(s) \/ \E verdict, flags :
        Propose(s, [Nothing EXCEPT
          !.runs = [z \in {r} |-> Finish(runs[r], verdict, c.now, c.input.note)],
          !.audit = flags])
  <2> DEFINE verdict == Verdict(runs[r], c.input.user, c.input.note, c.now)
             row == [z \in {r} |-> Finish(runs[r], verdict, c.now, c.input.note)]
             rejectedToday == RejectedSince(Written(row), c.input.user, DayStart(c.now))
             flags == IF verdict = "rejected" /\ Abusive(rejectedToday)
                      THEN {[entity |-> "mini_game_run_abuse",
                             user |-> c.input.user, at |-> c.now]}
                      ELSE {}
  <2>1. RollBack(s) \/ Propose(s, [Nothing EXCEPT !.runs = row, !.audit = flags])
    BY <1>1, <1>4, ZenonT(30) DEF FinishRun
  <2> QED
    BY <2>1, ZenonT(30)
<1>6. ASSUME NEW verdict, NEW flags, NEW p,
             p = [Nothing EXCEPT
                    !.runs = [z \in {r} |-> Finish(runs[r], verdict, c.now, c.input.note)],
                    !.audit = flags]
      PROVE  GainOK(p)
  <2>1. /\ p.entries = {} /\ p.claims = {} /\ p.unlocked = {}
        /\ p.runs = [z \in {r} |-> Finish(runs[r], verdict, c.now, c.input.note)]
    BY <1>6 DEF Nothing
  <2>2. runs[r] \in Rows /\ Timely(runs[r])
    BY <1>4 DEF IInv, Books, RunBooks, EarnedInv, TypeBooks
  <2>3. Timely(Finish(runs[r], verdict, c.now, c.input.note))
    BY <1>3, <2>2, FinishTimely
  <2>4. \A z \in DOMAIN p.runs : Timely(p.runs[z])
    BY <2>1, <2>3
  <2> QED
    BY <2>1, <2>4, NoGain
<1> QED
  BY <1>5, <1>6 DEF Gains

LEMMA UnpaidGains ==
  ASSUME NEW s \in Calls, ChangeTeam(s) \/ Bind(s)
  PROVE  Gains(s)
<1>1. ASSUME NEW p, p.runs = <<>>, p.entries = {}, p.claims = {}, p.unlocked = {}
      PROVE  GainOK(p)
  BY <1>1, NoGain
<1>2. CASE ChangeTeam(s)
  <2>1. RollBack(s) \/ \E new : Propose(s, [Nothing EXCEPT !.teams = new])
    BY <1>2, Zenon DEF ChangeTeam
  <2>2. ASSUME NEW new, NEW p, p = [Nothing EXCEPT !.teams = new] PROVE GainOK(p)
    BY <1>1, <2>2 DEF Nothing
  <2> QED
    BY <2>1, <2>2 DEF Gains
<1>3. CASE Bind(s)
  <2>1. RollBack(s) \/ \E new : Propose(s, [Nothing EXCEPT !.referrals = new])
    BY <1>3, Zenon DEF Bind
  <2>2. ASSUME NEW new, NEW p, p = [Nothing EXCEPT !.referrals = new] PROVE GainOK(p)
    BY <1>1, <2>2 DEF Nothing
  <2> QED
    BY <2>1, <2>2 DEF Gains
<1> QED
  BY <1>2, <1>3

\* A code, an adjustment and a settlement pay something.
LEMMA EntriesGain ==
  ASSUME NEW p, p.runs = <<>>, p.claims = {}, p.unlocked = {},
         \A e \in p.entries : e.amount # 0
  PROVE  GainOK(p)
BY DEF GainOK

LEMMA RedeemGains ==
  ASSUME NEW s \in Calls, Redeem(s)
  PROVE  Gains(s)
<1>1. PICK c, u : c = call[s].input.arg /\ u = call[s].input.user
  OBVIOUS
<1>2. RollBack(s) \/ \E rows :
        Propose(s, [Nothing EXCEPT !.codes = rows, !.entries = CodeEntries(c, u)])
  BY <1>1, Zenon DEF Redeem
<1>3. ASSUME NEW rows, NEW p, p = [Nothing EXCEPT !.codes = rows, !.entries = CodeEntries(c, u)]
      PROVE  GainOK(p)
  <2>1. /\ p.runs = <<>> /\ p.claims = {} /\ p.unlocked = {}
        /\ p.entries = CodeEntries(c, u)
    BY <1>3 DEF Nothing
  <2>2. \A e \in CodeEntries(c, u) : e.amount # 0
    BY EconomyAssumption DEF CodeEntries, Entry
  <2> QED
    BY <2>1, <2>2, EntriesGain
<1> QED
  BY <1>2, <1>3 DEF Gains

LEMMA AdjustGains ==
  ASSUME IInv, NEW s \in Calls, Adjust(s)
  PROVE  Gains(s)
<1>1. PICK c : c = call[s]
  OBVIOUS
<1>2. c.at = "decide" /\ c.input.op = "adjust"
  BY <1>1 DEF Adjust, Deciding
<1>3. c.input.arg \in Int \ {0}
  BY <1>1, <1>2, DecideFacts, EconomyAssumption
<1>4. RollBack(s) \/ \E id, u, rows :
        Propose(s, [Nothing EXCEPT
          !.entries = {Entry(AdjustmentKey(id), u, c.input.arg)}, !.audit = rows])
  BY <1>1, Zenon DEF Adjust
<1>5. ASSUME NEW id, NEW u, NEW rows, NEW p,
             p = [Nothing EXCEPT
                    !.entries = {Entry(AdjustmentKey(id), u, c.input.arg)}, !.audit = rows]
      PROVE  GainOK(p)
  <2>1. /\ p.runs = <<>> /\ p.claims = {} /\ p.unlocked = {}
        /\ p.entries = {Entry(AdjustmentKey(id), u, c.input.arg)}
    BY <1>5 DEF Nothing
  <2>2. \A e \in p.entries : e.amount # 0
    BY <1>3, <2>1 DEF Entry
  <2> QED
    BY <2>1, <2>2, EntriesGain
<1> QED
  BY <1>4, <1>5 DEF Gains

LEMMA SettleGains ==
  ASSUME IInv, ReferralInv, NEW s \in Calls, Settle(s)
  PROVE  Gains(s)
<1>1. PICK c : c = call[s]
  OBVIOUS
<1>2. c.at = "decide" /\ c.input.op = "settle" /\ OwedOK(c)
  BY <1>1 DEF Settle, Deciding, ReferralInv, CallRefers
<1>3. PICK entries, first :
        /\ Propose(s, [Nothing EXCEPT !.entries = entries, !.first = first])
        /\ entries = {Entry(q.key, call[s].owner, q.amount) : q \in Unpaid(call[s].owed)}
  BY DEF Settle
<1>4. entries = {Entry(q.key, c.owner, q.amount) : q \in Unpaid(c.owed)}
  BY <1>1, <1>3
<1>5. \A q \in c.owed : q.amount # 0
  BY <1>2, ReferralsAssumption DEF OwedOK, Located, Bonus
<1>6. \A e \in entries : e.amount # 0
  BY <1>4, <1>5 DEF Unpaid, Entry
<1>7. PICK p : p = [Nothing EXCEPT !.entries = entries, !.first = first]
  OBVIOUS
<1>8. p.runs = <<>> /\ p.claims = {} /\ p.unlocked = {} /\ p.entries = entries
  BY <1>7 DEF Nothing
<1> QED
  BY <1>3, <1>6, <1>7, <1>8, EntriesGain DEF Gains

-----------------------------------------------------------------------------
(* What a claim earns                                                      *)

LEMMA ClaimChecks ==
  ASSUME NEW s \in Calls, Claim(s), ~RollBack(s),
         NEW ch, ch = call[s].input.arg, NEW u, u = call[s].input.user,
         NEW now, now = call[s].now
  PROVE  /\ Evaluable(Catalogue[ch])
         /\ Progress(Catalogue[ch], u, now, teams, runs, codes) >= Catalogue[ch].target
<1>1. /\ Evaluable(Catalogue[call[s].input.arg])
      /\ Reached(Progress(Catalogue[call[s].input.arg], call[s].input.user, call[s].now,
                          teams, runs, codes),
                 Catalogue[call[s].input.arg].target)
  BY Zenon DEF Claim
<1>2. /\ Evaluable(Catalogue[ch])
      /\ Reached(Progress(Catalogue[ch], u, now, teams, runs, codes), Catalogue[ch].target)
  BY <1>1, Zenon
<1> QED
  BY <1>2 DEF Reached

\* The days of a player's check-ins, and what they say.
LEMMA CheckinsAre ==
  ASSUME EarnedInv, NEW ch \in DOMAIN Catalogue, NEW u, Catalogue[ch].kind = "daily_checkin",
         NEW d \in CheckinDays(claims, ch, u)
  PROVE  /\ d \in Int /\ d >= LocalDate(Start)
         /\ [challenge |-> ch, user |-> u, period |-> <<"day", d>>] \in claims
<1>1. PICK k \in claims : k.challenge = ch /\ k.user = u /\ d = k.period[2]
  BY DEF CheckinDays
<1>2. Claimable(k)
  BY DEF EarnedInv, EarnedBooks, ClaimOK
<1>3. Catalogue[ch].period = "day"
  BY <1>1, <1>2 DEF Claimable, Evaluable
<1>4. PICK t \in Start..MaxTime : k.period = PeriodKey("day", t)
  BY <1>1, <1>2, <1>3 DEF Claimable
<1>5. k.period = <<"day", LocalDate(t)>> /\ d = LocalDate(t)
  BY <1>1, <1>4 DEF PeriodKey, DayKey
<1>6. t \in Int /\ Start \in Int /\ Start <= t
  BY EconomyAssumption
<1>7. d \in Int /\ d >= LocalDate(Start)
  BY <1>5, <1>6, DateType, DatesGrow
<1>8. k = [challenge |-> ch, user |-> u, period |-> <<"day", d>>]
  BY <1>1, <1>2, <1>5 DEF Claimable
<1> QED
  BY <1>7, <1>8

\* An achievement that a check-in unlocks.
LEMMA UnlockIsEarned ==
  ASSUME IInv, EarnedInv, NEW ch \in DOMAIN Catalogue, NEW u \in Users, NEW now \in Start..MaxTime,
         NEW row, row = [challenge |-> ch, user |-> u,
                         period |-> PeriodKey(Catalogue[ch].period, now)],
         Evaluable(Catalogue[ch]), NEW a \in NewUnlocks(ch, u, now)
  PROVE  a \in DOMAIN Achievements /\ Streak(u, Achievements[a].threshold, claims \cup {row})
<1>1. PICK today, days : /\ today = LocalDate(now)
                         /\ days = CheckinDays(claims, ch, u) \cup {today}
  OBVIOUS
<1>2. Catalogue[ch].kind = "daily_checkin"
  BY DEF NewUnlocks
<1>3. a \in DOMAIN Achievements /\ CurrentStreak(days, today) >= Achievements[a].threshold
  BY <1>1, <1>2 DEF NewUnlocks, Unlocks
<1>4. Achievements[a].threshold \in Nat
  BY <1>3, ChallengesAssumption
<1>5. row = [challenge |-> ch, user |-> u, period |-> <<"day", today>>]
  <2>1. Catalogue[ch].period = "day"
    BY <1>2 DEF Evaluable
  <2>2. PeriodKey("day", now) = <<"day", today>>
    BY <1>1 DEF PeriodKey, DayKey
  <2> QED
    BY <2>1, <2>2
<1>6. /\ today \in LocalDate(Start)..LocalDate(MaxTime)
      /\ today \in Int /\ LocalDate(Start) \in Int /\ today >= LocalDate(Start)
  <2>1. now \in Int /\ Start \in Int /\ MaxTime \in Int /\ Start <= now /\ now <= MaxTime
    BY EconomyAssumption
  <2> QED
    BY <1>1, <2>1, DateType, DatesGrow
<1>7. days \subseteq Int /\ \A d \in days : d >= LocalDate(Start)
  BY <1>1, <1>2, <1>6, CheckinsAre
<1>8. \A i \in 0..(Achievements[a].threshold - 1) : today - i \in days
  BY <1>1, <1>3, <1>4, <1>6, <1>7, StreakHeld
<1>9. ASSUME NEW i \in 0..(Achievements[a].threshold - 1)
      PROVE  [challenge |-> ch, user |-> u, period |-> <<"day", today - i>>] \in claims \cup {row}
  <2>1. CASE today - i = today
    BY <1>5, <2>1
  <2>2. CASE today - i # today
    <3>1. today - i \in CheckinDays(claims, ch, u)
      BY <1>1, <1>8, <2>2
    <3> QED
      BY <1>2, <3>1, CheckinsAre
  <2> QED
    BY <2>1, <2>2
<1>10. Streak(u, Achievements[a].threshold, claims \cup {row})
  BY <1>2, <1>6, <1>9 DEF Streak
<1> QED
  BY <1>3, <1>10

LEMMA ClaimGains ==
  ASSUME IInv, ReferralInv, EarnedInv, NEW s \in Calls, Claim(s)
  PROVE  Gains(s)
<1>1. PICK c : c = call[s]
  OBVIOUS
<1>2. c.at = "decide" /\ c.input.op = "claim"
  BY <1>1 DEF Claim, Deciding
<1>3. c.owner \in Users /\ c.owner = c.input.user /\ c.input \in Inputs
  BY <1>1, <1>2, DecideFacts DEF CallOK, Located
<1>4. c.now \in Start..MaxTime
  BY <1>1, <1>2, NowIs
<1>5. PICK ch, u, now, period, ids :
        /\ ch = c.input.arg /\ u = c.input.user /\ now = c.now
        /\ period = PeriodKey(Catalogue[ch].period, now) /\ ids = NewUnlocks(ch, u, now)
  OBVIOUS
<1>6. ch \in DOMAIN Catalogue /\ u \in Users /\ now \in Start..MaxTime
  BY <1>2, <1>3, <1>4, <1>5, EconomyAssumption
<1>7. SUFFICES ASSUME ~RollBack(s) PROVE Gains(s)
  BY DEF Gains
<1>8. PICK k, p : /\ k = [challenge |-> ch, user |-> u, period |-> period]
                  /\ p = Claimed(ch, u, period, ids)
  OBVIOUS
<1>9. /\ ch = call[s].input.arg /\ u = call[s].input.user /\ now = call[s].now
      /\ period = PeriodKey(Catalogue[ch].period, call[s].now)
      /\ ids = NewUnlocks(ch, u, call[s].now)
  BY <1>1, <1>5
<1>10. Propose(s, p)
  <2>1. Propose(s, Claimed(ch, u, period, ids))
    BY <1>7, <1>9, ClaimPlan
  <2> QED
    BY <1>8, <2>1
<1>11. /\ Evaluable(Catalogue[ch])
       /\ Progress(Catalogue[ch], u, now, teams, runs, codes) >= Catalogue[ch].target
  BY <1>7, <1>9, ClaimChecks
<1>12. /\ p.runs = <<>> /\ p.claims = {k} /\ p.unlocked = {[id |-> a, user |-> u] : a \in ids}
       /\ p.entries = ClaimEntries(ch, period, u) \cup UnlockEntries(ids, u)
  BY <1>8 DEF Claimed, Nothing
<1>13. ClaimOK(k, p.entries)
  <2>1. k.challenge = ch /\ k.user = u /\ k.period = period
    BY <1>8
  <2>2. Claimable(k)
    BY <1>5, <1>6, <1>8, <1>11, <2>1 DEF Claimable
  <2>3. Facts(k) >= Catalogue[ch].target
    <3>1. IsFiniteSet(teams)
      BY DEF EarnedInv, TypeBooks
    <3>2. PICK P : P = Progress(Catalogue[ch], u, now, teams, runs, codes)
      OBVIOUS
    <3>3. P \in Nat /\ P <= Facts(k) /\ Facts(k) \in Nat
      BY <1>5, <1>6, <1>8, <1>11, <3>1, <3>2, ProgressIsFacts
    <3>4. Catalogue[ch].target \in Nat
      BY <1>6, ChallengesAssumption
    <3> QED
      BY <1>11, <3>2, <3>3, <3>4
  <2>4. Catalogue[ch].reward > 0 =>
          \E e \in p.entries : e.key = ChallengeKey(ch, period, u)
    <3>1. PICK e : e = Entry(ChallengeKey(ch, period, u), u, Catalogue[ch].reward)
      OBVIOUS
    <3>2. e.key = ChallengeKey(ch, period, u)
      BY <3>1 DEF Entry
    <3>3. Catalogue[ch].reward > 0 => e \in p.entries
      BY <1>12, <3>1 DEF ClaimEntries
    <3> QED
      BY <3>2, <3>3
  <2> QED
    BY <2>1, <2>2, <2>3, <2>4 DEF ClaimOK
<1>14. ASSUME NEW a \in ids
       PROVE  UnlockOK([id |-> a, user |-> u], claims \cup p.claims, p.entries)
  <2>1. a \in DOMAIN Achievements /\ Streak(u, Achievements[a].threshold, claims \cup {k})
    BY <1>5, <1>6, <1>8, <1>11, UnlockIsEarned
  <2>2. Achievements[a].reward > 0 => \E e \in p.entries : e.key = AchievementKey(a, u)
    <3>1. PICK e : e = Entry(AchievementKey(a, u), u, Achievements[a].reward)
      OBVIOUS
    <3>2. e.key = AchievementKey(a, u)
      BY <3>1 DEF Entry
    <3>3. Achievements[a].reward > 0 => e \in p.entries
      BY <1>12, <3>1 DEF UnlockEntries
    <3> QED
      BY <3>2, <3>3
  <2> QED
    BY <1>6, <1>12, <2>1, <2>2 DEF UnlockOK
<1>15. \A e \in p.entries : e.amount # 0
  <2>1. \A a \in ids : a \in DOMAIN Achievements
    BY <1>5 DEF NewUnlocks, Unlocks
  <2> QED
    BY <1>6, <1>12, <2>1, ChallengesAssumption DEF ClaimEntries, UnlockEntries, Entry
<1>16. \A x \in p.unlocked : UnlockOK(x, claims \cup p.claims, p.entries)
  BY <1>12, <1>14, Zenon
<1>17. /\ \A r \in DOMAIN p.runs : Timely(p.runs[r])
       /\ \A q \in p.claims : ClaimOK(q, p.entries)
  BY <1>12, <1>13
<1>18. GainOK(p)
  BY <1>15, <1>16, <1>17 DEF GainOK
<1> QED
  BY <1>10, <1>18 DEF Gains

-----------------------------------------------------------------------------
(* Committing what was earned                                              *)

LEMMA CommitGains ==
  ASSUME IInv, IInv', ReferralInv, WalletInv, EarnedInv, [Next]_vars, NEW s \in Calls, Commit(s)
  PROVE  EarnedInv'
<1>1. PICK c : c = call[s]
  OBVIOUS
<1>2. PICK p, u : p = c.plan /\ u = c.owner
  OBVIOUS
<1>3. /\ c.at = "commit" /\ u \in Users /\ PlanOK(p, u, c.input) /\ MoneyOK(p, u) /\ GainOK(p)
  BY <1>1, <1>2, CommitFacts DEF WalletInv, EarnedInv
<1>4. /\ runs' = Written(p.runs) /\ claims' = claims \cup p.claims
      /\ unlocked' = unlocked \cup p.unlocked /\ teams' = teams \cup p.teams
      /\ referrals' = referrals \cup p.referrals /\ ledger' = ledger \cup p.entries
      /\ profiled' = profiled /\ clock' = clock
      /\ call' = [call EXCEPT ![s] = Idle]
  BY <1>1, <1>2 DEF Commit
<1>5. call'[s] = Idle /\ \A z \in Calls \ {s} : call'[z] = call[z]
  BY <1>4 DEF IInv, CallsOK
<1>6. IsFiniteSet(teams')
  <2>1. IsFiniteSet(p.teams)
    <3>1. CASE p.teams = {}
      BY <3>1, FS_EmptySet
    <3>2. CASE p.teams # {}
      <4>1. PICK m \in p.teams : \A n \in p.teams : m = n
        BY <1>3, <3>2 DEF PlanOK, TeamsOK
      <4>2. p.teams = {m}
        BY <4>1
      <4> QED
        BY <4>2, FS_Singleton
    <3> QED
      BY <3>1, <3>2
  <2> QED
    BY <1>4, <2>1, FS_Union DEF EarnedInv, TypeBooks
<1>7. TypeBooks'
  <2>1. \A r \in RunIds : /\ Timely(runs'[r])
                          /\ runs'[r].status # "none" => runs'[r].user \in Users
    <3>1. \A r \in RunIds : runs'[r] = IF r \in DOMAIN p.runs THEN p.runs[r] ELSE runs[r]
      BY <1>4 DEF Written
    <3> QED
      BY <1>3, <3>1 DEF GainOK, PlanOK, RunsOK, EarnedInv, TypeBooks
  <2>2. \A b \in referrals' : b.invitee \in Users
    BY <1>3, <1>4 DEF PlanOK, RowsOK, EarnedInv, TypeBooks
  <2>3. \A e \in ledger' : e.user \in Users /\ e.amount # 0
    BY <1>3, <1>4 DEF MoneyOK, GainOK, EarnedInv, TypeBooks
  <2> QED
    BY <1>4, <1>6, <2>1, <2>2, <2>3 DEF EarnedInv, TypeBooks, Timely
<1>8. ASSUME NEW k \in claims' PROVE ClaimOK(k, ledger)'
  <2>1. PICK rows, paid, more : rows = ledger /\ paid = p.entries /\ more = ledger'
    OBVIOUS
  <2>2. rows \subseteq more /\ paid \subseteq more
    BY <1>4, <2>1
  <2>3. CASE k \in claims
    <3>1. ClaimOK(k, rows)
      BY <2>1, <2>3 DEF EarnedInv, EarnedBooks
    <3>2. ClaimOK(k, more)'
      BY <1>6, <2>2, <3>1, ClaimStays
    <3> QED
      BY <2>1, <3>2
  <2>4. CASE k \in p.claims
    <3>1. ClaimOK(k, paid)
      BY <1>3, <2>1, <2>4 DEF GainOK
    <3>2. ClaimOK(k, more)'
      BY <1>6, <2>2, <3>1, ClaimStays
    <3> QED
      BY <2>1, <3>2
  <2> QED
    BY <1>4, <2>3, <2>4
<1>9. ASSUME NEW x \in unlocked' PROVE UnlockOK(x, claims', ledger')
  <2>1. CASE x \in unlocked
    <3>1. UnlockOK(x, claims, ledger)
      BY <2>1 DEF EarnedInv, EarnedBooks
    <3> QED
      BY <1>4, <3>1, UnlockStays
  <2>2. CASE x \in p.unlocked
    <3>1. UnlockOK(x, claims \cup p.claims, p.entries)
      BY <1>3, <2>2 DEF GainOK
    <3> QED
      BY <1>4, <3>1, UnlockStays
  <2> QED
    BY <1>4, <2>1, <2>2
<1>10. EarnedBooks'
  BY <1>8, <1>9 DEF EarnedBooks, UnlockOK, Streak
<1>11. \A z \in Calls : TimeOK(call[z])'
  <2>1. \A d : TimeOK(d) => TimeOK(d)'
    BY <1>4 DEF TimeOK
  <2>2. TimeOK(Idle)'
    BY <1>4, EconomyAssumption DEF TimeOK, Idle, EarnedInv, TypeBooks
  <2> QED
    BY <1>5, <2>1, <2>2 DEF EarnedInv
<1>12. \A z \in Calls : (call[z].at = "commit" => GainOK(call[z].plan))'
  <2>1. \A q : GainOK(q) => GainOK(q)'
    BY <1>6, GainStays
  <2>2. \A z \in Calls : call'[z].at = "commit" => call[z].at = "commit" /\ call'[z] = call[z]
    BY <1>5 DEF Idle
  <2> QED
    BY <2>1, <2>2 DEF EarnedInv
<1> QED
  BY <1>7, <1>10, <1>11, <1>12 DEF EarnedInv

LEMMA OutsideGains ==
  ASSUME IInv, IInv', EarnedInv, (\E u \in Users : UpdateProfile(u)) \/ Tick \/ UNCHANGED vars
  PROVE  EarnedInv'
<1>1. /\ UNCHANGED <<runs, claims, unlocked, teams, referrals, codes, ledger, call>>
      /\ profiled' \subseteq Users /\ clock' \in Start..MaxTime /\ clock <= clock'
  <2>1. clock \in Int /\ clock \in Start..MaxTime /\ profiled \subseteq Users
    BY EconomyAssumption DEF EarnedInv, TypeBooks
  <2>2. CASE \E u \in Users : UpdateProfile(u)
    BY <2>1, <2>2 DEF UpdateProfile
  <2>3. CASE Tick
    BY <2>1, <2>3, EconomyAssumption DEF Tick, tables
  <2>4. CASE UNCHANGED vars
    BY <2>1, <2>4 DEF vars
  <2> QED
    BY <2>2, <2>3, <2>4
<1>2. [Next]_vars
  BY DEF Next
<1>3. /\ TypeBooks' /\ EarnedBooks'
      /\ \A c : TimeOK(c) /\ c.now \in Nat => TimeOK(c)'
      /\ \A p : GainOK(p) => GainOK(p)'
  BY <1>1, <1>2, BooksRest
<1>4. \A z \in Calls : TimeOK(call[z])'
  BY <1>1, <1>3 DEF EarnedInv, IInv, CallsOK, CallOK
<1>5. \A z \in Calls : (call[z].at = "commit" => GainOK(call[z].plan))'
  BY <1>1, <1>3 DEF EarnedInv
<1> QED
  BY <1>3, <1>4, <1>5 DEF EarnedInv

LEMMA StepEarnedInv ==
  ASSUME IInv, IInv', ReferralInv, WalletInv, EarnedInv, [Next]_vars
  PROVE  EarnedInv'
<1>1. ASSUME NEW s \in Calls, Handle(s)
      PROVE  EarnedInv'
  <2>1. CASE \E i \in Inputs : Begin(s, i)
    BY <2>1, BeginGains
  <2>2. CASE LockWallet(s) \/ ReadOwed(s)
    BY <2>2, LockWalletGains, ReadOwedGains
  <2>3. CASE Commit(s)
    BY <2>3, CommitGains
  <2>4. CASE Abort(s)
    BY <2>4, RollBackGains DEF Abort
  <2>5. CASE \/ StartRun(s) \/ FinishRun(s) \/ Claim(s) \/ ChangeTeam(s) \/ Redeem(s)
             \/ Adjust(s) \/ Bind(s) \/ Settle(s)
    <3>1. call[s].at = "decide"
      BY <2>5, OperationsDecide DEF Decides
    <3>2. Gains(s)
      BY <2>5, StartRunGains, FinishRunGains, ClaimGains, UnpaidGains, RedeemGains,
         AdjustGains, SettleGains
    <3> QED
      BY <3>1, <3>2, GainsStep
  <2> QED
    BY <1>1, <2>1, <2>2, <2>3, <2>4, <2>5 DEF Handle
<1>2. CASE (\E u \in Users : UpdateProfile(u)) \/ Tick \/ UNCHANGED vars
  BY <1>2, OutsideGains
<1> QED
  BY <1>1, <1>2 DEF Next

LEMMA InitEarnedInv == Init => EarnedInv
<1> SUFFICES ASSUME Init PROVE EarnedInv
  OBVIOUS
<1>1. TypeBooks
  BY EconomyAssumption, FS_EmptySet DEF Init, TypeBooks, Unissued, Timely
<1>2. EarnedBooks
  BY DEF Init, EarnedBooks
<1>3. \A s \in Calls : call[s] = Idle
  BY DEF Init
<1>4. \A s \in Calls : TimeOK(call[s]) /\ call[s].at # "commit"
  BY <1>3, EconomyAssumption DEF Init, TimeOK, Idle
<1> QED
  BY <1>1, <1>2, <1>4 DEF EarnedInv

LEMMA AlwaysEarnedInv == Spec => [](IInv /\ ReferralInv /\ WalletInv /\ EarnedInv)
<1>1. /\ Init => IInv /\ ReferralInv /\ WalletInv /\ EarnedInv
      /\ IInv /\ ReferralInv /\ WalletInv /\ EarnedInv /\ [Next]_vars
           => IInv' /\ ReferralInv' /\ WalletInv' /\ EarnedInv'
  BY InitIInv, InitReferralInv, InitWallet, InitEarnedInv,
     StepIInv, StepReferralInv, StepWallet, StepEarnedInv
<1> QED
  BY <1>1, PTL DEF Spec

-----------------------------------------------------------------------------
(* The theorems                                                            *)

\* What a player was paid for was done, and what was done was paid once, for
\* any catalogue, any calendar and any calls that run at once: a claim rests
\* on facts that stay, and a streak on check-ins that were claimed.
THEOREM RewardsEarned == Spec => []RewardsAreEarned
<1>1. IInv /\ EarnedInv => ClaimsAreBacked
  BY DEF EarnedInv, EarnedBooks, ClaimOK, ClaimsAreBacked, Recorded
<1>2. IInv /\ EarnedInv => AchievementsAreEarned
  <2> SUFFICES ASSUME IInv, EarnedInv, NEW u \in Users, NEW a \in DOMAIN Achievements,
                      NEW x, x = [id |-> a, user |-> u]
               PROVE  /\ x \in unlocked => Streak(u, Achievements[a].threshold, claims)
                      /\ Achievements[a].reward > 0 =>
                           (x \in unlocked <=> Recorded(AchievementKey(a, u)))
    BY DEF AchievementsAreEarned, Streak
  <2>1. x.id = a /\ x.user = u
    OBVIOUS
  <2>2. x \in unlocked => UnlockOK(x, claims, ledger)
    BY DEF EarnedInv, EarnedBooks
  <2>3. Recorded(AchievementKey(a, u)) => x \in unlocked
    BY DEF IInv, Books, LedgerBooks
  <2> QED
    BY <2>1, <2>2, <2>3 DEF UnlockOK, Recorded
<1> QED
  BY <1>1, <1>2, AlwaysEarnedInv, PTL DEF RewardsAreEarned

\* Every table holds rows of its type, no wallet is negative and no call read
\* a moment that has not come, for every length of the clock.
THEOREM TypesStand == Spec => []TypeOK
<1>1. IInv /\ ReferralInv /\ WalletInv /\ EarnedInv => TypeOK
  <2> SUFFICES ASSUME IInv, ReferralInv, WalletInv, EarnedInv PROVE TypeOK
    OBVIOUS
  <2>1. runs \in [RunIds -> RunRows]
    <3>1. runs \in [RunIds -> Rows]
      BY DEF IInv, Books, RunBooks
    <3>2. ASSUME NEW r \in RunIds PROVE runs[r] \in RunRows
      BY <3>1, EconomyAssumption DEF EarnedInv, TypeBooks, Timely, Rows, RunRows
    <3> QED
      BY <3>1, <3>2
  <2>2. \A r \in RunIds : runs[r].user = Nobody <=> runs[r].status = "none"
    BY EconomyAssumption DEF IInv, Books, RunBooks, Unissued, EarnedInv, TypeBooks
  <2>3. claims \subseteq [challenge : DOMAIN Catalogue, user : Users,
                          period : {OnceKey} \cup ({"day", "week", "month"} \X Int)]
    <3> SUFFICES ASSUME NEW k \in claims
                 PROVE  k \in [challenge : DOMAIN Catalogue, user : Users,
                               period : {OnceKey} \cup ({"day", "week", "month"} \X Int)]
      OBVIOUS
    <3>1. Claimable(k)
      BY DEF EarnedInv, EarnedBooks, ClaimOK
    <3>2. PICK t \in Start..MaxTime : k.period = PeriodKey(Catalogue[k.challenge].period, t)
      BY <3>1 DEF Claimable
    <3>3. Catalogue[k.challenge].period \in {"once", "day", "week", "month"}
      BY <3>1, KindOf DEF Claimable
    <3>4. k.period \in {OnceKey} \cup ({"day", "week", "month"} \X Int)
      <4>1. CASE Catalogue[k.challenge].period = "once"
        BY <3>2, <4>1 DEF PeriodKey
      <4>2. CASE Catalogue[k.challenge].period \in {"day", "week", "month"}
        BY <3>2, <4>2, PeriodDate
      <4> QED
        BY <3>3, <4>1, <4>2
    <3> QED
      BY <3>1, <3>4 DEF Claimable
  <2>4. unlocked \subseteq [id : DOMAIN Achievements, user : Users]
    BY DEF EarnedInv, EarnedBooks, UnlockOK
  <2>5. referrals \subseteq [invitee : Users, inviter : Users]
    BY DEF ReferralInv, IInv, Books, ReferralBooks, EarnedInv, TypeBooks
  <2>6. /\ profiled \subseteq Users /\ clock \in Start..MaxTime
        /\ \A e \in ledger : e.user \in Users /\ e.amount \in Int \ {0}
        /\ balance \in [Users -> Nat]
    BY DEF EarnedInv, TypeBooks, WalletInv, Settled
  <2>7. \A s \in Calls : /\ call[s].at \in {"idle", "owed", "wallet", "decide", "commit"}
                          /\ call[s].now \in 0..clock
                          /\ HoldsWallet(s) => call[s].owner \in Users
    <3> SUFFICES ASSUME NEW s \in Calls, NEW c, c = call[s]
                 PROVE  /\ c.at \in {"idle", "owed", "wallet", "decide", "commit"}
                        /\ c.now \in 0..clock
                        /\ c.at \in {"decide", "commit"} => c.owner \in Users
      BY DEF HoldsWallet
    <3>1. CallOK(c) /\ TimeOK(c) /\ clock \in Int
      BY EconomyAssumption DEF IInv, CallsOK, EarnedInv, TypeBooks
    <3> QED
      BY <3>1 DEF CallOK, Located, TimeOK
  <2> QED
    BY <2>1, <2>2, <2>3, <2>4, <2>5, <2>6, <2>7 DEF TypeOK
<1> QED
  BY <1>1, AlwaysEarnedInv, PTL
=============================================================================
