-------------------------- MODULE RedemptionProofs --------------------------
(***************************************************************************)
(* Theorems about Redemption, for every set of users, codes and requests,  *)
(* every setting and every length of the clock.                            *)
(***************************************************************************)
EXTENDS Redemption, SumProofs

-----------------------------------------------------------------------------
(* The inductive invariant                                                 *)

\* What the program counter says about the request's local variables.
RequestShape ==
  \A r \in Requests :
    /\ pc[r] # "done" => user[r] \in Users /\ code[r] \in Codes \cup Forged
    /\ pc[r] = "row" => code[r] \in Codes
    /\ HoldsRow(r) => code[r] \in Codes /\ redeemedBy[code[r]] = NoUser

\* The row locks: one transaction per wallet, one uncommitted claim per code.
WalletMutex ==
  \A r, s \in Requests :
    r # s /\ HoldsWallet(r) /\ HoldsWallet(s) => user[r] # user[s]

RowMutex ==
  \A r, s \in Requests :
    r # s /\ HoldsRow(r) /\ HoldsRow(s) => code[r] # code[s]

LockInv == TypeOK /\ RequestShape /\ WalletMutex /\ RowMutex

LEMMA TimesType == Times \subseteq Nat /\ 0 \in Times
  BY SettingsAssumption DEF Times

LEMMA BonusAmountType ==
  ASSUME TypeOK
  PROVE  BonusAmount \in Nat
  BY SettingsAssumption, RulesAssumption DEF TypeOK, BonusAmount

LEMMA CoinsType == \A c \in Codes : CoinsFor(c) \in Nat
  BY CatalogueAssumption DEF CoinsFor

\* The initial state satisfies the types and holds no locks.
LEMMA InitLocks == Init => LockInv
<1> SUFFICES ASSUME Init PROVE LockInv
  OBVIOUS
<1>1. TypeOK
  BY TimesType, CatalogueAssumption
     DEF Init, TypeOK, NoPay, Statuses, Labels, Replies
<1>2. RequestShape /\ WalletMutex /\ RowMutex
  BY DEF Init, RequestShape, WalletMutex, RowMutex, HoldsRow, HoldsWallet
<1> QED
  BY <1>1, <1>2 DEF LockInv

-----------------------------------------------------------------------------
(* Steps that leave the tables alone                                       *)

\* Answering keeps the types and releases the locks.
LEMMA AnswerLocks ==
  ASSUME LockInv, NEW r \in Requests, NEW a \in Replies,
         Answer(r, a), UNCHANGED tables
  PROVE  LockInv'
<1> USE DEF LockInv
<1>1. TypeOK'
  BY TimesType DEF TypeOK, Answer, tables, NoPay, Labels, Replies
<1>2. RequestShape' /\ WalletMutex' /\ RowMutex'
  BY DEF TypeOK, RequestShape, WalletMutex, RowMutex, Answer, tables,
         HoldsRow, HoldsWallet
<1> QED
  BY <1>1, <1>2

\* So does moving on to a label that holds no lock the request did not hold.
LEMMA GotoLocks ==
  ASSUME LockInv, NEW r \in Requests, NEW label \in Labels,
         pc[r] # "done", Goto(r, label), UNCHANGED tables,
         label = "row" => code[r] \in Codes,
         label \in {"claim", "row", "resolve", "apply", "commit"} =>
           HoldsWallet(r) \/ WalletFree(user[r]),
         label \in {"apply", "commit"} =>
           /\ code[r] \in Codes
           /\ redeemedBy[code[r]] = NoUser
           /\ HoldsRow(r) \/ RowFree(code[r])
  PROVE  LockInv'
<1> USE DEF LockInv
<1>1. TypeOK'
  BY DEF TypeOK, Goto, tables
<1>2. RequestShape'
  BY DEF TypeOK, RequestShape, Goto, tables, HoldsRow
<1>3. WalletMutex'
  BY DEF TypeOK, WalletMutex, WalletFree, Goto, HoldsWallet, Labels
<1>4. RowMutex'
  BY DEF TypeOK, RowMutex, RowFree, Goto, HoldsRow, Labels
<1> QED
  BY <1>1, <1>2, <1>3, <1>4

-----------------------------------------------------------------------------
(* The lock invariant is inductive                                         *)

LEMMA StartLocks ==
  ASSUME LockInv, NEW r \in Requests, NEW u \in Users,
         NEW c \in Codes \cup Forged, Start(r, u, c)
  PROVE  LockInv'
<1> USE DEF LockInv
<1>1. TypeOK'
  BY CatalogueAssumption DEF TypeOK, Start, tables, Labels, Replies
<1>2. RequestShape'
  BY DEF TypeOK, RequestShape, Start, tables, HoldsRow
<1>3. WalletMutex' /\ RowMutex'
  BY DEF TypeOK, WalletMutex, RowMutex, Start, HoldsWallet, HoldsRow
<1> QED
  BY <1>1, <1>2, <1>3

LEMMA ApplyLocks ==
  ASSUME LockInv, NEW r \in Requests, Apply(r)
  PROVE  LockInv'
<1> USE DEF LockInv
<1>1. CASE Answer(r, "daily_limit")
  BY <1>1, AnswerLocks DEF Apply, Replies
<1>2. CASE pc' = [pc EXCEPT ![r] = "commit"] /\ ~Answer(r, "daily_limit")
  <2>1. BonusDue(r) \in Nat
    BY BonusAmountType DEF BonusDue
  <2>2. TypeOK'
    <3>1. [bonus |-> BonusDue(r),
           unlocks |-> Cardinality(FlavorCodes(r)) = UnlockThreshold]
            \in [bonus : Nat, unlocks : BOOLEAN]
      BY <2>1
    <3>2. pay' \in [Requests -> [bonus : Nat, unlocks : BOOLEAN]]
      BY <1>2, <3>1 DEF Apply, TypeOK
    <3> QED
      BY <1>2, <3>2 DEF Apply, TypeOK, tables, Labels
  <2>3. RequestShape'
    BY <1>2 DEF Apply, TypeOK, RequestShape, tables, HoldsRow
  <2>4. WalletMutex'
    BY <1>2 DEF Apply, TypeOK, WalletMutex, HoldsWallet
  <2>5. RowMutex'
    BY <1>2 DEF Apply, TypeOK, RowMutex, HoldsRow
  <2> QED
    BY <2>2, <2>3, <2>4, <2>5
<1> QED
  BY <1>1, <1>2 DEF Apply

\* The rows a transaction inserts are well typed.
LEMMA NewEntriesType ==
  ASSUME LockInv, NEW r \in Requests, pc[r] = "commit"
  PROVE  NewEntries(r) \subseteq [key : Keys, user : Users, amount : Nat \ {0}]
<1>1. user[r] \in Users /\ code[r] \in Codes
  BY DEF LockInv, RequestShape, HoldsRow
<1>2. CoinsFor(code[r]) \in Nat /\ pay[r].bonus \in Nat
  BY <1>1, CoinsType DEF LockInv, TypeOK
<1>3. RedemptionKey(code[r]) \in Keys /\ FirstCodeKey(user[r]) \in Keys
  BY <1>1 DEF RedemptionKey, FirstCodeKey, Keys
<1> QED
  BY <1>1, <1>2, <1>3 DEF NewEntries, Entry

LEMMA CommitLocks ==
  ASSUME LockInv, NEW r \in Requests, Commit(r)
  PROVE  LockInv'
<1> USE DEF LockInv
<1>1. PICK a \in {"redeemed", "error"} : Answer(r, a)
  BY DEF Commit
<1>2. user[r] \in Users /\ code[r] \in Codes
  BY DEF Commit, RequestShape, HoldsRow
<1>3. CoinsFor(code[r]) \in Nat /\ pay[r].bonus \in Nat
  BY <1>2, CoinsType DEF TypeOK
<1>4. CityOf[code[r]] \in Cities
  BY <1>2, CatalogueAssumption
<1>5. TypeOK'
  <2>1. /\ redeemedBy' \in [Codes -> Users \cup {NoUser}]
        /\ redeemedAt' \in [Codes -> Times]
        /\ status' \in [Batches -> Statuses]
        /\ rule' \in Rules \cup {NoRule}
        /\ failures' \in [Users -> [Times -> Nat]]
        /\ clock' \in Times
    BY <1>2 DEF Commit, TypeOK
  <2>2. entries' \in [Users -> [Cities -> Nat]]
    BY <1>2, <1>4 DEF Commit, TypeOK
  <2>3. balance' \in [Users -> Nat]
    BY <1>2, <1>3 DEF Commit, TypeOK
  <2>4. announced' \in [Users -> [Cities -> Nat]]
    BY <1>2, <1>4 DEF Commit, TypeOK
  <2>5. ledger' \subseteq [key : Keys, user : Users, amount : Nat \ {0}]
    BY NewEntriesType DEF Commit, TypeOK
  <2>6. /\ pc' \in [Requests -> Labels]
        /\ user' \in [Requests -> Users \cup {NoUser}]
        /\ code' \in [Requests -> Codes \cup Forged \cup {NoCode}]
        /\ now' \in [Requests -> Times]
        /\ pay' \in [Requests -> [bonus : Nat, unlocks : BOOLEAN]]
        /\ reply' \in [Requests -> Replies]
        /\ seen' \in [Requests -> Statuses \cup {"none"}]
    BY <1>1, TimesType DEF TypeOK, Answer, NoPay, Labels, Replies
  <2> QED
    BY <2>1, <2>2, <2>3, <2>4, <2>5, <2>6 DEF TypeOK
<1>6. RequestShape'
  \* Another request that holds a code row holds another one than r's.
  <2> SUFFICES ASSUME NEW s \in Requests
               PROVE  /\ pc'[s] # "done" => /\ user'[s] \in Users
                                            /\ code'[s] \in Codes \cup Forged
                      /\ pc'[s] = "row" => code'[s] \in Codes
                      /\ HoldsRow(s)' => /\ code'[s] \in Codes
                                         /\ redeemedBy'[code'[s]] = NoUser
    BY DEF RequestShape
  <2>1. CASE s = r
    BY <1>1, <2>1 DEF Answer, TypeOK, HoldsRow
  <2>2. CASE s # r
    <3>1. pc'[s] = pc[s] /\ user'[s] = user[s] /\ code'[s] = code[s]
      BY <1>1, <2>2 DEF Answer, TypeOK
    <3>2. HoldsRow(s) => code[s] # code[r]
      BY <2>2 DEF RowMutex, HoldsRow, Commit
    <3> QED
      BY <3>1, <3>2 DEF RequestShape, Commit, HoldsRow, TypeOK
  <2> QED
    BY <2>1, <2>2
<1>7. WalletMutex' /\ RowMutex'
  BY <1>1 DEF TypeOK, WalletMutex, RowMutex, Answer, HoldsWallet, HoldsRow
<1> QED
  BY <1>5, <1>6, <1>7

LEMMA RecordLocks ==
  ASSUME LockInv, NEW r \in Requests, RecordFailure(r)
  PROVE  LockInv'
<1> USE DEF LockInv
<1>1. user[r] \in Users /\ now[r] \in Times
  BY DEF RecordFailure, RequestShape, TypeOK
<1>2. failures' \in [Users -> [Times -> Nat]]
  BY <1>1 DEF RecordFailure, TypeOK
<1>3. TypeOK'
  BY <1>2, TimesType
     DEF RecordFailure, TypeOK, Answer, NoPay, Labels, Replies
<1>4. RequestShape' /\ WalletMutex' /\ RowMutex'
  BY DEF RecordFailure, TypeOK, RequestShape, WalletMutex, RowMutex, Answer,
         HoldsRow, HoldsWallet
<1> QED
  BY <1>3, <1>4

\* The other actors touch no request and no redemption.
LEMMA EnvironmentLocks ==
  ASSUME LockInv,
         \/ \E b \in Batches : Activate(b) \/ Void(b)
         \/ \E new \in Rules : EditRule(new)
         \/ Tick
         \/ UNCHANGED vars
  PROVE  LockInv'
<1> USE DEF LockInv
<1>1. TypeOK'
  <2>1. CASE \E b \in Batches : Activate(b) \/ Void(b)
    BY <2>1 DEF TypeOK, Activate, Void, SetStatus, requestVars, Statuses
  <2>2. CASE \E new \in Rules : EditRule(new)
    BY <2>2 DEF TypeOK, EditRule, requestVars
  <2>3. CASE Tick
    <3>1. clock' \in Times
      BY <2>3, SettingsAssumption DEF TypeOK, Tick, Times
    <3> QED
      BY <2>3, <3>1 DEF TypeOK, Tick, requestVars
  <2>4. CASE UNCHANGED vars
    BY <2>4 DEF TypeOK, vars
  <2> QED
    BY <2>1, <2>2, <2>3, <2>4
<1>2. UNCHANGED <<pc, user, code, redeemedBy>>
  BY DEF Activate, Void, SetStatus, EditRule, Tick, vars, requestVars
<1>3. RequestShape' /\ WalletMutex' /\ RowMutex'
  BY <1>2 DEF RequestShape, WalletMutex, RowMutex, HoldsRow, HoldsWallet
<1> QED
  BY <1>1, <1>3

LEMMA NextLocks == LockInv /\ [Next]_vars => LockInv'
<1> SUFFICES ASSUME LockInv, [Next]_vars PROVE LockInv'
  OBVIOUS
<1> USE DEF LockInv
<1>1. ASSUME NEW r \in Requests, NEW u \in Users, NEW c \in Codes \cup Forged,
             Start(r, u, c)
      PROVE  LockInv'
  BY <1>1, StartLocks
<1>2. ASSUME NEW r \in Requests, Handle(r) PROVE LockInv'
  <2>1. CASE CheckThrottle(r)
    BY <2>1, AnswerLocks, GotoLocks DEF CheckThrottle, Labels, Replies
  <2>2. CASE Begin(r)
    BY <2>2, GotoLocks DEF Begin, Labels
  <2>3. CASE LockWallet(r)
    BY <2>3, GotoLocks DEF LockWallet, Labels
  <2>4. CASE ClaimSnapshot(r)
    BY <2>4, GotoLocks DEF ClaimSnapshot, Claimable, Labels, HoldsWallet
  <2>5. CASE ClaimRow(r)
    <3>1. code[r] \in Codes
      BY <2>5 DEF ClaimRow, RequestShape
    <3> QED
      BY <2>5, <3>1, GotoLocks DEF ClaimRow, Labels, HoldsWallet
  <2>6. CASE Apply(r)
    BY <2>6, ApplyLocks
  <2>7. CASE Commit(r)
    BY <2>7, CommitLocks
  <2>8. CASE Resolve(r)
    BY <2>8, AnswerLocks, GotoLocks DEF Resolve, Labels, Replies
  <2>9. CASE RecordFailure(r)
    BY <2>9, RecordLocks
  <2> QED
    BY <1>2, <2>1, <2>2, <2>3, <2>4, <2>5, <2>6, <2>7, <2>8, <2>9 DEF Handle
<1>3. ASSUME NEW r \in Requests, Abort(r) PROVE LockInv'
  BY <1>3, AnswerLocks DEF Abort, Replies
<1> QED
  BY <1>1, <1>2, <1>3, EnvironmentLocks DEF Next

\* At every moment a user's wallet row is held by one transaction and a code
\* row claimed by one, and every variable has its type.
THEOREM LocksHold == Spec => []LockInv
  BY InitLocks, NextLocks, PTL DEF Spec

\* Type correctness of the redemption model.
THEOREM TypeCorrect == Spec => []TypeOK
<1>1. LockInv => TypeOK
  BY DEF LockInv
<1> QED
  BY LocksHold, <1>1, PTL

-----------------------------------------------------------------------------
(* The books                                                               *)

\* What a transaction has decided to award stays right until it commits,
\* because nobody else can change the rows the decision was read from.
PlanSound ==
  \A r \in Requests : pc[r] = "commit" =>
    /\ pay[r].bonus \in Bonuses
    /\ pay[r].bonus > 0 => ~Recorded(FirstCodeKey(user[r]))
    /\ Cardinality(CountedToday(r)) <= DailyLimit
    /\ pay[r].unlocks <=> Cardinality(FlavorCodes(r)) = UnlockThreshold

Books ==
  /\ PaidExactlyOnce
  /\ EntriesMatchCodes
  /\ UnlockAnnouncedOnce
  /\ DailyCapHolds

BooksInv == LockInv /\ PlanSound /\ Books

\* Most steps touch neither the books nor a decision.
Quiet ==
  /\ UNCHANGED <<redeemedBy, redeemedAt, ledger, entries, announced, balance>>
  /\ \A r \in Requests : pc'[r] = "commit" =>
       pc[r] = "commit" /\ UNCHANGED <<user[r], code[r], now[r], pay[r]>>

LEMMA OwnedFinite ==
  \A u : IsFiniteSet(OwnedBy(u)) /\ OwnedBy(u) \subseteq Codes
  BY CatalogueAssumption, FS_Subset DEF OwnedBy

LEMMA InitBooks == Init => BooksInv
<1> SUFFICES ASSUME Init PROVE BooksInv
  OBVIOUS
<1>1. LockInv
  BY InitLocks
<1>2. PlanSound
  BY DEF Init, PlanSound
<1>3. \A u \in Users : OwnedBy(u) = {}
  BY CatalogueAssumption DEF Init, OwnedBy
<1>4. PaidExactlyOnce
  BY DEF Init, PaidExactlyOnce
<1>5. \A u \in Users, k \in Cities : Cardinality(OfCity(OwnedBy(u), k)) = 0
  <2>1. \A u \in Users, k \in Cities : OfCity(OwnedBy(u), k) = {}
    BY <1>3 DEF OfCity
  <2> QED
    BY <2>1, FS_EmptySet
<1>6. EntriesMatchCodes /\ UnlockAnnouncedOnce
  BY <1>5, SettingsAssumption DEF Init, EntriesMatchCodes, UnlockAnnouncedOnce
<1>7. DailyCapHolds
  <2> SUFFICES ASSUME NEW u \in Users, NEW t \in Times
               PROVE  Cardinality({c \in OwnedBy(u) :
                        StartOfLocalDay(redeemedAt[c]) = StartOfLocalDay(t)})
                        <= DailyLimit
    BY DEF DailyCapHolds
  <2>1. {c \in OwnedBy(u) :
           StartOfLocalDay(redeemedAt[c]) = StartOfLocalDay(t)} = {}
    BY <1>3
  <2> QED
    BY <2>1, FS_EmptySet, SettingsAssumption
<1> QED
  BY <1>1, <1>2, <1>4, <1>6, <1>7 DEF BooksInv, Books

LEMMA QuietKeepsBooks ==
  ASSUME PlanSound, Books, Quiet
  PROVE  PlanSound' /\ Books'
<1>1. Books'
  BY DEF Quiet, Books, PaidExactlyOnce, EntriesMatchCodes,
         UnlockAnnouncedOnce, DailyCapHolds, OwnedBy, OfCity
<1>2. PlanSound'
  <2> SUFFICES ASSUME NEW r \in Requests, pc'[r] = "commit"
               PROVE  /\ pay'[r].bonus \in Bonuses
                      /\ pay'[r].bonus > 0 =>
                           ~Recorded(FirstCodeKey(user[r]))'
                      /\ Cardinality(CountedToday(r))' <= DailyLimit
                      /\ pay'[r].unlocks <=>
                           Cardinality(FlavorCodes(r))' = UnlockThreshold
    BY DEF PlanSound
  <2>1. /\ pc[r] = "commit" /\ user'[r] = user[r] /\ code'[r] = code[r]
        /\ now'[r] = now[r] /\ pay'[r] = pay[r]
    BY DEF Quiet
  <2>2. CountedToday(r)' = CountedToday(r)
    BY <2>1 DEF Quiet, CountedToday, RedeemedSince, OwnedBy
  <2>3. FlavorCodes(r)' = FlavorCodes(r)
    BY <2>1 DEF Quiet, FlavorCodes, OfCity, OwnedBy
  <2>4. Recorded(FirstCodeKey(user[r]))' <=> Recorded(FirstCodeKey(user[r]))
    BY <2>1 DEF Quiet, Recorded, FirstCodeKey
  <2> QED
    BY <2>1, <2>2, <2>3, <2>4 DEF PlanSound
<1> QED
  BY <1>1, <1>2

\* Every step is quiet, or decides what to award, or commits.
LEMMA StepKinds ==
  ASSUME LockInv, [Next]_vars
  PROVE  \/ Quiet
         \/ \E r \in Requests : Apply(r) /\ pc'[r] = "commit"
         \/ \E r \in Requests : Commit(r)
<1> USE DEF LockInv, TypeOK
<1>1. ASSUME NEW r \in Requests, NEW a, a # "commit",
             Answer(r, a) \/ Goto(r, a), UNCHANGED tables
      PROVE  Quiet
  BY <1>1 DEF Answer, Goto, Quiet, tables
<1>2. ASSUME NEW r \in Requests, NEW u \in Users, NEW c \in Codes \cup Forged,
             Start(r, u, c)
      PROVE  Quiet
  BY <1>2 DEF Start, Quiet, tables
<1>3. ASSUME NEW r \in Requests, Handle(r), ~Commit(r),
             ~(Apply(r) /\ pc'[r] = "commit")
      PROVE  Quiet
  <2>1. CASE RecordFailure(r)
    BY <2>1 DEF RecordFailure, Answer, Quiet
  <2>2. CASE Apply(r)
    BY <2>2, <1>3, <1>1 DEF Apply
  <2>3. CASE CheckThrottle(r)
    BY <2>3, <1>1 DEF CheckThrottle
  <2>4. CASE Begin(r) \/ LockWallet(r)
    BY <2>4, <1>1 DEF Begin, LockWallet
  <2>5. CASE ClaimSnapshot(r) \/ ClaimRow(r)
    BY <2>5, <1>1 DEF ClaimSnapshot, ClaimRow
  <2>6. CASE Resolve(r)
    BY <2>6, <1>1 DEF Resolve
  <2> QED
    BY <1>3, <2>1, <2>2, <2>3, <2>4, <2>5, <2>6 DEF Handle
<1>4. ASSUME NEW r \in Requests, Abort(r) PROVE Quiet
  BY <1>4, <1>1 DEF Abort
<1>5. ASSUME \/ \E b \in Batches : Activate(b) \/ Void(b)
             \/ \E new \in Rules : EditRule(new)
             \/ Tick
             \/ UNCHANGED vars
      PROVE  Quiet
  BY <1>5 DEF Activate, Void, SetStatus, EditRule, Tick, vars, requestVars,
              Quiet
<1> QED
  BY <1>2, <1>3, <1>4, <1>5 DEF Next

\* Deciding reads the rows under the wallet lock.
LEMMA DecideKeepsBooks ==
  ASSUME BooksInv, NEW r \in Requests, Apply(r), pc'[r] = "commit"
  PROVE  PlanSound' /\ Books'
<1> USE DEF BooksInv
<1>1. /\ Cardinality(CountedToday(r)) <= DailyLimit
      /\ pc' = [pc EXCEPT ![r] = "commit"]
      /\ pay' = [pay EXCEPT ![r] =
                   [bonus |-> BonusDue(r),
                    unlocks |-> Cardinality(FlavorCodes(r)) = UnlockThreshold]]
      /\ UNCHANGED <<user, code, now>>
      /\ UNCHANGED <<redeemedBy, redeemedAt, ledger, entries, announced, balance>>
  BY DEF Apply, Answer, tables, LockInv, TypeOK
<1>2. Books'
  BY <1>1 DEF Books, PaidExactlyOnce, EntriesMatchCodes,
              UnlockAnnouncedOnce, DailyCapHolds, OwnedBy, OfCity
<1>3. PlanSound'
  <2> SUFFICES ASSUME NEW s \in Requests, pc'[s] = "commit"
               PROVE  /\ pay'[s].bonus \in Bonuses
                      /\ pay'[s].bonus > 0 =>
                           ~Recorded(FirstCodeKey(user[s]))'
                      /\ Cardinality(CountedToday(s))' <= DailyLimit
                      /\ pay'[s].unlocks <=>
                           Cardinality(FlavorCodes(s))' = UnlockThreshold
    BY DEF PlanSound
  <2>1. CountedToday(s)' = CountedToday(s)
    BY <1>1 DEF CountedToday, RedeemedSince, OwnedBy
  <2>2. FlavorCodes(s)' = FlavorCodes(s)
    BY <1>1 DEF FlavorCodes, OfCity, OwnedBy
  <2>3. Recorded(FirstCodeKey(user[s]))' <=> Recorded(FirstCodeKey(user[s]))
    BY <1>1 DEF Recorded, FirstCodeKey
  <2>4. CASE s = r
    <3>1. pay'[s] = [bonus |-> BonusDue(r),
                     unlocks |-> Cardinality(FlavorCodes(r)) = UnlockThreshold]
      BY <1>1, <2>4 DEF LockInv, TypeOK
    <3>2. BonusDue(r) > 0 => ~Recorded(FirstCodeKey(user[r]))
      BY DEF BonusDue
    <3>3. pay'[s].bonus > 0 => ~Recorded(FirstCodeKey(user[s]))'
      BY <2>3, <2>4, <3>1, <3>2
    <3>4. Cardinality(CountedToday(s))' <= DailyLimit
      <4>1. Cardinality(CountedToday(s))' = Cardinality(CountedToday(r))
        BY <2>1, <2>4, Zenon
      <4> QED
        BY <1>1, <4>1
    <3>5. pay'[s].unlocks <=> Cardinality(FlavorCodes(s))' = UnlockThreshold
      <4>1. Cardinality(FlavorCodes(s))' = Cardinality(FlavorCodes(r))
        BY <2>2, <2>4, Zenon
      <4>2. pay'[s].unlocks = (Cardinality(FlavorCodes(r)) = UnlockThreshold)
        BY <3>1
      <4> QED
        BY <4>1, <4>2
    <3>6. pay'[s].bonus \in Bonuses
      BY <3>1 DEF BonusDue, BonusAmount, Bonuses, LockInv, TypeOK
    <3> QED
      BY <3>3, <3>4, <3>5, <3>6
  <2>5. CASE s # r
    BY <1>1, <2>1, <2>2, <2>3, <2>5 DEF PlanSound, LockInv, TypeOK
  <2> QED
    BY <2>4, <2>5
<1> QED
  BY <1>2, <1>3

-----------------------------------------------------------------------------
(* Committing                                                              *)

\* How a commit changes who owns what.
LEMMA CommitOwnership ==
  ASSUME LockInv, NEW r \in Requests, Commit(r)
  PROVE  /\ user[r] \in Users
         /\ code[r] \in Codes
         /\ redeemedBy[code[r]] = NoUser
         /\ \A u \in Users : code[r] \notin OwnedBy(u)
         /\ \A u \in Users :
              OwnedBy(u)' = IF u = user[r] THEN OwnedBy(u) \cup {code[r]}
                                          ELSE OwnedBy(u)
         /\ \A c \in Codes : c # code[r] =>
              redeemedBy'[c] = redeemedBy[c] /\ redeemedAt'[c] = redeemedAt[c]
         /\ redeemedBy'[code[r]] = user[r]
         /\ redeemedAt'[code[r]] = now[r]
<1>1. /\ user[r] \in Users
      /\ code[r] \in Codes
      /\ redeemedBy[code[r]] = NoUser
  BY DEF LockInv, RequestShape, HoldsRow, Commit
<1>2. /\ redeemedBy' = [redeemedBy EXCEPT ![code[r]] = user[r]]
      /\ redeemedAt' = [redeemedAt EXCEPT ![code[r]] = now[r]]
  BY DEF Commit
<1>3. redeemedBy \in [Codes -> Users \cup {NoUser}] /\ redeemedAt \in [Codes -> Times]
  BY DEF LockInv, TypeOK
<1> QED
  BY <1>1, <1>2, <1>3, CatalogueAssumption DEF OwnedBy

\* A commit pays its code's key, which nobody has paid before, and its user's
\* bonus key only when it is free; so the unique index never refuses it.
LEMMA KeysAreFresh ==
  ASSUME BooksInv, NEW r \in Requests, pc[r] = "commit"
  PROVE  \A e \in NewEntries(r) : ~Recorded(e.key)
<1>1. user[r] \in Users /\ code[r] \in Codes /\ redeemedBy[code[r]] = NoUser
  BY DEF BooksInv, LockInv, RequestShape, HoldsRow
<1>2. ~Recorded(RedemptionKey(code[r]))
  BY <1>1 DEF BooksInv, Books, PaidExactlyOnce, Recorded
<1>3. pay[r].bonus > 0 => ~Recorded(FirstCodeKey(user[r]))
  BY DEF BooksInv, PlanSound
<1> QED
  BY <1>2, <1>3 DEF NewEntries, Entry

LEMMA CommitPaysOnce ==
  ASSUME BooksInv, NEW r \in Requests, Commit(r)
  PROVE  PaidExactlyOnce'
<1> USE DEF BooksInv
<1>1. /\ user[r] \in Users
      /\ code[r] \in Codes
      /\ redeemedBy[code[r]] = NoUser
      /\ redeemedBy'[code[r]] = user[r]
      /\ \A c \in Codes : c # code[r] => redeemedBy'[c] = redeemedBy[c]
  BY CommitOwnership
<1>2. ledger' = ledger \cup NewEntries(r)
  BY DEF Commit
<1> SUFFICES ASSUME NEW c \in Codes
             PROVE  {e \in ledger' : e.key = RedemptionKey(c)} =
                      IF redeemedBy'[c] # NoUser /\ CoinsFor(c) > 0
                      THEN {Entry(RedemptionKey(c), redeemedBy'[c], CoinsFor(c))}
                      ELSE {}
  BY DEF PaidExactlyOnce, CoinsFor, RedemptionKey, Entry
<1>3. {e \in ledger : e.key = RedemptionKey(c)} =
        IF redeemedBy[c] # NoUser /\ CoinsFor(c) > 0
        THEN {Entry(RedemptionKey(c), redeemedBy[c], CoinsFor(c))}
        ELSE {}
  BY DEF Books, PaidExactlyOnce
<1>4. {e \in NewEntries(r) : e.key = RedemptionKey(c)} =
        IF c = code[r] /\ CoinsFor(c) > 0
        THEN {Entry(RedemptionKey(c), user[r], CoinsFor(c))}
        ELSE {}
  <2>1. RedemptionKey(c) # FirstCodeKey(user[r])
    BY DEF RedemptionKey, FirstCodeKey
  <2>2. RedemptionKey(c) = RedemptionKey(code[r]) <=> c = code[r]
    BY DEF RedemptionKey
  <2> QED
    BY <2>1, <2>2 DEF NewEntries, Entry
<1>5. user[r] # NoUser
  BY <1>1, CatalogueAssumption
<1> QED
  BY <1>1, <1>2, <1>3, <1>4, <1>5

\* The committed code is one more in its city, for its user only.
LEMMA CommitCounts ==
  ASSUME LockInv, NEW r \in Requests, Commit(r),
         NEW u \in Users, NEW k \in Cities
  PROVE  /\ Cardinality(OfCity(OwnedBy(u), k)) \in Nat
         /\ Cardinality(OfCity(OwnedBy(u), k))' =
              IF u = user[r] /\ k = CityOf[code[r]]
              THEN Cardinality(OfCity(OwnedBy(u), k)) + 1
              ELSE Cardinality(OfCity(OwnedBy(u), k))
<1>1. IsFiniteSet(OfCity(OwnedBy(u), k))
  BY OwnedFinite, FS_Subset DEF OfCity
<1>2. code[r] \notin OfCity(OwnedBy(u), k)
  BY CommitOwnership DEF OfCity
<1>3. OfCity(OwnedBy(u), k)' =
        IF u = user[r] /\ k = CityOf[code[r]]
        THEN OfCity(OwnedBy(u), k) \cup {code[r]}
        ELSE OfCity(OwnedBy(u), k)
  BY CommitOwnership DEF OfCity
<1> QED
  BY <1>1, <1>2, <1>3, FS_AddElement, FS_CardinalityType

LEMMA CommitCountsEntries ==
  ASSUME BooksInv, NEW r \in Requests, Commit(r)
  PROVE  EntriesMatchCodes' /\ UnlockAnnouncedOnce'
<1> USE DEF BooksInv
<1>1. user[r] \in Users /\ code[r] \in Codes /\ CityOf[code[r]] \in Cities
  BY CommitOwnership, CatalogueAssumption
<1>2. /\ entries' = [entries EXCEPT ![user[r]][CityOf[code[r]]] = @ + 1]
      /\ announced' = [announced EXCEPT ![user[r]][CityOf[code[r]]] =
                         IF pay[r].unlocks THEN @ + 1 ELSE @]
  BY DEF Commit
<1>3. /\ entries \in [Users -> [Cities -> Nat]]
      /\ announced \in [Users -> [Cities -> Nat]]
  BY DEF LockInv, TypeOK
<1>4. EntriesMatchCodes'
  BY <1>1, <1>2, <1>3, CommitCounts DEF Books, EntriesMatchCodes
<1>5. UnlockAnnouncedOnce'
  <2> SUFFICES ASSUME NEW u \in Users, NEW k \in Cities
               PROVE  announced'[u][k] =
                        IF Cardinality(OfCity(OwnedBy(u), k))' >= UnlockThreshold
                        THEN 1 ELSE 0
    BY DEF UnlockAnnouncedOnce
  <2>1. announced[u][k] =
          IF Cardinality(OfCity(OwnedBy(u), k)) >= UnlockThreshold
          THEN 1 ELSE 0
    BY DEF Books, UnlockAnnouncedOnce
  <2>2. CASE u = user[r] /\ k = CityOf[code[r]]
    <3>1. FlavorCodes(r) = OfCity(OwnedBy(u), k)'
      BY <2>2, CommitOwnership DEF FlavorCodes, OfCity
    <3>2. pay[r].unlocks <=>
            Cardinality(OfCity(OwnedBy(u), k))' = UnlockThreshold
      BY <3>1 DEF PlanSound, Commit
    <3>3. announced'[u][k] =
            IF pay[r].unlocks THEN announced[u][k] + 1 ELSE announced[u][k]
      BY <1>1, <1>2, <1>3, <2>2
    <3> QED
      BY <2>1, <2>2, <3>2, <3>3, CommitCounts, SettingsAssumption
  <2>3. CASE ~(u = user[r] /\ k = CityOf[code[r]])
    <3>1. announced'[u][k] = announced[u][k]
      BY <1>1, <1>2, <1>3, <2>3
    <3> QED
      BY <2>1, <2>3, <3>1, CommitCounts
  <2> QED
    BY <2>2, <2>3
<1> QED
  BY <1>4, <1>5

\* The redemptions a user has on a day are among those counted since the
\* midnight before, so the count that admitted the request bounds its day.
LEMMA CommitWithinCap ==
  ASSUME BooksInv, NEW r \in Requests, Commit(r)
  PROVE  DailyCapHolds'
<1> USE DEF BooksInv
<1> DEFINE Day(t) == StartOfLocalDay(t)
           OnDay(u, t) == {c \in OwnedBy(u) : Day(redeemedAt[c]) = Day(t)}
<1> SUFFICES ASSUME NEW u \in Users, NEW t \in Times
             PROVE  Cardinality(OnDay(u, t))' <= DailyLimit
  BY DEF DailyCapHolds, StartOfLocalDay
<1>1. /\ code[r] \in Codes
      /\ redeemedAt'[code[r]] = now[r]
      /\ \A c \in OwnedBy(u) : c # code[r] /\ redeemedAt'[c] = redeemedAt[c]
      /\ OwnedBy(u)' = IF u = user[r] THEN OwnedBy(u) \cup {code[r]}
                                      ELSE OwnedBy(u)
  BY CommitOwnership, OwnedFinite
<1>2. Cardinality(OnDay(u, t)) <= DailyLimit
  BY DEF Books, DailyCapHolds
<1>3. CASE u = user[r] /\ Day(now[r]) = Day(t)
  <2>1. now[r] \in Nat /\ \A c \in Codes : redeemedAt[c] \in Nat
    BY TimesType DEF LockInv, TypeOK
  <2>2. \A n \in Nat : StartOfLocalDay(n) <= n
    BY SettingsAssumption DEF StartOfLocalDay
  <2>3. OnDay(u, t)' \subseteq CountedToday(r)
    <3> SUFFICES ASSUME NEW c \in OnDay(u, t)' PROVE c \in CountedToday(r)
      OBVIOUS
    <3>1. CASE c = code[r]
      BY <3>1 DEF CountedToday
    <3>2. CASE c # code[r]
      <4>1. c \in OwnedBy(u) /\ Day(redeemedAt[c]) = Day(t)
        BY <1>1, <3>2
      <4>2. redeemedAt[c] >= Day(now[r])
        BY <1>3, <2>1, <2>2, <4>1, OwnedFinite
      <4> QED
        BY <1>3, <4>1, <4>2 DEF CountedToday, RedeemedSince
    <3> QED
      BY <3>1, <3>2
  <2>4. IsFiniteSet(CountedToday(r))
    BY OwnedFinite, FS_Subset, FS_AddElement DEF CountedToday, RedeemedSince
  <2>5. Cardinality(CountedToday(r)) <= DailyLimit
    BY DEF PlanSound, Commit
  <2>6. /\ Cardinality(OnDay(u, t)') <= Cardinality(CountedToday(r))
        /\ Cardinality(OnDay(u, t)') \in Nat
        /\ Cardinality(CountedToday(r)) \in Nat
    BY <2>3, <2>4, FS_Subset, FS_CardinalityType
  <2> QED
    BY <2>5, <2>6, SettingsAssumption
<1>4. CASE ~(u = user[r] /\ Day(now[r]) = Day(t))
  <2>1. OnDay(u, t)' = OnDay(u, t)
    BY <1>1, <1>4
  <2> QED
    BY <1>2, <2>1
<1> QED
  BY <1>3, <1>4

\* A commit leaves the decisions of the other users' transactions right.
LEMMA CommitKeepsPlans ==
  ASSUME BooksInv, NEW r \in Requests, Commit(r)
  PROVE  PlanSound'
<1> USE DEF BooksInv
<1> SUFFICES ASSUME NEW s \in Requests, pc'[s] = "commit"
             PROVE  /\ pay'[s].bonus \in Bonuses
                    /\ pay'[s].bonus > 0 => ~Recorded(FirstCodeKey(user[s]))'
                    /\ Cardinality(CountedToday(s))' <= DailyLimit
                    /\ pay'[s].unlocks <=>
                         Cardinality(FlavorCodes(s))' = UnlockThreshold
  BY DEF PlanSound
<1>1. PICK a \in {"redeemed", "error"} : Answer(r, a)
  BY DEF Commit
<1>2. /\ s # r
      /\ pc[s] = "commit"
      /\ user'[s] = user[s] /\ code'[s] = code[s]
      /\ now'[s] = now[s] /\ pay'[s] = pay[s]
  BY <1>1 DEF Answer, LockInv, TypeOK
<1>3. user[s] # user[r] /\ user[s] \in Users
  BY <1>2 DEF LockInv, WalletMutex, HoldsWallet, RequestShape, Commit
<1>4. /\ OwnedBy(user[s])' = OwnedBy(user[s])
      /\ \A c \in OwnedBy(user[s]) : redeemedAt'[c] = redeemedAt[c]
  BY <1>2, <1>3, CommitOwnership, OwnedFinite DEF OwnedBy
<1>5. CountedToday(s)' = CountedToday(s)
  BY <1>2, <1>4 DEF CountedToday, RedeemedSince
<1>6. FlavorCodes(s)' = FlavorCodes(s)
  BY <1>2, <1>4 DEF FlavorCodes, OfCity
<1>7. Recorded(FirstCodeKey(user[s]))' => Recorded(FirstCodeKey(user[s]))
  <2>1. \A e \in NewEntries(r) : e.key # FirstCodeKey(user[s])
    BY <1>3 DEF NewEntries, Entry, RedemptionKey, FirstCodeKey
  <2>2. ledger' = ledger \cup NewEntries(r)
    BY DEF Commit
  <2>3. FirstCodeKey(user[s])' = FirstCodeKey(user[s])
    BY <1>2 DEF FirstCodeKey
  <2> QED
    BY <2>1, <2>2, <2>3 DEF Recorded
<1> QED
  BY <1>2, <1>5, <1>6, <1>7 DEF PlanSound

LEMMA NextBooks == BooksInv /\ [Next]_vars => BooksInv'
<1> SUFFICES ASSUME BooksInv, [Next]_vars PROVE BooksInv'
  OBVIOUS
<1>1. LockInv'
  BY NextLocks DEF BooksInv
<1>2. CASE Quiet
  BY <1>1, <1>2, QuietKeepsBooks DEF BooksInv
<1>3. CASE \E r \in Requests : Apply(r) /\ pc'[r] = "commit"
  BY <1>1, <1>3, DecideKeepsBooks DEF BooksInv
<1>4. CASE \E r \in Requests : Commit(r)
  BY <1>1, <1>4, CommitPaysOnce, CommitCountsEntries, CommitWithinCap,
     CommitKeepsPlans DEF BooksInv, Books
<1> QED
  BY <1>2, <1>3, <1>4, StepKinds DEF BooksInv

LEMMA BooksHold == Spec => []BooksInv
  BY InitBooks, NextBooks, PTL DEF Spec

-----------------------------------------------------------------------------
(* Balances                                                                *)

Amounts(rows) == [e \in rows |-> e.amount]
RowsOf(rows, u) == {e \in rows : e.user = u}
Total(rows, u) == Sum(Amounts(rows), RowsOf(rows, u))

LedgerInv == IsFiniteSet(ledger) /\ BalanceIsLedgerSum

LEMMA BalanceIsTotal ==
  BalanceIsLedgerSum <=> \A u \in Users : balance[u] = Total(ledger, u)
  BY DEF BalanceIsLedgerSum, Total, Amounts, RowsOf, Sum

LEMMA TotalType ==
  ASSUME NEW rows, IsFiniteSet(rows), \A e \in rows : e.amount \in Int, NEW u
  PROVE  Total(rows, u) \in Int
<1>1. IsFiniteSet(RowsOf(rows, u)) /\ \A e \in RowsOf(rows, u) : Amounts(rows)[e] \in Int
  BY FS_Subset DEF RowsOf, Amounts
<1> QED
  BY <1>1, SumType DEF Total

\* A new row moves the total of its user, by its amount.
LEMMA NewRow ==
  ASSUME NEW rows, IsFiniteSet(rows), \A e \in rows : e.amount \in Int,
         NEW x, x \notin rows, x.amount \in Int, NEW u
  PROVE  Total(rows \cup {x}, u) =
           IF x.user = u THEN Total(rows, u) + x.amount ELSE Total(rows, u)
<1> DEFINE f == Amounts(rows)
           g == Amounts(rows \cup {x})
           S == RowsOf(rows, u)
<1>1. IsFiniteSet(S) /\ x \notin S
  BY FS_Subset DEF RowsOf
<1>2. \A e \in S : f[e] = g[e] /\ g[e] \in Int
  BY DEF RowsOf, Amounts
<1>3. g[x] = x.amount
  BY DEF Amounts
<1>4. RowsOf(rows \cup {x}, u) = IF x.user = u THEN S \cup {x} ELSE S
  BY DEF RowsOf
<1>5. Total(rows, u) = Sum(f, S)
  BY DEF Total
<1>6. Total(rows \cup {x}, u) = Sum(g, RowsOf(rows \cup {x}, u))
  BY DEF Total
<1> HIDE DEF f, g, S
<1>7. Sum(f, S) = Sum(g, S)
  BY <1>1, <1>2, SumSame
<1>8. Sum(g, S \cup {x}) = Sum(g, S) + g[x]
  <2>1. \A e \in S \cup {x} : g[e] \in Int
    BY <1>2, <1>3
  <2> QED
    BY <1>1, <2>1, SumAdd
<1> QED
  BY <1>3, <1>4, <1>5, <1>6, <1>7, <1>8

\* No row is written for zero coins.
LEMMA PaidRow ==
  ASSUME NEW rows, IsFiniteSet(rows), \A e \in rows : e.amount \in Int,
         NEW x, x.amount > 0 => x \notin rows, x.amount \in Nat, NEW more,
         more = IF x.amount > 0 THEN rows \cup {x} ELSE rows
  PROVE  /\ IsFiniteSet(more) /\ \A e \in more : e.amount \in Int
         /\ \A u : Total(more, u) =
              IF x.user = u THEN Total(rows, u) + x.amount ELSE Total(rows, u)
<1>1. IsFiniteSet(more) /\ \A e \in more : e.amount \in Int
  BY FS_AddElement
<1>2. \A u : Total(rows, u) \in Int
  BY TotalType
<1>3. CASE x.amount > 0
  <2>1. more = rows \cup {x} /\ x \notin rows /\ x.amount \in Int
    BY <1>3
  <2>2. \A u : Total(rows \cup {x}, u) =
          IF x.user = u THEN Total(rows, u) + x.amount ELSE Total(rows, u)
    BY <2>1, NewRow
  <2> QED
    BY <1>1, <2>1, <2>2
<1>4. CASE ~(x.amount > 0)
  BY <1>1, <1>2, <1>4
<1> QED
  BY <1>3, <1>4

LEMMA CommitKeepsSums ==
  ASSUME BooksInv, LedgerInv, NEW r \in Requests, Commit(r)
  PROVE  LedgerInv'
<1> DEFINE u == user[r]
           a == Entry(RedemptionKey(code[r]), u, CoinsFor(code[r]))
           b == Entry(FirstCodeKey(u), u, pay[r].bonus)
           mid == IF a.amount > 0 THEN ledger \cup {a} ELSE ledger
           end == IF b.amount > 0 THEN mid \cup {b} ELSE mid
<1>1. u \in Users /\ code[r] \in Codes
  BY CommitOwnership DEF BooksInv
<1>2. CoinsFor(code[r]) \in Nat /\ pay[r].bonus \in Nat
  BY <1>1, CoinsType DEF BooksInv, LockInv, TypeOK
<1>3. /\ a.amount = CoinsFor(code[r]) /\ a.user = u /\ a.key = RedemptionKey(code[r])
      /\ b.amount = pay[r].bonus /\ b.user = u /\ b.key = FirstCodeKey(u)
  BY DEF Entry
<1>4. NewEntries(r) = {e \in {a, b} : e.amount > 0}
  BY DEF NewEntries
<1>5. /\ balance' = [balance EXCEPT ![u] = @ + CoinsFor(code[r]) + pay[r].bonus]
      /\ ledger' = ledger \cup NewEntries(r)
      /\ pc[r] = "commit"
  BY DEF Commit
<1>6. ledger' = end
  BY <1>4, <1>5
<1>7. \A e \in NewEntries(r) : e \notin ledger
  BY <1>5, KeysAreFresh DEF Recorded
<1>8. a # b
  BY <1>3 DEF RedemptionKey, FirstCodeKey
<1>9. IsFiniteSet(ledger) /\ (\A e \in ledger : e.amount \in Int) /\ balance \in [Users -> Nat]
  BY DEF LedgerInv, BooksInv, LockInv, TypeOK
<1>10. /\ a.amount > 0 => a \notin ledger
       /\ b.amount > 0 => b \notin mid
  BY <1>4, <1>7, <1>8
<1>11. a.amount \in Nat /\ b.amount \in Nat
  BY <1>2, <1>3
<1>12. mid = (IF a.amount > 0 THEN ledger \cup {a} ELSE ledger)
  OBVIOUS
<1>13. end = (IF b.amount > 0 THEN mid \cup {b} ELSE mid)
  OBVIOUS
<1> HIDE DEF u, a, b, mid, end
<1>14. /\ IsFiniteSet(mid) /\ \A e \in mid : e.amount \in Int
       /\ \A v : Total(mid, v) =
            IF a.user = v THEN Total(ledger, v) + a.amount ELSE Total(ledger, v)
  <2>1. IsFiniteSet(ledger) /\ \A e \in ledger : e.amount \in Int
    BY <1>9
  <2>2. (a.amount > 0 => a \notin ledger) /\ a.amount \in Nat
    BY <1>10, <1>11
  <2> QED
    BY <1>12, <2>1, <2>2, PaidRow
<1>15. /\ IsFiniteSet(end)
       /\ \A v : Total(end, v) =
            IF b.user = v THEN Total(mid, v) + b.amount ELSE Total(mid, v)
  BY <1>10, <1>11, <1>13, <1>14, PaidRow
<1>16. \A v \in Users : balance[v] = Total(ledger, v)
  BY BalanceIsTotal DEF LedgerInv
<1>17. \A v \in Users : balance'[v] = Total(end, v)
  <2> SUFFICES ASSUME NEW v \in Users PROVE balance'[v] = Total(end, v)
    OBVIOUS
  <2>1. CASE v = u
    <3>1. Total(end, v) = Total(ledger, v) + CoinsFor(code[r]) + pay[r].bonus
      BY <1>3, <1>14, <1>15, <2>1
    <3> QED
      BY <1>5, <1>9, <1>16, <2>1, <3>1
  <2>2. CASE v # u
    <3>1. Total(end, v) = Total(ledger, v)
      BY <1>3, <1>14, <1>15, <2>2
    <3> QED
      BY <1>5, <1>9, <1>16, <2>2, <3>1
  <2> QED
    BY <2>1, <2>2
<1>18. \A v \in Users : balance'[v] = Total(ledger', v)
  BY <1>6, <1>17
<1>19. BalanceIsLedgerSum'
  BY <1>18 DEF BalanceIsLedgerSum, Total, Amounts, RowsOf, Sum
<1> QED
  BY <1>6, <1>15, <1>19 DEF LedgerInv

LEMMA NextSums == BooksInv /\ LedgerInv /\ [Next]_vars => LedgerInv'
<1> SUFFICES ASSUME BooksInv, LedgerInv, [Next]_vars PROVE LedgerInv'
  OBVIOUS
<1>1. CASE UNCHANGED <<ledger, balance>>
  BY <1>1 DEF LedgerInv, BalanceIsLedgerSum
<1>2. CASE \E r \in Requests : Commit(r)
  BY <1>2, CommitKeepsSums
<1>3. Quiet => UNCHANGED <<ledger, balance>>
  BY DEF Quiet
<1>4. ASSUME NEW r \in Requests, Apply(r) PROVE UNCHANGED <<ledger, balance>>
  BY <1>4 DEF Apply, tables
<1> QED
  BY <1>1, <1>2, <1>3, <1>4, StepKinds DEF BooksInv

\* Every wallet's balance is, at every moment, the sum of its ledger rows.
THEOREM BalancesAreSums == Spec => []BalanceIsLedgerSum
<1>1. Init => LedgerInv
  <2> SUFFICES ASSUME Init PROVE LedgerInv
    OBVIOUS
  <2>1. ledger = {} /\ \A u \in Users : balance[u] = 0
    BY DEF Init
  <2>2. IsFiniteSet(ledger) /\ \A u : RowsOf(ledger, u) = {}
    BY <2>1, FS_EmptySet DEF RowsOf
  <2>3. \A u \in Users : balance[u] = Total(ledger, u)
    BY <2>1, <2>2, SumEmpty DEF Total
  <2> QED
    BY <2>2, <2>3, BalanceIsTotal DEF LedgerInv
<1>2. LedgerInv => BalanceIsLedgerSum
  BY DEF LedgerInv
<1> QED
  BY <1>1, <1>2, NextSums, BooksHold, PTL DEF Spec

-----------------------------------------------------------------------------
(* The throttle                                                            *)

\* The moments of a window, and the requests that passed the check and may
\* still record a failure in it.
WindowTo(t) == {s \in FailureTimes(t) : s <= t}
Passed == {"begin", "wallet", "claim", "row", "apply", "commit", "resolve", "record"}
Coming(u, t) == {r \in Requests : pc[r] \in Passed /\ user[r] = u /\ now[r] \in WindowTo(t)}

\* What is counted and what is on its way.
ThrottleInv ==
  \A u \in Users, t \in Times :
    Sum(failures[u], WindowTo(t)) + Cardinality(Coming(u, t))
      <= MaxAttempts - 1 + Cardinality(Requests)

\* Most steps record nothing, and no further request has passed after them.
NoneComes ==
  /\ UNCHANGED failures
  /\ \A r \in Requests : pc'[r] \in Passed =>
       pc[r] \in Passed /\ user'[r] = user[r] /\ now'[r] = now[r]

LEMMA ComingCount ==
  \A u, t : /\ IsFiniteSet(Coming(u, t)) /\ Cardinality(Coming(u, t)) \in Nat
            /\ Cardinality(Coming(u, t)) <= Cardinality(Requests)
            /\ Cardinality(Requests) \in Nat
<1>1. \A u, t : Coming(u, t) \subseteq Requests
  BY DEF Coming
<1> QED
  BY <1>1, CatalogueAssumption, FS_Subset, FS_CardinalityType

LEMMA WindowSums ==
  ASSUME TypeOK, NEW u \in Users, NEW t \in Times
  PROVE  /\ IsFiniteSet(FailureTimes(t)) /\ IsFiniteSet(WindowTo(t))
         /\ \A s \in FailureTimes(t) : failures[u][s] \in Nat
         /\ Sum(failures[u], FailureTimes(t)) \in Nat
         /\ Sum(failures[u], WindowTo(t)) \in Nat
<1>1. IsFiniteSet(Times)
  BY SettingsAssumption, FS_Interval DEF Times
<1>2. WindowTo(t) \subseteq FailureTimes(t) /\ FailureTimes(t) \subseteq Times
  BY DEF WindowTo, FailureTimes
<1>3. IsFiniteSet(FailureTimes(t)) /\ IsFiniteSet(WindowTo(t))
  BY <1>1, <1>2, FS_Subset
<1>4. \A s \in Times : failures[u][s] \in Nat
  BY DEF TypeOK
<1> QED
  BY <1>2, <1>3, <1>4, SumNat

LEMMA ThrottleKinds ==
  ASSUME LockInv, [Next]_vars
  PROVE  \/ NoneComes
         \/ \E r \in Requests : CheckThrottle(r) /\ Goto(r, "begin")
         \/ \E r \in Requests : RecordFailure(r)
<1> USE DEF LockInv, TypeOK
<1>1. ASSUME NEW r \in Requests, NEW a, Answer(r, a), UNCHANGED tables
      PROVE  NoneComes
  BY <1>1 DEF Answer, NoneComes, tables, Passed
<1>2. ASSUME NEW r \in Requests, NEW a, pc[r] \in Passed, Goto(r, a), UNCHANGED tables
      PROVE  NoneComes
  BY <1>2 DEF Goto, NoneComes, tables
<1>3. ASSUME NEW r \in Requests, NEW u \in Users, NEW c \in Codes \cup Forged,
             Start(r, u, c)
      PROVE  NoneComes
  BY <1>3 DEF Start, NoneComes, tables, Passed
<1>4. ASSUME NEW r \in Requests, Handle(r), ~RecordFailure(r),
             ~(CheckThrottle(r) /\ Goto(r, "begin"))
      PROVE  NoneComes
  <2>1. CASE CheckThrottle(r)
    BY <2>1, <1>4, <1>1 DEF CheckThrottle
  <2>2. CASE Begin(r) \/ LockWallet(r)
    BY <2>2, <1>2 DEF Begin, LockWallet, Passed
  <2>3. CASE ClaimSnapshot(r) \/ ClaimRow(r)
    BY <2>3, <1>2 DEF ClaimSnapshot, ClaimRow, Passed
  <2>4. CASE Apply(r)
    <3>1. CASE Answer(r, "daily_limit")
      BY <2>4, <3>1, <1>1 DEF Apply
    <3>2. CASE pc' = [pc EXCEPT ![r] = "commit"] /\ UNCHANGED <<user, now>>
      BY <2>4, <3>2 DEF Apply, NoneComes, tables, Passed
    <3> QED
      BY <2>4, <3>1, <3>2 DEF Apply
  <2>5. CASE Commit(r)
    BY <2>5 DEF Commit, Answer, NoneComes, Passed
  <2>6. CASE Resolve(r)
    BY <2>6, <1>1, <1>2 DEF Resolve, Passed
  <2> QED
    BY <1>4, <2>1, <2>2, <2>3, <2>4, <2>5, <2>6 DEF Handle
<1>5. ASSUME NEW r \in Requests, Abort(r) PROVE NoneComes
  BY <1>5, <1>1 DEF Abort
<1>6. ASSUME \/ \E b \in Batches : Activate(b) \/ Void(b)
             \/ \E new \in Rules : EditRule(new)
             \/ Tick
             \/ UNCHANGED vars
      PROVE  NoneComes
  BY <1>6 DEF Activate, Void, SetStatus, EditRule, Tick, vars, requestVars, NoneComes
<1> QED
  BY <1>3, <1>4, <1>5, <1>6 DEF Next

LEMMA NoneComesBound ==
  ASSUME TypeOK, ThrottleInv, NoneComes
  PROVE  ThrottleInv'
<1> SUFFICES ASSUME NEW u \in Users, NEW t \in Times
             PROVE  Sum(failures'[u], WindowTo(t)) + Cardinality(Coming(u, t)')
                      <= MaxAttempts - 1 + Cardinality(Requests)
  BY DEF ThrottleInv, WindowTo, FailureTimes, Sum
<1>1. failures' = failures /\ Coming(u, t)' \subseteq Coming(u, t)
  BY DEF NoneComes, Coming, WindowTo, FailureTimes
<1>2. Cardinality(Coming(u, t)') <= Cardinality(Coming(u, t))
      /\ Cardinality(Coming(u, t)') \in Nat
  BY <1>1, ComingCount, FS_Subset, FS_CardinalityType
<1>3. /\ Sum(failures[u], WindowTo(t)) \in Nat
      /\ Cardinality(Coming(u, t)) \in Nat /\ Cardinality(Requests) \in Nat
  BY WindowSums, ComingCount
<1>4. Sum(failures[u], WindowTo(t)) + Cardinality(Coming(u, t))
        <= MaxAttempts - 1 + Cardinality(Requests)
  BY DEF ThrottleInv
<1> QED
  BY <1>1, <1>2, <1>3, <1>4, SettingsAssumption

\* A check that passes has seen every failure of the windows its request can
\* add to, and at most every request is on its way.
LEMMA CheckBound ==
  ASSUME LockInv, ThrottleInv, NEW r \in Requests, CheckThrottle(r), Goto(r, "begin")
  PROVE  ThrottleInv'
<1> USE DEF LockInv
<1> SUFFICES ASSUME NEW u \in Users, NEW t \in Times
             PROVE  Sum(failures'[u], WindowTo(t)) + Cardinality(Coming(u, t)')
                      <= MaxAttempts - 1 + Cardinality(Requests)
  BY DEF ThrottleInv, WindowTo, FailureTimes, Sum
<1>1. /\ failures' = failures /\ UNCHANGED <<user, now>>
      /\ \A s \in Requests : s # r => pc'[s] = pc[s]
      /\ pc[r] = "throttle"
  BY DEF CheckThrottle, Goto, tables, TypeOK
<1>2. /\ Sum(failures[u], WindowTo(t)) \in Nat
      /\ Cardinality(Coming(u, t)) \in Nat /\ Cardinality(Requests) \in Nat
  BY WindowSums, ComingCount
<1>3. Coming(u, t)' \subseteq Requests
  BY DEF Coming
<1>4. /\ Cardinality(Coming(u, t)') \in Nat
      /\ Cardinality(Coming(u, t)') <= Cardinality(Requests)
  BY <1>3, CatalogueAssumption, FS_Subset, FS_CardinalityType
<1>5. CASE user[r] = u /\ now[r] \in WindowTo(t)
  <2>1. now[r] \in Times /\ now[r] <= t
    BY <1>5 DEF WindowTo, FailureTimes
  <2>2. WindowTo(t) \subseteq FailureTimes(now[r])
    BY <2>1, SettingsAssumption DEF WindowTo, FailureTimes, Times
  <2>3. /\ IsFiniteSet(FailureTimes(now[r]))
        /\ \A s \in FailureTimes(now[r]) : failures[u][s] \in Nat
        /\ Sum(failures[u], FailureTimes(now[r])) \in Nat
    BY <2>1, WindowSums
  <2>4. Sum(failures[u], WindowTo(t)) <= Sum(failures[u], FailureTimes(now[r]))
    BY <2>2, <2>3, SumMore
  <2>5. CountInWindow(user[r], now[r]) < MaxAttempts
    BY <1>1 DEF CheckThrottle, Goto, Answer, TypeOK
  <2>6. Sum(failures[u], FailureTimes(now[r])) < MaxAttempts
    BY <1>5, <2>5 DEF CountInWindow, Sum
  <2> QED
    BY <1>1, <1>2, <1>4, <2>3, <2>4, <2>6, SettingsAssumption
<1>6. CASE ~(user[r] = u /\ now[r] \in WindowTo(t))
  <2>1. Coming(u, t)' \subseteq Coming(u, t)
    BY <1>1, <1>6 DEF Coming, WindowTo, FailureTimes
  <2>2. Cardinality(Coming(u, t)') <= Cardinality(Coming(u, t))
    BY <2>1, ComingCount, FS_Subset
  <2>3. Sum(failures[u], WindowTo(t)) + Cardinality(Coming(u, t))
          <= MaxAttempts - 1 + Cardinality(Requests)
    BY DEF ThrottleInv
  <2> QED
    BY <1>1, <1>2, <1>4, <2>2, <2>3, SettingsAssumption
<1> QED
  BY <1>5, <1>6

\* A failure recorded is one no longer on its way.
LEMMA RecordBound ==
  ASSUME LockInv, ThrottleInv, NEW r \in Requests, RecordFailure(r)
  PROVE  ThrottleInv'
<1> USE DEF LockInv
<1> SUFFICES ASSUME NEW u \in Users, NEW t \in Times
             PROVE  Sum(failures'[u], WindowTo(t)) + Cardinality(Coming(u, t)')
                      <= MaxAttempts - 1 + Cardinality(Requests)
  BY DEF ThrottleInv, WindowTo, FailureTimes, Sum
<1>1. /\ pc[r] = "record" /\ pc'[r] = "done" /\ user[r] \in Users /\ now[r] \in Times
      /\ failures' = [failures EXCEPT ![user[r]][now[r]] = @ + 1]
      /\ \A s \in Requests : s # r =>
           pc'[s] = pc[s] /\ user'[s] = user[s] /\ now'[s] = now[s]
  BY DEF RecordFailure, Answer, TypeOK, RequestShape
<1>2. failures \in [Users -> [Times -> Nat]]
  BY DEF TypeOK
<1>3. /\ Sum(failures[u], WindowTo(t)) \in Nat /\ IsFiniteSet(WindowTo(t))
      /\ Cardinality(Coming(u, t)) \in Nat /\ Cardinality(Requests) \in Nat
      /\ IsFiniteSet(Coming(u, t))
  BY WindowSums, ComingCount
<1>4. Sum(failures[u], WindowTo(t)) + Cardinality(Coming(u, t))
        <= MaxAttempts - 1 + Cardinality(Requests)
  BY DEF ThrottleInv
<1>5. Coming(u, t)' \subseteq Coming(u, t) \ {r}
  BY <1>1 DEF Coming, WindowTo, FailureTimes, Passed
<1>6. WindowTo(t) \subseteq Times
  BY DEF WindowTo, FailureTimes
<1>7. CASE user[r] = u /\ now[r] \in WindowTo(t)
  <2>1. /\ failures'[u][now[r]] = failures[u][now[r]] + 1
        /\ failures[u][now[r]] \in Nat
        /\ \A s \in Times : s # now[r] => failures'[u][s] = failures[u][s]
    BY <1>1, <1>2, <1>7
  <2>2. \A s \in WindowTo(t) : failures[u][s] \in Int /\ failures'[u][s] \in Int
    BY <1>2, <1>6, <2>1
  <2>3. Sum(failures'[u], WindowTo(t)) =
          Sum(failures[u], WindowTo(t)) + (failures'[u][now[r]] - failures[u][now[r]])
    <3> DEFINE f == failures[u]
               g == failures'[u]
    <3>1. \A s \in WindowTo(t) \ {now[r]} : g[s] = f[s]
      BY <1>6, <2>1
    <3>2. \A s \in WindowTo(t) : f[s] \in Int /\ g[s] \in Int
      BY <2>2
    <3>3. now[r] \in WindowTo(t) /\ IsFiniteSet(WindowTo(t))
      BY <1>3, <1>7
    <3> HIDE DEF f, g
    <3>4. Sum(g, WindowTo(t)) = Sum(f, WindowTo(t)) + (g[now[r]] - f[now[r]])
      BY <3>1, <3>2, <3>3, SumReplace
    <3> QED
      BY <3>4 DEF f, g
  <2>4. r \in Coming(u, t)
    BY <1>1, <1>7 DEF Coming, Passed
  <2>5. /\ Cardinality(Coming(u, t) \ {r}) = Cardinality(Coming(u, t)) - 1
        /\ IsFiniteSet(Coming(u, t) \ {r})
    BY <1>3, <2>4, FS_RemoveElement
  <2>6. Cardinality(Coming(u, t)') <= Cardinality(Coming(u, t)) - 1
        /\ Cardinality(Coming(u, t)') \in Nat
    BY <1>5, <2>5, FS_Subset, FS_CardinalityType
  <2>7. Sum(failures'[u], WindowTo(t)) = Sum(failures[u], WindowTo(t)) + 1
    BY <1>3, <2>1, <2>3
  <2> QED
    BY <1>3, <1>4, <2>6, <2>7, SettingsAssumption
<1>8. CASE ~(user[r] = u /\ now[r] \in WindowTo(t))
  <2>1. \A s \in WindowTo(t) : failures'[u][s] = failures[u][s]
    BY <1>1, <1>2, <1>6, <1>8
  <2>2. Sum(failures'[u], WindowTo(t)) = Sum(failures[u], WindowTo(t))
    BY <1>3, <2>1, SumSame
  <2>3. Cardinality(Coming(u, t)') <= Cardinality(Coming(u, t))
        /\ Cardinality(Coming(u, t)') \in Nat
    BY <1>3, <1>5, FS_Subset, FS_CardinalityType
  <2> QED
    BY <1>3, <1>4, <2>2, <2>3, SettingsAssumption
<1> QED
  BY <1>7, <1>8

\* However many requests of a user run at once, the failures in a window stay
\* below the limit plus the number of requests.
THEOREM ThrottleOvershoot == Spec => []ThrottleBound
<1>1. Init => ThrottleInv
  <2> SUFFICES ASSUME Init, NEW u \in Users, NEW t \in Times
               PROVE  Sum(failures[u], WindowTo(t)) + Cardinality(Coming(u, t))
                        <= MaxAttempts - 1 + Cardinality(Requests)
    BY DEF ThrottleInv
  <2>1. TypeOK
    BY InitLocks DEF LockInv
  <2>2. Coming(u, t) = {}
    BY DEF Init, Coming, Passed
  <2>3. Cardinality(Coming(u, t)) = 0 /\ Cardinality(Requests) \in Nat
    BY <2>2, FS_EmptySet, ComingCount
  <2>4. \A s \in WindowTo(t) : failures[u][s] = 0
    BY DEF Init, WindowTo, FailureTimes
  <2>5. Sum(failures[u], WindowTo(t)) = 0
    BY <2>1, <2>4, WindowSums, SumZero
  <2> QED
    BY <2>3, <2>5, SettingsAssumption
<1>2. LockInv /\ ThrottleInv /\ [Next]_vars => ThrottleInv'
  BY ThrottleKinds, NoneComesBound, CheckBound, RecordBound DEF LockInv
<1>3. LockInv /\ ThrottleInv => ThrottleBound
  <2> SUFFICES ASSUME LockInv, ThrottleInv, NEW u \in Users, NEW t \in Times
               PROVE  Sum(failures[u], WindowTo(t)) <= MaxAttempts - 1 + Cardinality(Requests)
    BY DEF ThrottleBound, WindowTo, Sum
  <2>1. /\ Sum(failures[u], WindowTo(t)) \in Nat
        /\ Cardinality(Coming(u, t)) \in Nat /\ Cardinality(Requests) \in Nat
    BY WindowSums, ComingCount DEF LockInv
  <2>2. Sum(failures[u], WindowTo(t)) + Cardinality(Coming(u, t))
          <= MaxAttempts - 1 + Cardinality(Requests)
    BY DEF ThrottleInv
  <2> QED
    BY <2>1, <2>2, SettingsAssumption
<1>4. BooksInv => LockInv
  BY DEF BooksInv
<1> QED
  BY <1>1, <1>2, <1>3, <1>4, BooksHold, PTL DEF Spec

-----------------------------------------------------------------------------
(* Answers                                                                 *)

\* What a request may still tell about a printed code: how far its batch has
\* gone since the request began, and what a failed claim has learnt.
SeenOK(r) ==
  pc[r] # "done" /\ code[r] \in Codes =>
    /\ seen[r] = "active" => status[BatchOf[code[r]]] \in {"active", "void"}
    /\ seen[r] = "void" => status[BatchOf[code[r]]] = "void"
    /\ pc[r] \in {"row", "apply", "commit"} => seen[r] # "void"
    /\ pc[r] = "resolve" /\ seen[r] = "active" /\ redeemedBy[code[r]] = NoUser =>
         status[BatchOf[code[r]]] = "void"
    /\ pc[r] = "record" /\ seen[r] = "active" => status[BatchOf[code[r]]] = "void"

AnswersInv == \A r \in Requests : SeenOK(r)

\* A batch moves on, from generated by way of active to void, and a redeemed
\* code stays redeemed.
Onward ==
  /\ \A b \in Batches :
       status'[b] = status[b] \/ status[b] = "generated" \/ status'[b] = "void"
  /\ \A c \in Codes : redeemedBy'[c] = NoUser => redeemedBy[c] = NoUser

Untouched(r) == UNCHANGED <<pc[r], user[r], code[r], seen[r]>>

LEMMA AlwaysOnward ==
  ASSUME LockInv, [Next]_vars
  PROVE  Onward
<1> USE DEF LockInv, TypeOK
<1>1. CASE UNCHANGED <<status, redeemedBy>>
  BY <1>1 DEF Onward
<1>2. CASE \E r \in Requests : Commit(r)
  <2>1. PICK r \in Requests : Commit(r)
    BY <1>2
  <2>2. redeemedBy' = [redeemedBy EXCEPT ![code[r]] = user[r]] /\ user[r] \in Users
        /\ status' = status
    BY <2>1 DEF Commit, RequestShape
  <2> QED
    BY <2>2, CatalogueAssumption DEF Onward
<1>3. CASE \E b \in Batches : Activate(b) \/ Void(b)
  BY <1>3 DEF Onward, Activate, Void, SetStatus
<1>4. CASE \E r \in Requests : RecordFailure(r)
  BY <1>4, <1>1 DEF RecordFailure
<1>5. CASE (\E new \in Rules : EditRule(new)) \/ Tick \/ UNCHANGED vars
  BY <1>5, <1>1 DEF EditRule, Tick, vars
<1> QED
  BY <1>1, <1>2, <1>3, <1>4, <1>5 DEF Next, Handle, Start, CheckThrottle, Begin, LockWallet,
     ClaimSnapshot, ClaimRow, Apply, Resolve, Abort, tables

LEMMA OthersSeen ==
  ASSUME LockInv, Onward, NEW r \in Requests, SeenOK(r), Untouched(r)
  PROVE  SeenOK(r)'
<1> PICK c, b : c = code[r] /\ b = BatchOf[c]
  OBVIOUS
<1>1. c \in Codes => b \in Batches
  BY CatalogueAssumption
<1>2. c \in Codes =>
        /\ status'[b] = status[b] \/ status[b] = "generated" \/ status'[b] = "void"
        /\ redeemedBy'[c] = NoUser => redeemedBy[c] = NoUser
  BY <1>1 DEF Onward
<1> QED
  BY <1>2 DEF SeenOK, Untouched

\* A request that ends has nothing to tell; one that goes on by a step that
\* changes no table has to say what its new label means.
LEMMA AnsweredSeen ==
  ASSUME TypeOK, NEW r \in Requests, NEW a, Answer(r, a)
  PROVE  SeenOK(r)'
  BY DEF TypeOK, Answer, SeenOK

LEMMA GotoSeen ==
  ASSUME LockInv, NEW r \in Requests, SeenOK(r), NEW label, pc[r] # "done",
         Goto(r, label), UNCHANGED tables,
         label \in {"row", "apply", "commit"} =>
           pc[r] \in {"row", "apply", "commit"} \/ Claimable(code[r]),
         label = "resolve" =>
           (code[r] \in Codes => redeemedBy[code[r]] # NoUser \/ ~Claimable(code[r])),
         label = "record" =>
           pc[r] = "resolve" /\ (code[r] \in Codes => redeemedBy[code[r]] = NoUser)
  PROVE  SeenOK(r)'
<1>1. /\ pc'[r] = label /\ code' = code /\ seen' = seen /\ status' = status
      /\ redeemedBy' = redeemedBy
  BY DEF LockInv, TypeOK, Goto, tables
<1> QED
  BY <1>1 DEF SeenOK, Claimable

LEMMA HandleSeen ==
  ASSUME LockInv, NEW r \in Requests, SeenOK(r), Handle(r)
  PROVE  SeenOK(r)'
<1> USE DEF LockInv
<1>1. CASE CheckThrottle(r)
  BY <1>1, AnsweredSeen, GotoSeen DEF CheckThrottle
<1>2. CASE Begin(r) \/ LockWallet(r)
  BY <1>2, GotoSeen DEF Begin, LockWallet
<1>3. CASE ClaimSnapshot(r)
  BY <1>3, GotoSeen DEF ClaimSnapshot
<1>4. CASE ClaimRow(r)
  BY <1>4, GotoSeen DEF ClaimRow
<1>5. CASE Apply(r)
  <2>1. CASE Answer(r, "daily_limit")
    BY <2>1, AnsweredSeen
  <2>2. CASE pc' = [pc EXCEPT ![r] = "commit"] /\ UNCHANGED <<code, seen>>
    BY <1>5, <2>2 DEF Apply, tables, TypeOK, SeenOK
  <2> QED
    BY <1>5, <2>1, <2>2 DEF Apply
<1>6. CASE Commit(r)
  BY <1>6, AnsweredSeen DEF Commit
<1>7. CASE Resolve(r)
  BY <1>7, AnsweredSeen, GotoSeen DEF Resolve
<1>8. CASE RecordFailure(r)
  BY <1>8, AnsweredSeen DEF RecordFailure
<1> QED
  BY <1>1, <1>2, <1>3, <1>4, <1>5, <1>6, <1>7, <1>8 DEF Handle

\* A step of one request leaves the others where they are.
LEMMA HandleAlone ==
  ASSUME TypeOK, NEW r \in Requests, Handle(r) \/ Abort(r), NEW z \in Requests \ {r}
  PROVE  Untouched(z)
<1>1. ASSUME NEW a, Answer(r, a) PROVE Untouched(z)
  BY <1>1 DEF Answer, Untouched, TypeOK
<1>2. ASSUME NEW a, Goto(r, a) PROVE Untouched(z)
  BY <1>2 DEF Goto, Untouched, TypeOK
<1>3. CASE Apply(r)
  <2>1. CASE pc' = [pc EXCEPT ![r] = "commit"] /\ UNCHANGED <<user, code, seen>>
    BY <2>1 DEF Untouched, TypeOK
  <2> QED
    BY <1>3, <2>1, <1>1 DEF Apply
<1>4. CASE Commit(r)
  BY <1>4, <1>1 DEF Commit
<1> QED
  BY <1>1, <1>2, <1>3, <1>4 DEF Handle, Abort, CheckThrottle, Begin, LockWallet, ClaimSnapshot,
     ClaimRow, Resolve, RecordFailure

LEMMA NextAnswers == LockInv /\ AnswersInv /\ [Next]_vars => AnswersInv'
<1> SUFFICES ASSUME LockInv, AnswersInv, [Next]_vars, NEW z \in Requests PROVE SeenOK(z)'
  BY DEF AnswersInv
<1>1. SeenOK(z) /\ Onward
  BY AlwaysOnward DEF AnswersInv
<1>2. CASE Untouched(z)
  BY <1>1, <1>2, OthersSeen
<1>3. ASSUME NEW r \in Requests, NEW u \in Users, NEW c \in Codes \cup Forged, Start(r, u, c)
      PROVE  SeenOK(z)'
  <2>1. CASE z = r
    <3>1. /\ pc'[z] = "throttle" /\ code'[z] = c /\ status' = status
          /\ seen'[z] = IF c \in Codes THEN status[BatchOf[c]] ELSE "none"
      BY <1>3, <2>1 DEF Start, LockInv, TypeOK, tables
    <3> QED
      BY <3>1 DEF SeenOK
  <2>2. CASE z # r
    BY <1>2, <1>3, <2>2 DEF Start, Untouched, LockInv, TypeOK
  <2> QED
    BY <2>1, <2>2
<1>4. ASSUME NEW r \in Requests, Handle(r) \/ Abort(r) PROVE SeenOK(z)'
  <2>1. CASE z = r
    BY <1>1, <1>4, <2>1, HandleSeen, AnsweredSeen DEF Abort, LockInv
  <2>2. CASE z # r
    BY <1>2, <1>4, <2>2, HandleAlone DEF LockInv
  <2> QED
    BY <2>1, <2>2
<1>5. CASE \/ \E b \in Batches : Activate(b) \/ Void(b)
           \/ \E new \in Rules : EditRule(new)
           \/ Tick \/ UNCHANGED vars
  BY <1>2, <1>5 DEF Activate, Void, SetStatus, EditRule, Tick, vars, requestVars, Untouched
<1> QED
  BY <1>3, <1>4, <1>5 DEF Next

\* The step that answers a request is one of its own.
LEMMA WhoAnswers ==
  ASSUME LockInv, [Next]_vars, NEW r \in Requests, NEW a, Answered(r, a)
  PROVE  Handle(r) \/ Abort(r)
<1>1. ~ UNCHANGED pc /\ ~Untouched(r)
  BY DEF Answered, Untouched
<1>2. ASSUME NEW z \in Requests, Handle(z) \/ Abort(z) PROVE z = r
  BY <1>1, <1>2, HandleAlone DEF LockInv
<1>3. ASSUME NEW z \in Requests, NEW u \in Users, NEW c \in Codes \cup Forged, Start(z, u, c)
      PROVE  FALSE
  BY <1>3 DEF Start, Answered, LockInv, TypeOK
<1>4. ~ \/ \E b \in Batches : Activate(b) \/ Void(b)
        \/ \E new \in Rules : EditRule(new)
        \/ Tick \/ UNCHANGED vars
  BY <1>1 DEF Activate, Void, SetStatus, EditRule, Tick, vars, requestVars
<1> QED
  BY <1>2, <1>3, <1>4 DEF Next

\* Which step gives which answer.
LEMMA WhichAnswer ==
  ASSUME LockInv, NEW r \in Requests, NEW a, Answered(r, a), Handle(r) \/ Abort(r)
  PROVE  /\ a = "daily_limit" => Apply(r) /\ Cardinality(CountedToday(r)) > DailyLimit
         /\ a = "redeemed" => Commit(r)
         /\ a = "invalid" => RecordFailure(r)
         /\ a = "already_redeemed" => /\ Resolve(r) /\ code[r] \in Codes
                                      /\ redeemedBy[code[r]] \notin {NoUser, user[r]}
         /\ a = "replayed" => /\ Resolve(r) /\ code[r] \in Codes
                              /\ redeemedBy[code[r]] = user[r]
<1> USE DEF LockInv
<1>1. ASSUME NEW b, Answer(r, b) PROVE a = b
  BY <1>1 DEF Answer, Answered, TypeOK
<1>2. ASSUME NEW l, Goto(r, l), l # "done" PROVE FALSE
  BY <1>2 DEF Goto, Answered, TypeOK
<1>3. CASE Apply(r)
  <2>1. ~ (pc' = [pc EXCEPT ![r] = "commit"])
    BY DEF Answered, TypeOK
  <2> QED
    BY <1>1, <1>3, <2>1 DEF Apply
<1>4. CASE CheckThrottle(r)
  BY <1>1, <1>2, <1>4 DEF CheckThrottle
<1>5. CASE Begin(r) \/ LockWallet(r) \/ ClaimSnapshot(r) \/ ClaimRow(r)
  BY <1>2, <1>5 DEF Begin, LockWallet, ClaimSnapshot, ClaimRow
<1>6. CASE Commit(r)
  BY <1>1, <1>6 DEF Commit
<1>7. CASE Resolve(r)
  BY <1>1, <1>2, <1>7 DEF Resolve
<1>8. CASE RecordFailure(r) \/ Abort(r)
  BY <1>1, <1>8 DEF RecordFailure, Abort
<1> QED
  BY <1>3, <1>4, <1>5, <1>6, <1>7, <1>8 DEF Handle

\* What a request is told is true at the moment it is told, although the
\* batch may be voided and the code redeemed while the request runs.
THEOREM AnswersAreHonest == Spec => HonestAnswers
<1>1. Init => AnswersInv
  BY DEF Init, AnswersInv, SeenOK
<1>2. LockInv /\ AnswersInv /\ [Next]_vars => [\A r \in Requests : HonestAnswer(r)]_vars
  <2> SUFFICES ASSUME LockInv, AnswersInv, [Next]_vars, NEW r \in Requests PROVE HonestAnswer(r)
    OBVIOUS
  <2>1. ASSUME Answered(r, "invalid"), code[r] \in Codes, seen[r] = "active"
        PROVE  status[BatchOf[code[r]]] = "void"
    <3>1. pc[r] = "record"
      BY <2>1, WhoAnswers, WhichAnswer DEF RecordFailure
    <3> QED
      BY <2>1, <3>1 DEF AnswersInv, SeenOK
  <2>2. Answered(r, "already_redeemed") => redeemedBy[code[r]] \notin {NoUser, user[r]}
    BY WhoAnswers, WhichAnswer
  <2>3. Answered(r, "replayed") => redeemedBy[code[r]] = user[r] /\ redeemedBy' = redeemedBy
    BY WhoAnswers, WhichAnswer DEF Resolve, tables
  <2>4. ASSUME Answered(r, "redeemed") PROVE redeemedBy[code[r]] = NoUser /\ seen[r] # "void"
    <3>1. pc[r] = "commit"
      BY <2>4, WhoAnswers, WhichAnswer DEF Commit
    <3> QED
      BY <3>1 DEF AnswersInv, SeenOK, LockInv, RequestShape, HoldsRow
  <2> QED
    BY <2>1, <2>2, <2>3, <2>4 DEF HonestAnswer
<1> QED
  BY <1>1, <1>2, NextAnswers, LocksHold, PTL DEF Spec, HonestAnswers

\* Nobody is told of a daily limit by codes that are not committed.
THEOREM LimitEarned == Spec => DailyLimitIsEarned
<1>1. LockInv /\ [Next]_vars =>
        [\A r \in Requests : Answered(r, "daily_limit") =>
           Cardinality(RedeemedSince(user[r], StartOfLocalDay(now[r]))) >= DailyLimit]_vars
  <2> SUFFICES ASSUME LockInv, [Next]_vars, NEW r \in Requests, Answered(r, "daily_limit")
               PROVE  Cardinality(RedeemedSince(user[r], StartOfLocalDay(now[r]))) >= DailyLimit
    OBVIOUS
  <2>1. PICK S : S = RedeemedSince(user[r], StartOfLocalDay(now[r]))
    OBVIOUS
  <2>2. Cardinality(S \cup {code[r]}) > DailyLimit
    BY <2>1, WhoAnswers, WhichAnswer DEF CountedToday
  <2>3. IsFiniteSet(S)
    BY <2>1, OwnedFinite, FS_Subset DEF RedeemedSince
  <2>4. /\ Cardinality(S) \in Nat
        /\ Cardinality(S \cup {code[r]}) <= Cardinality(S) + 1
        /\ Cardinality(S \cup {code[r]}) \in Nat
    BY <2>3, FS_AddElement, FS_CardinalityType
  <2> QED
    BY <2>1, <2>2, <2>4, SettingsAssumption
<1> QED
  BY <1>1, LocksHold, PTL DEF Spec, DailyLimitIsEarned

-----------------------------------------------------------------------------
(* Theorems                                                                *)

\* No code ever pays twice, none pays without being redeemed, and the payment
\* goes to the user who redeemed it.
THEOREM CodesPayOnce == Spec => []PaidExactlyOnce
<1>1. BooksInv => PaidExactlyOnce
  BY DEF BooksInv, Books
<1> QED
  BY BooksHold, <1>1, PTL

\* The daily cap holds however the user's requests are interleaved and
\* however long they wait between reading the clock and committing.
THEOREM DailyCap == Spec => []DailyCapHolds
<1>1. BooksInv => DailyCapHolds
  BY DEF BooksInv, Books
<1> QED
  BY BooksHold, <1>1, PTL

\* Passport entries count exactly the codes redeemed.
THEOREM EntriesAreCodes == Spec => []EntriesMatchCodes
<1>1. BooksInv => EntriesMatchCodes
  BY DEF BooksInv, Books
<1> QED
  BY BooksHold, <1>1, PTL

\* The count passes through the threshold, and is announced, exactly once.
THEOREM UnlockOnce == Spec => []UnlockAnnouncedOnce
<1>1. BooksInv => UnlockAnnouncedOnce
  BY DEF BooksInv, Books
<1> QED
  BY BooksHold, <1>1, PTL

\* The ledger's unique key never has to refuse a redemption.
THEOREM NoConflict == Spec => []NoKeyConflict
<1>1. BooksInv => NoKeyConflict
  BY KeysAreFresh DEF NoKeyConflict
<1> QED
  BY BooksHold, <1>1, PTL

\* Redeemed codes keep their owner and moment, and ledger rows are kept.
THEOREM HistoryKept == Spec => HistoryIsPermanent
<1> DEFINE Kept ==
      /\ \A c \in Codes : redeemedBy[c] # NoUser =>
           redeemedBy'[c] = redeemedBy[c] /\ redeemedAt'[c] = redeemedAt[c]
      /\ ledger \subseteq ledger'
      /\ \A u \in Users : balance'[u] >= balance[u]
<1>1. ASSUME BooksInv, [Next]_vars PROVE Kept
  <2>1. balance \in [Users -> Nat]
    BY <1>1 DEF BooksInv, LockInv, TypeOK
  <2>2. CASE Quiet
    BY <2>1, <2>2 DEF Quiet
  <2>3. CASE \E r \in Requests : Apply(r) /\ pc'[r] = "commit"
    BY <2>1, <2>3 DEF Apply, tables
  <2>4. CASE \E r \in Requests : Commit(r)
    <3>1. PICK r \in Requests : Commit(r)
      BY <2>4
    <3>2. \A c \in Codes : redeemedBy[c] # NoUser =>
            redeemedBy'[c] = redeemedBy[c] /\ redeemedAt'[c] = redeemedAt[c]
      BY <1>1, <3>1, CommitOwnership DEF BooksInv
    <3>3. CoinsFor(code[r]) \in Nat /\ pay[r].bonus \in Nat
      BY <1>1, <3>1, CommitOwnership, CoinsType DEF BooksInv, LockInv, TypeOK
    <3>4. balance' = [balance EXCEPT ![user[r]] =
                        @ + CoinsFor(code[r]) + pay[r].bonus]
      BY <3>1 DEF Commit
    <3>5. \A u \in Users : balance'[u] >= balance[u]
      BY <2>1, <3>3, <3>4
    <3>6. ledger \subseteq ledger'
      BY <3>1 DEF Commit
    <3> QED
      BY <3>2, <3>5, <3>6
  <2> QED
    BY <1>1, <2>2, <2>3, <2>4, StepKinds DEF BooksInv
<1> QED
  BY <1>1, BooksHold, PTL DEF Spec, HistoryIsPermanent

-----------------------------------------------------------------------------
(* Refinement                                                              *)

LEMMA AccountsInit == Init => Accounts!Init
<1> SUFFICES ASSUME Init PROVE Accounts!Init
  OBVIOUS
<1>1. StartOfLocalDay(0) = 0
  BY SettingsAssumption DEF StartOfLocalDay
<1>2. [c \in Codes |-> StartOfLocalDay(redeemedAt[c])] = [c \in Codes |-> 0]
  BY <1>1 DEF Init
<1>3. {u \in Users : Recorded(FirstCodeKey(u))} = {}
  BY DEF Init, Recorded
<1>4. {x \in Users \X Cities : announced[x[1]][x[2]] > 0} = {}
  BY DEF Init
<1> QED
  BY <1>2, <1>3, <1>4 DEF Init, Accounts!Init

\* A commit is one abstract redemption, on the day the request began.
LEMMA CommitIsRedeem ==
  ASSUME BooksInv, NEW r \in Requests, Commit(r),
         NEW u, u = user[r], NEW c, c = code[r],
         NEW d, d = StartOfLocalDay(now[r]), NEW bonus, bonus = pay[r].bonus
  PROVE  Accounts!Redeem(u, c, d, bonus)
<1> DEFINE k == CityOf[c]
<1> USE DEF BooksInv
<1>0. \A S : Accounts!Cardinality(S) = Cardinality(S)
  BY DEF Accounts!Cardinality, Cardinality
<1>1. /\ u \in Users
      /\ c \in Codes
      /\ k \in Cities
      /\ redeemedBy[c] = NoUser
  BY CommitOwnership, CatalogueAssumption
<1>2. Cardinality(Accounts!OnDay(u, d)) < DailyLimit
  <2>1. now[r] \in Nat /\ \A x \in Codes : redeemedAt[x] \in Nat
    BY TimesType DEF LockInv, TypeOK
  <2>2. \A n \in Nat : StartOfLocalDay(n) <= n /\ StartOfLocalDay(n) \in Int
    BY SettingsAssumption DEF StartOfLocalDay
  <2>3. Accounts!OnDay(u, d) \cup {c} \subseteq CountedToday(r)
    <3> SUFFICES ASSUME NEW x \in Accounts!OnDay(u, d)
                 PROVE  x \in CountedToday(r)
      BY DEF CountedToday
    <3>1. /\ x \in Codes
          /\ redeemedBy[x] = u
          /\ StartOfLocalDay(redeemedAt[x]) = d
      BY DEF Accounts!OnDay
    <3>2. redeemedAt[x] >= d
      BY <2>1, <2>2, <3>1
    <3> QED
      BY <3>1, <3>2 DEF CountedToday, RedeemedSince, OwnedBy
  <2>4. IsFiniteSet(CountedToday(r))
    BY OwnedFinite, FS_Subset, FS_AddElement DEF CountedToday, RedeemedSince
  <2>5. Cardinality(CountedToday(r)) <= DailyLimit
    BY DEF PlanSound, Commit
  <2>6. c \notin Accounts!OnDay(u, d)
    BY <1>1, CatalogueAssumption DEF Accounts!OnDay
  <2>7. IsFiniteSet(Accounts!OnDay(u, d))
    BY <2>3, <2>4, FS_Subset
  <2>8. /\ Cardinality(Accounts!OnDay(u, d)) \in Nat
        /\ Cardinality(Accounts!OnDay(u, d) \cup {c}) =
             Cardinality(Accounts!OnDay(u, d)) + 1
    BY <2>6, <2>7, FS_AddElement, FS_CardinalityType
  <2>9. /\ Cardinality(Accounts!OnDay(u, d) \cup {c})
             <= Cardinality(CountedToday(r))
        /\ Cardinality(CountedToday(r)) \in Nat
    BY <2>3, <2>4, FS_Subset, FS_CardinalityType
  <2> QED
    BY <2>5, <2>8, <2>9, SettingsAssumption
<1>3. bonus > 0 => u \notin {v \in Users : Recorded(FirstCodeKey(v))}
  BY DEF PlanSound, Commit
<1>4. /\ redeemedBy' = [redeemedBy EXCEPT ![c] = u]
      /\ redeemedAt' = [redeemedAt EXCEPT ![c] = now[r]]
      /\ entries' = [entries EXCEPT ![u][k] = @ + 1]
      /\ balance' = [balance EXCEPT ![u] = @ + CoinsFor(c) + bonus]
      /\ announced' = [announced EXCEPT ![u][k] =
                         IF pay[r].unlocks THEN @ + 1 ELSE @]
      /\ ledger' = ledger \cup NewEntries(r)
  BY DEF Commit
<1>5. [x \in Codes |-> StartOfLocalDay(redeemedAt'[x])] =
        [[x \in Codes |-> StartOfLocalDay(redeemedAt[x])] EXCEPT ![c] = d]
  BY <1>1, <1>4 DEF LockInv, TypeOK
<1>6. balance' = [balance EXCEPT ![u] =
                    @ + [x \in Codes |-> CoinsFor(x)][c] + bonus]
  BY <1>1, <1>4
<1>7. {v \in Users : Recorded(FirstCodeKey(v))'} =
        IF bonus > 0
        THEN {v \in Users : Recorded(FirstCodeKey(v))} \cup {u}
        ELSE {v \in Users : Recorded(FirstCodeKey(v))}
  <2>1. \A v \in Users :
          (\E e \in NewEntries(r) : e.key = FirstCodeKey(v))
            <=> v = u /\ bonus > 0
    <3>1. \A v : /\ FirstCodeKey(v) # RedemptionKey(c)
                 /\ FirstCodeKey(v) = FirstCodeKey(u) <=> v = u
      BY DEF RedemptionKey, FirstCodeKey
    <3>2. \A e : e \in NewEntries(r) <=>
            \/ e = Entry(RedemptionKey(c), u, CoinsFor(c)) /\ e.amount > 0
            \/ e = Entry(FirstCodeKey(u), u, bonus) /\ e.amount > 0
      BY DEF NewEntries
    <3>3. \A key, amount : /\ Entry(key, u, amount).key = key
                           /\ Entry(key, u, amount).amount = amount
      BY DEF Entry
    <3> QED
      BY <3>1, <3>2, <3>3
  <2>2. \A v \in Users : Recorded(FirstCodeKey(v))' <=>
          Recorded(FirstCodeKey(v)) \/ (v = u /\ bonus > 0)
    BY <1>4, <2>1 DEF Recorded, FirstCodeKey
  <2> QED
    BY <1>1, <2>2
<1>8. {x \in Users \X Cities : announced'[x[1]][x[2]] > 0} =
        IF Cardinality(Accounts!Held(u, k)) + 1 = UnlockThreshold
        THEN {x \in Users \X Cities : announced[x[1]][x[2]] > 0} \cup {<<u, k>>}
        ELSE {x \in Users \X Cities : announced[x[1]][x[2]] > 0}
  <2>1. Accounts!Held(u, k) = OfCity(OwnedBy(u), k)
    BY DEF Accounts!Held, OfCity, OwnedBy
  <2>2. FlavorCodes(r) = OfCity(OwnedBy(u), k) \cup {c}
    BY <1>1 DEF FlavorCodes, OfCity
  <2>3. c \notin OfCity(OwnedBy(u), k) /\ IsFiniteSet(OfCity(OwnedBy(u), k))
    BY <1>1, CommitOwnership, OwnedFinite, FS_Subset DEF OfCity
  <2>4. Cardinality(FlavorCodes(r)) = Cardinality(Accounts!Held(u, k)) + 1
    BY <2>1, <2>2, <2>3, FS_AddElement
  <2>5. pay[r].unlocks <=> Cardinality(Accounts!Held(u, k)) + 1 = UnlockThreshold
    BY <2>4 DEF PlanSound, Commit
  <2>6. announced \in [Users -> [Cities -> Nat]]
    BY DEF LockInv, TypeOK
  <2>7. \A v \in Users, l \in Cities :
          announced'[v][l] = IF v = u /\ l = k /\ pay[r].unlocks
                             THEN announced[v][l] + 1 ELSE announced[v][l]
    BY <1>1, <1>4, <2>6
  <2>8. \A v \in Users, l \in Cities :
          announced'[v][l] > 0 <=>
            announced[v][l] > 0 \/ (v = u /\ l = k /\ pay[r].unlocks)
    BY <2>6, <2>7
  <2> QED
    BY <1>1, <2>5, <2>8
<1> QED
  BY <1>0, <1>1, <1>2, <1>3, <1>4, <1>5, <1>6, <1>7, <1>8 DEF Accounts!Redeem

LEMMA AccountsNext ==
  ASSUME BooksInv, [Next]_vars
  PROVE  [Accounts!Next]_(Accounts!accounts)
<1>1. CASE \/ Quiet
           \/ \E r \in Requests : Apply(r) /\ pc'[r] = "commit"
  <2>1. UNCHANGED <<redeemedBy, redeemedAt, ledger, entries, announced, balance>>
    BY <1>1 DEF Quiet, Apply, tables
  <2> QED
    BY <2>1 DEF Accounts!accounts, Recorded, FirstCodeKey
<1>2. CASE \E r \in Requests : Commit(r)
  <2>1. PICK r \in Requests : Commit(r)
    BY <1>2
  <2>2. \A u, c, d, bonus :
          u = user[r] /\ c = code[r] /\ d = StartOfLocalDay(now[r])
            /\ bonus = pay[r].bonus => Accounts!Redeem(u, c, d, bonus)
    BY <2>1, CommitIsRedeem
  <2>3. /\ user[r] \in Users /\ code[r] \in Codes
        /\ pay[r].bonus \in Bonuses
    BY <2>1, CommitOwnership DEF BooksInv, PlanSound, Commit
  <2>4. StartOfLocalDay(now[r]) \in Times
    <3>1. now[r] \in 0..MaxTime
      BY DEF BooksInv, LockInv, TypeOK, Times
    <3>2. now[r] % DayLength \in 0..now[r]
      BY <3>1, SettingsAssumption
    <3> QED
      BY <3>1, <3>2, SettingsAssumption DEF StartOfLocalDay, Times
  <2> QED
    BY <2>2, <2>3, <2>4 DEF Accounts!Next
<1> QED
  BY <1>1, <1>2, StepKinds DEF BooksInv

\* Any interleaving of requests, with any delays, aborts, lost replies and
\* retries, is a sequence of whole redemptions of the abstract accounts.
THEOREM RefinesAccounts == Spec => ImplementsAccounts
<1>1. BooksInv /\ [Next]_vars => [Accounts!Next]_(Accounts!accounts)
  BY AccountsNext
<1> QED
  BY <1>1, AccountsInit, BooksHold, PTL DEF Spec, ImplementsAccounts, Accounts!Spec

=============================================================================
