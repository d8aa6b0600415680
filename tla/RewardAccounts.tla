--------------------------- MODULE RewardAccounts ---------------------------
(***************************************************************************)
(* What redeeming promises, without requests, locks or statements: a code  *)
(* changes hands once, and in the same instant its owner gets one passport *)
(* entry, the code's coins, at most one welcome bonus ever, and the unlock *)
(* of a flavor when the entry is the one that reaches the threshold.       *)
(* Redemption implements this specification.                               *)
(***************************************************************************)
EXTENDS Integers, FiniteSets

CONSTANTS Users, Codes, Cities, Days, CityOf, Coins, Bonuses,
          DailyLimit, UnlockThreshold, NoUser

VARIABLES
  owner,     \* code -> the user who redeemed it
  day,       \* code -> the local day it was redeemed on
  entries,   \* user -> city -> entries in the city's draw
  coins,     \* user -> balance
  welcomed,  \* users who got the welcome bonus
  unlocked   \* <<user, city>>: flavors whose unlock was announced

accounts == <<owner, day, entries, coins, welcomed, unlocked>>

Held(u, k) == {c \in Codes : owner[c] = u /\ CityOf[c] = k}
OnDay(u, d) == {c \in Codes : owner[c] = u /\ day[c] = d}

Init ==
  /\ owner = [c \in Codes |-> NoUser]
  /\ day = [c \in Codes |-> 0]
  /\ entries = [u \in Users |-> [k \in Cities |-> 0]]
  /\ coins = [u \in Users |-> 0]
  /\ welcomed = {}
  /\ unlocked = {}

Redeem(u, c, d, bonus) ==
  /\ owner[c] = NoUser
  /\ Cardinality(OnDay(u, d)) < DailyLimit
  /\ bonus > 0 => u \notin welcomed
  /\ owner' = [owner EXCEPT ![c] = u]
  /\ day' = [day EXCEPT ![c] = d]
  /\ entries' = [entries EXCEPT ![u][CityOf[c]] = @ + 1]
  /\ coins' = [coins EXCEPT ![u] = @ + Coins[c] + bonus]
  /\ welcomed' = IF bonus > 0 THEN welcomed \cup {u} ELSE welcomed
  /\ unlocked' = IF Cardinality(Held(u, CityOf[c])) + 1 = UnlockThreshold
                 THEN unlocked \cup {<<u, CityOf[c]>>} ELSE unlocked

Next ==
  \E u \in Users, c \in Codes, d \in Days, bonus \in Bonuses :
    Redeem(u, c, d, bonus)

Spec == Init /\ [][Next]_accounts
=============================================================================
