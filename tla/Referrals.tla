----------------------------- MODULE Referrals -----------------------------
(***************************************************************************)
(* Referral rules (app/domain/referrals.py).  A binding is a row [invitee, *)
(* inviter], a redeemed code a row [id, user, flavor, at].                 *)
(***************************************************************************)
EXTENDS Integers

CONSTANTS
  FirstBonus,   \* FIRST_CODE_BONUS_COINS
  LaterBonus,   \* LATER_CODE_BONUS_COINS
  LaterWindow   \* LATER_CODE_WINDOW

ASSUME ReferralsAssumption ==
  /\ FirstBonus \in Nat \ {0}
  /\ LaterBonus \in Nat \ {0}
  /\ LaterWindow \in Nat

FirstKey(invitee) == <<"referral:first", invitee>>
LaterKey(id) == <<"referral:code", id>>

BindingOf(referrals, u) == {b \in referrals : b.invitee = u}

\* check_can_bind
CanBind(referrals, invitee, inviter, redeemed) ==
  /\ inviter # invitee
  /\ BindingOf(referrals, invitee) = {}
  /\ redeemed = {}

\* The order of list_redeemed.
Earliest(redeemed) ==
  CHOOSE c \in redeemed : \A d \in redeemed : c.at <= d.at

InWindow(redeemed) ==
  {c \in redeemed \ {Earliest(redeemed)} :
     c.at <= Earliest(redeemed).at + LaterWindow}

\* settle_payouts.  The code a payout is for is history: the program keeps it
\* only in the key, and only for later codes.
Owed(invitee, redeemed) ==
  {[key |-> FirstKey(invitee), amount |-> FirstBonus,
    code |-> Earliest(redeemed).id]} \cup
  {[key |-> LaterKey(c.id), amount |-> LaterBonus, code |-> c.id] :
     c \in InWindow(redeemed)}

\* Mutant: later codes pay while the mission is still pending.
Payouts_Pending(invitee, missionComplete, redeemed) ==
  IF redeemed = {} THEN {}
  ELSE {p \in Owed(invitee, redeemed) :
          missionComplete \/ p.key # FirstKey(invitee)}

Payouts(invitee, missionComplete, redeemed) ==
  IF missionComplete /\ redeemed # {} THEN Owed(invitee, redeemed) ELSE {}
=============================================================================
