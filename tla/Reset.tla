---------------------------------- MODULE Reset ----------------------------------
(***************************************************************************)
(* scripts/reset_test_users.py on launch day, while players sign up and    *)
(* redeem.  The deletion is one transaction of several statements, each    *)
(* of which sees what was committed before it (READ COMMITTED):            *)
(*                                                                         *)
(*   codes -> accounts -> keepers -> delete -> count -> done | refused     *)
(*                                                                         *)
(* A redemption inserts the player's wallet, which holds on to the user's  *)
(* row, and commits with the code redeemed.                                *)
(***************************************************************************)
EXTENDS Integers, FiniteSets

CONSTANTS
  Players,
  Keep       \* players the --keep-suffix options name

ResetAssumption == Keep \subseteq Players /\ Keep # {}

VARIABLES
  users, wallets, redeemers,   \* committed
  open,     \* players with a redemption under way, their wallet row inserted
  script    \* [at, keepers, deleted]

vars == <<users, wallets, redeemers, open, script>>

Go(at) == script' = [script EXCEPT !.at = at]

\* Rows the script has deleted and not yet committed.
Deleted == script.deleted

SignUp(p) ==
  /\ p \notin users
  /\ users' = users \cup {p}
  /\ UNCHANGED <<wallets, redeemers, open, script>>

\* The wallet's foreign key waits for a deletion of its user that is under
\* way, and fails once it has committed.
OpenWallet(p) ==
  /\ p \in users \ (Deleted \cup open)
  /\ open' = open \cup {p}
  /\ UNCHANGED <<users, wallets, redeemers, script>>

\* The redemption commits, or is refused and leaves nothing.
Redeem(p) ==
  /\ p \in open
  /\ \/ wallets' = wallets \cup {p} /\ redeemers' = redeemers \cup {p}
     \/ UNCHANGED <<wallets, redeemers>>
  /\ open' = open \ {p}
  /\ UNCHANGED <<users, script>>

-----------------------------------------------------------------------------
Refuse == script' = [at |-> "refused", keepers |-> {}, deleted |-> {}]

\* check_safe_to_reset.
CheckCodes ==
  /\ script.at \in {"codes", "refused"}
  /\ IF redeemers = {} THEN Go("accounts") ELSE Refuse
  /\ UNCHANGED <<users, wallets, redeemers, open>>

CheckAccounts ==
  /\ script.at = "accounts"
  /\ IF wallets = {} THEN Go("keepers") ELSE Refuse
  /\ UNCHANGED <<users, wallets, redeemers, open>>

\* resolve_keepers: each suffix names exactly one user.
ResolveKeepers ==
  /\ script.at = "keepers"
  /\ IF Keep \subseteq users THEN script' = [script EXCEPT !.at = "delete", !.keepers = Keep]
     ELSE Refuse
  /\ UNCHANGED <<users, wallets, redeemers, open>>

\* Mutant: the wallets' foreign key cascades.
Restricted_Cascade(p) == FALSE
\* ON DELETE RESTRICT.
Restricted(p) == p \in wallets

\* The statement waits for rows a redemption holds on to.
Delete ==
  LET doomed == users \ script.keepers IN
  /\ script.at = "delete" /\ doomed \cap open = {}
  /\ IF \E p \in doomed : Restricted(p) THEN Refuse
     ELSE script' = [script EXCEPT !.at = "count", !.deleted = doomed]
  /\ UNCHANGED <<users, wallets, redeemers, open>>

\* The count of who is left, and the commit; or everything rolls back.
Count ==
  /\ script.at = "count"
  /\ IF users \ Deleted = script.keepers
     THEN /\ users' = users \ Deleted
          /\ script' = [at |-> "done", keepers |-> {}, deleted |-> {}]
     ELSE Refuse /\ UNCHANGED users
  /\ UNCHANGED <<wallets, redeemers, open>>

Init ==
  /\ users = {} /\ wallets = {} /\ redeemers = {} /\ open = {}
  /\ script = [at |-> "codes", keepers |-> {}, deleted |-> {}]

Next ==
  \/ \E p \in Players : SignUp(p) \/ OpenWallet(p) \/ Redeem(p)
  \/ CheckCodes \/ CheckAccounts \/ ResolveKeepers \/ Delete \/ Count

Spec == Init /\ [][Next]_vars

-----------------------------------------------------------------------------
TypeOK ==
  /\ users \subseteq Players /\ wallets \subseteq Players /\ open \subseteq Players
  /\ script.at \in {"codes", "accounts", "keepers", "delete", "count", "done", "refused"}

\* "A redeemed code must never lose its redeemer to a reset", nor a wallet
\* its owner, although the checks are made by earlier statements; and a
\* redemption that is under way never finds its player gone.
RedeemersSurvive == redeemers \cup wallets \cup open \subseteq users \ Deleted
=============================================================================
