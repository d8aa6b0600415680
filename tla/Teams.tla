------------------------------- MODULE Teams -------------------------------
(***************************************************************************)
(* Flavor teams (app/domain/teams.py).  A membership is a row [user,       *)
(* switchNo, flavor, joinedAt]; the current one has the highest switchNo.  *)
(* A redeemed code is a row [id, user, flavor, at].                        *)
(***************************************************************************)
EXTENDS Integers, FiniteSets

CONSTANTS
  UnlockThreshold,  \* codes of a flavor that unlock its team
  TeamLock          \* from joining a team to the next switch

ASSUME TeamsAssumption == UnlockThreshold \in Nat \ {0} /\ TeamLock \in Nat

CodesOf(codes, u) == {c \in codes : c.user = u}
FlavorCodes(codes, u, flavor) ==
  Cardinality({c \in CodesOf(codes, u) : c.flavor = flavor})
FlavorsSince(codes, u, since) ==
  Cardinality({c.flavor : c \in {d \in CodesOf(codes, u) : d.at >= since}})

\* current_team_membership: the row, or nothing, as a set.
Current(teams, u) ==
  {m \in teams :
     /\ m.user = u
     /\ \A n \in teams : n.user = u => n.switchNo <= m.switchNo}

\* Mutant: the lock is checked only when leaving the first team.
Locked_Once(current, now) ==
  \E m \in current : m.switchNo = 0 /\ now < m.joinedAt + TeamLock

Locked(current, now) == \E m \in current : now < m.joinedAt + TeamLock

\* change_team: the membership a join or a switch creates, or nothing.
Membership(current, u, target, targetCodes, now) ==
  IF \/ \E m \in current : m.flavor = target
     \/ targetCodes < UnlockThreshold
     \/ Locked(current, now)
  THEN {}
  ELSE {[user |-> u, flavor |-> target, joinedAt |-> now,
         switchNo |-> IF current = {} THEN 0
                      ELSE (CHOOSE m \in current : TRUE).switchNo + 1]}
=============================================================================
