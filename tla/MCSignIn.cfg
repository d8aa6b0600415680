\* One phone, two concurrent calls, four codes, two sessions, two moments.
SPECIFICATION Spec
CONSTANTS
  Phones = {p}
  Challenges = {c1, c2, c3, c4}
  Tokens = {t1, t2}
  Calls = {r1, r2}
  Ttl = 1
  SessionTtl = 1
  Cooldown = 1
  Day = 1
  DailyLimit = 2
  MaxAttempts = 1
  MaxTime = 1
  Wrong = Wrong
  NoPhone = NoPhone
  NoChallenge = NoChallenge
  NoToken = NoToken
SYMMETRY Symmetry
INVARIANTS
  TypeOK
  SessionsAreEarned
  StoredWasDelivered
  LimitsOvershootByCalls
PROPERTIES
  RefusedForGood
