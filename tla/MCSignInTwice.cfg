\* Two concurrent requests for one number.
SPECIFICATION Spec
CONSTANTS
  Phones = {p}
  Challenges = {c1, c2}
  Tokens = {t1}
  Calls = {r1, r2}
  Ttl = 1
  SessionTtl = 1
  Cooldown = 1
  Day = 1
  DailyLimit = 2
  MaxAttempts = 1
  MaxTime = 1
  Wrong = Wrong
  NoPhone = NoPhone
  NoChallenge = NoChallenge
  NoToken = NoToken
SYMMETRY Symmetry
INVARIANTS
  CooldownHolds
