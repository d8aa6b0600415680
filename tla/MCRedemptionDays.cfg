\* One user and two concurrent requests over two local days, a throttle window
\* of two ticks, and an admin who edits the welcome bonus meanwhile.
SPECIFICATION Spec
CONSTANTS
  Users = {u1}
  c1 = c1
  c2 = c2
  c3 = c3
  Codes = {c1, c2}
  Forged = {f}
  b1 = b1
  b2 = b2
  Batches = {b1}
  k1 = k1
  k2 = k2
  Cities = {k1}
  Requests = {r1, r2}
  BatchOf <- OneBatch
  CityOf <- OneFlavor
  CoinsOf <- PaidAndUnpaid
  DailyLimit = 1
  UnlockThreshold = 2
  MaxAttempts = 2
  Window = 1
  DayLength = 2
  MaxTime = 2
  PoolSize = 2
  Rules <- SwitchedRules
  DefaultBonus = 1
  NoUser = NoUser
  NoCode = NoCode
  NoRule = NoRule
SYMMETRY Symmetry
INVARIANTS
  DailyCapHolds
  ThrottleBound
  NoKeyConflict
PROPERTIES
  DailyLimitIsEarned
