\* Two requests that share one connection; every request is answered.
SPECIFICATION FairSpec
CONSTANTS
  Users = {u1, u2}
  c1 = c1
  c2 = c2
  c3 = c3
  Codes = {c1, c2}
  Forged = {f}
  b1 = b1
  b2 = b2
  Batches = {b1}
  k1 = k1
  k2 = k2
  Cities = {k1}
  Requests = {r1, r2}
  BatchOf <- OneBatch
  CityOf <- OneFlavor
  CoinsOf <- PaidAndUnpaid
  DailyLimit = 2
  UnlockThreshold = 2
  MaxAttempts = 1
  Window = 0
  DayLength = 1
  MaxTime = 0
  PoolSize = 1
  Rules <- NoRules
  DefaultBonus = 1
  NoUser = NoUser
  NoCode = NoCode
  NoRule = NoRule
PROPERTIES
  EveryRequestAnswered
