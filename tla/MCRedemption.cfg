\* Two users, two concurrent requests, three codes over two batches.
SPECIFICATION Spec
CONSTANTS
  Users = {u1, u2}
  c1 = c1
  c2 = c2
  c3 = c3
  Codes = {c1, c2, c3}
  Forged = {}
  b1 = b1
  b2 = b2
  Batches = {b1, b2}
  k1 = k1
  k2 = k2
  Cities = {k1}
  Requests = {r1, r2}
  BatchOf <- SplitBatches
  CityOf <- OneFlavor
  CoinsOf <- PaidAndUnpaid
  DailyLimit = 2
  UnlockThreshold = 2
  MaxAttempts = 1
  Window = 0
  DayLength = 1
  MaxTime = 0
  PoolSize = 2
  Rules <- NoRules
  DefaultBonus = 1
  NoUser = NoUser
  NoCode = NoCode
  NoRule = NoRule
SYMMETRY Symmetry
INVARIANTS
  TypeOK
  PaidExactlyOnce
  BalanceIsLedgerSum
  EntriesMatchCodes
  UnlockAnnouncedOnce
PROPERTIES
  HonestAnswers
  HistoryIsPermanent
  ImplementsAccounts
