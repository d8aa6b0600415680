SPECIFICATION MCSpec
CONSTANTS
  a = a
  b = b
  s1 = s1
  s2 = s2
  c1 = c1
  c2 = c2
  r1 = r1
  r2 = r2
  j1 = j1
  Nobody = Nobody
  Scenarios = {"first"}
  Users = {a, b}
  Calls = {s1, s2}
  RunIds = {r1, r2}
  AdjustIds = {j1}
  Inputs <- AllInputs
  Catalogue <- AllChallenges
  Achievements <- AllAchievements
  ReviewThreshold = 2
  CodeReward = 1
  UnlockThreshold = 1
  TeamLock = 2
  FirstBonus = 3
  LaterBonus = 1
  LaterWindow = 1
  RunTtl = 1
  RunTime = 1
  DayLength = 2
  Offset = 1
  FirstOfMonth = {0, 1}
  Start = 0
  MaxTime = 2
SYMMETRY Symmetry
INVARIANTS FirstCodeIsPaidOnce
