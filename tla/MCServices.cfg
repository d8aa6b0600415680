SPECIFICATION MCSpec
CONSTANTS
  Actors = {One, Two}
  None = NoOne
  prSkus <- Skus
  prQuota = 2
  prChunk = 2
  prUnit = 2
  prRequests <- PrintRequests
  prMaxOperations = 1
  acPlayers = {Ann, Bob}
  acNames = {"Nik", "NIK", "Admin"}
  acKey <- NameKeys
  acReserved = {"Admin"}
  acVenues = {"bar"}
  acAvatars = {"fox"}
  acReferralCodes = {"c1", "c2"}
  acAttempts = 2
  acUpdates <- ProfileUpdates
  acCurrent = "new"
  acOutdated = "old"
  meFiles <- Images
  meMaxBytes = 2
  liPhones = {"n1", "n2", "n3"}
  liLimit = 1
  liMaxMoment = 2
  boTopN = 2
  boTTL = 2
  boLength <- BoardLength
  boMaxMoment = 3
  miRequests <- HttpRequests
  miLimit = 2
  miWindow = 2
  miAllowedOrigins = {"front"}
  miMaxMoment = 4
  miMaxPassed = 4
  baPerDay = 2
  baKeepDaysAll = 1
  baKeepDays = 2
  baMaxMoment = 5
  rePlayers = {Ann, Bob, "keeper"}
  reKeep = {"keeper"}
  stProcesses = {"web"}
  stSpecs = {Red, Blue}
  stPeppers = {Salt, Sand}
  stEnvironment = "production"
  stMaxBatches = 2
  apSmoke = "smoke"
  apOthers = {"you"}
  apMaxAttempts = 2
  apCodeCoins = 10
  apBonus = 50
  rpCooldown = 2
  rpDailyLimit = 1
  rpWindow = 2
  rpMaxAttempts = 2
  rpRedeemLimit = 2
  rpDay = 8
  rpThreshold = 2
  rpTeamLock = 4
  spSkus <- Flavors
  spUnit = 4
  coFormats <- CodeFormats
  coCityIndex <- Cities
  coLetterO = 100
  coSeparators <- Dashes
  coHash <- Hash
  coScheme <- Scheme
  coSlash <- Slash
  drSpace = 16
  phLength = 2
  phPlus = 10
  phTranslation <- Persian
  phOtherDigits <- Foreign
  lpTexts <- Words
  Questions <- MCQuestions
  Red = Red
  Salt = Salt
SYMMETRY Symmetry
INVARIANTS
  TypeOK
  QuotaHolds
  RollbackIsExact
  PromisesStand
  PagesAreExact
  BoardsAreFresh
  WindowBound
  
  OperatorsLoseNothing
  FunctionsAreExact
CHECK_DEADLOCK FALSE
