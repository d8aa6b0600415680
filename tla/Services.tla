------------------------------- MODULE Services -------------------------------
(***************************************************************************)
(* The services around the core.  They share no state that the properties  *)
(* below tell apart, so a behavior is one of them alone: `part' says which *)
(* takes the steps, and what is explored is their sum and not their        *)
(* product.  Variables and constants carry the letters of their component. *)
(***************************************************************************)
EXTENDS PureFunctions

CONSTANTS
  Actors,    \* what runs at once: processes, requests, commands
  None,
  prSkus, prQuota, prChunk, prUnit, prRequests, prMaxOperations,
  acPlayers, acNames, acKey, acReserved, acVenues, acAvatars, acReferralCodes,
  acAttempts, acUpdates, acCurrent, acOutdated,
  meFiles, meMaxBytes,
  liPhones, liLimit, liMaxMoment,
  boTTL, boLength, boMaxMoment,
  miRequests, miLimit, miWindow, miAllowedOrigins, miMaxMoment, miMaxPassed,
  baPerDay, baKeepDaysAll, baKeepDays, baMaxMoment,
  rePlayers, reKeep,
  stProcesses, stSpecs, stPeppers, stEnvironment, stMaxBatches,
  apSmoke, apOthers, apMaxAttempts, apCodeCoins, apBonus,
  Questions   \* by what they are about: what the pure functions are asked

VARIABLES
  part,
  prBatches, prEvents, prFiles, prHolder, prProc,
  acUsers, acRedeemed, acPickable, acCalls, acAnswers,
  meAssets, meUploads, meUrls,
  liNow, liRows, liSignIns, liWalk,
  boNow, boCache, boCalls,
  miNow, miTimes, miPassed, miAnswer,
  baNow, baDumps, baJob, baPulled, baVerified,
  stEnv, stBatches, stProc,
  reUsers, reWallets, reRedeemers, reOpen, reScript,
  apDeployment, apJar, apOtp, apUsers, apWalk,
  question

prVars == <<prBatches, prEvents, prFiles, prHolder, prProc>>
acVars == <<acUsers, acRedeemed, acPickable, acCalls, acAnswers>>
meVars == <<meAssets, meUploads, meUrls>>
liVars == <<liNow, liRows, liSignIns, liWalk>>
boVars == <<boNow, boCache, boCalls>>
miVars == <<miNow, miTimes, miPassed, miAnswer>>
baVars == <<baNow, baDumps, baJob, baPulled, baVerified>>
stVars == <<stEnv, stBatches, stProc>>
reVars == <<reUsers, reWallets, reRedeemers, reOpen, reScript>>
apVars == <<apDeployment, apJar, apOtp, apUsers, apWalk>>

-----------------------------------------------------------------------------
P == INSTANCE PrintRuns WITH
       Invocations <- Actors, Skus <- prSkus, Quota <- prQuota, Chunk <- prChunk,
       Unit <- prUnit, Requests <- prRequests, MaxOperations <- prMaxOperations,
       NoOne <- None,
       batches <- prBatches, events <- prEvents, files <- prFiles,
       holder <- prHolder, proc <- prProc

A == INSTANCE Accounts WITH
       Players <- acPlayers, Calls <- Actors, Names <- acNames, Key <- acKey,
       Reserved <- acReserved, Venues <- acVenues, Avatars <- acAvatars,
       ReferralCodes <- acReferralCodes, Attempts <- acAttempts, Updates <- acUpdates,
       Current <- acCurrent, Outdated <- acOutdated,
       users <- acUsers, redeemed <- acRedeemed, pickable <- acPickable,
       calls <- acCalls, answers <- acAnswers

M == INSTANCE Media WITH
       Files <- meFiles, Uploads <- Actors, MaxBytes <- meMaxBytes,
       assets <- meAssets, uploads <- meUploads, urls <- meUrls

L == INSTANCE Lists WITH
       Phones <- liPhones, SignIns <- Actors, Limit <- liLimit,
       MaxMoment <- liMaxMoment, Top <- None,
       now <- liNow, rows <- liRows, signins <- liSignIns, walk <- liWalk

B == INSTANCE Leaderboards WITH
       Calls <- Actors, TTL <- boTTL, Length <- boLength, MaxMoment <- boMaxMoment,
       now <- boNow, cache <- boCache, calls <- boCalls

W == INSTANCE Middleware WITH
       Clients <- Actors, Requests <- miRequests, Limit <- miLimit, Window <- miWindow,
       AllowedOrigins <- miAllowedOrigins,
       MaxMoment <- miMaxMoment, MaxPassed <- miMaxPassed,
       now <- miNow, times <- miTimes, passed <- miPassed, answer <- miAnswer

K == INSTANCE Backups WITH
       PerDay <- baPerDay, KeepDaysAll <- baKeepDaysAll, KeepDays <- baKeepDays,
       MaxMoment <- baMaxMoment, now <- baNow, dumps <- baDumps,
       job <- baJob, pulled <- baPulled, verified <- baVerified

R == INSTANCE Reset WITH
       Players <- rePlayers, Keep <- reKeep,
       users <- reUsers, wallets <- reWallets, redeemers <- reRedeemers,
       open <- reOpen, script <- reScript

S == INSTANCE Startup WITH
       Processes <- stProcesses, Specs <- stSpecs, Peppers <- stPeppers,
       Environment <- stEnvironment, MaxBatches <- stMaxBatches,
       env <- stEnv, batches <- stBatches, proc <- stProc

I == INSTANCE Api WITH
       Smoke <- apSmoke, Others <- apOthers, MaxAttempts <- apMaxAttempts,
       CodeCoins <- apCodeCoins, Bonus <- apBonus,
       deployment <- apDeployment, jar <- apJar, otp <- apOtp, users <- apUsers, walk <- apWalk

ASSUME ServicesAssumption ==
  /\ P!PrintRunsAssumption /\ A!AccountsAssumption /\ M!MediaAssumption
  /\ L!ListsAssumption /\ B!LeaderboardsAssumption /\ W!MiddlewareAssumption
  /\ K!BackupsAssumption /\ R!ResetAssumption /\ S!StartupAssumption /\ I!ApiAssumption

ASSUME QuestionsAssumption ==
  \A about \in DOMAIN Questions : \A q \in Questions[about] : Askable(q)

-----------------------------------------------------------------------------
(* The composition                                                         *)

Parts == {"print runs", "accounts", "media", "lists", "leaderboards", "middleware",
          "backups", "reset", "startup", "api", "functions"}

Init ==
  /\ part \in Parts
  /\ question = None
  /\ P!Init /\ A!Init /\ M!Init /\ L!Init /\ B!Init /\ W!Init /\ K!Init /\ R!Init /\ S!Init
  /\ I!Init

components == <<prVars, acVars, meVars, liVars, boVars, miVars, baVars, reVars, stVars, apVars>>

\* The pure functions have no state: one question is put to them.
Ask ==
  /\ part = "functions" /\ question = None
  /\ \E about \in DOMAIN Questions : question' \in Questions[about]
  /\ UNCHANGED <<part, components>>

Next ==
  \/ Ask
  \/ /\ part = "print runs" /\ P!Next
     /\ UNCHANGED <<part, question, apVars, acVars, meVars, liVars, boVars, miVars, baVars, reVars, stVars>>
  \/ /\ part = "accounts" /\ A!Next
     /\ UNCHANGED <<part, question, apVars, prVars, meVars, liVars, boVars, miVars, baVars, reVars, stVars>>
  \/ /\ part = "media" /\ M!Next
     /\ UNCHANGED <<part, question, apVars, prVars, acVars, liVars, boVars, miVars, baVars, reVars, stVars>>
  \/ /\ part = "lists" /\ L!Next
     /\ UNCHANGED <<part, question, apVars, prVars, acVars, meVars, boVars, miVars, baVars, reVars, stVars>>
  \/ /\ part = "leaderboards" /\ B!Next
     /\ UNCHANGED <<part, question, apVars, prVars, acVars, meVars, liVars, miVars, baVars, reVars, stVars>>
  \/ /\ part = "middleware" /\ W!Next
     /\ UNCHANGED <<part, question, apVars, prVars, acVars, meVars, liVars, boVars, baVars, reVars, stVars>>
  \/ /\ part = "backups" /\ K!Next
     /\ UNCHANGED <<part, question, apVars, prVars, acVars, meVars, liVars, boVars, miVars, reVars, stVars>>
  \/ /\ part = "reset" /\ R!Next
     /\ UNCHANGED <<part, question, apVars, prVars, acVars, meVars, liVars, boVars, miVars, baVars, stVars>>
  \/ /\ part = "startup" /\ S!Next
     /\ UNCHANGED <<part, question, apVars, prVars, acVars, meVars, liVars, boVars, miVars, baVars, reVars>>
  \/ /\ part = "api" /\ I!Next
     /\ UNCHANGED <<part, question, prVars, acVars, meVars, liVars, boVars, miVars, baVars, reVars, stVars>>

vars == <<part, question, prVars, acVars, meVars, liVars, boVars, miVars, baVars, reVars,
          stVars, apVars>>

Spec == Init /\ [][Next]_vars

-----------------------------------------------------------------------------
(* Properties                                                              *)

\* Every component's state keeps its types.
TypeOK ==
  /\ P!TypeOK /\ A!TypeOK /\ M!TypeOK /\ L!TypeOK /\ B!TypeOK
  /\ W!TypeOK /\ K!TypeOK /\ R!TypeOK /\ S!TypeOK /\ I!TypeOK

\* No print run takes a flavor past its quota, whatever run before it
\* failed, was voided or killed (print_run.py's lock and issued_per_city).
QuotaHolds == P!QuotaHolds

\* A print run that gave up leaves no batch that could be activated and no
\* file of codes, and touched nothing of another run (_generate_all).
RollbackIsExact == P!RollbackIsExact

\* A URL, a referral code or a nickname that an answer has given stands: the
\* code leads to that player and nobody else, the URL to that file, and
\* nobody else has the name, however many requests allocated them at once.
PromisesStand == A!AnsweredCodesStand /\ A!NamesAreUnique /\ M!UrlsStand

\* A walk through the pages of users shows everyone once although people
\* sign in meanwhile, and nobody gets two accounts by signing in twice.
PagesAreExact == L!PagesAreExact /\ L!OneAccountPerNumber

\* A leaderboard served from the cache is never older than its TTL and never
\* of a period that ended before, whichever fill came last
\* (application/leaderboards.py).
BoardsAreFresh == B!BoardsAreFresh

\* No client passes the limiter more often than the limit within a window.
WindowBound == W!WindowBound

\* Whoever answers in the chain, the browser can read the answer.  What boots
\* and says it is ready has the formats and the pepper of the printed codes.
\* Requests are refused in the order the smoke script and the gates rely on.
GuardsHold == W!ChainHolds /\ S!BootIsGuarded /\ S!ReadyIsTrue /\ S!StampsAgree
              /\ I!SmokeTellsTheTruth /\ I!ScansNeedAProfile

\* The operators' scripts delete nothing that is still needed: no dump of
\* the retention window, no player who has redeemed a code.
OperatorsLoseNothing == K!BackupsAreKept /\ R!RedeemersSurvive

\* The pure functions do what their documents say, whatever they are asked
\* (PureFunctions!Exact).
FunctionsAreExact == question # None => Exact(question)
=============================================================================
