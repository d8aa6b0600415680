---------------------------- MODULE PureFunctions ----------------------------
(***************************************************************************)
(* The functions of the program that keep no state, side by side: what     *)
(* each may be asked and what its answers promise.  Constants carry the    *)
(* letters of their component.                                             *)
(***************************************************************************)
EXTENDS Integers, Sequences, FiniteSets

CONSTANTS
  rpCooldown, rpDailyLimit, rpWindow, rpMaxAttempts, rpRedeemLimit, rpDay,
  rpThreshold, rpTeamLock,
  spSkus, spUnit,
  boTopN,
  coFormats, coCityIndex, coLetterO, coSeparators, coHash, coScheme, coSlash,
  drSpace,
  phLength, phPlus, phTranslation, phOtherDigits,
  lpTexts

RP == INSTANCE Replies WITH
       Cooldown <- rpCooldown, DailyLimit <- rpDailyLimit, Window <- rpWindow,
       MaxAttempts <- rpMaxAttempts, RedeemLimit <- rpRedeemLimit, Day <- rpDay,
       Threshold <- rpThreshold, TeamLock <- rpTeamLock

SP == INSTANCE Allocation WITH Skus <- spSkus, Unit <- spUnit

BO == INSTANCE Rankings WITH TopN <- boTopN

CO == INSTANCE Codes WITH
        FORMATS <- coFormats, CityIndex <- coCityIndex, LetterO <- coLetterO,
        Separators <- coSeparators, Hash <- coHash, Scheme <- coScheme, Slash <- coSlash

DR == INSTANCE Draw WITH Space <- drSpace

PH == INSTANCE Phones WITH
        Length <- phLength, Plus <- phPlus, Translation <- phTranslation,
        OtherDigits <- phOtherDigits

LP == INSTANCE LegalPages WITH Texts <- lpTexts
SE == INSTANCE Settings
SC == INSTANCE ServerCheck

ASSUME FunctionsAssumption ==
  /\ RP!RepliesAssumption /\ SP!AllocationAssumption /\ CO!FormatsAreValid
  /\ CO!MarksAreApart /\ DR!DrawAssumption /\ PH!PhonesAssumption /\ BO!RankingsAssumption

\* What the functions may be asked: any arguments that their callers have.
Askable(q) ==
  \/ q.about = "code" /\ CO!Generated(q.city, q.body, q.format)
  \/ q.about = "split" /\ q.k \in Nat /\ q.weights \in [SP!Flavors -> Int]
     /\ SP!ValidWeights(q.weights)
  \/ q.about = "draw" /\ DR!Drawable(q.weights, q.count, q.values)
  \/ q.about = "board" /\ q.since \in Nat /\ BO!AreRuns(q.runs)
  \/ q.about = "page" /\ q.lines \in Seq(LP!Lines)
  \/ q.about = "request" /\ q.r \in RP!CodeRequests
  \/ q.about = "redeem" /\ q.r \in RP!Scans
  \/ q.about = "finish" /\ q.r \in RP!FinishQuestions
  \/ q.about = "team" /\ q.r \in RP!TeamChoices
  \/ q.about = "claim" /\ q.r \in RP!Claims
  \/ q.about = "phone" /\ q.raw \in Seq(Int) /\ q.filler \in Int \ PH!Meant
  \/ q.about = "settings"
  \/ q.about = "server" /\ q.cut \in 0..Len(SC!Sections)

\* The pure functions do what their documents say: a slip in a printed code
\* is noticed, every spelling of one agrees, a run's codes are split fairly,
\* a draw is proportional and without repetition, a player's place agrees with
\* the board, a legal page is complete; a refusal tells nobody's secret, and
\* what it does tell, when to try again or what is missing, is so; a phone
\* number has one identifier; what boots can sign people in; a server check
\* that exits with 0 saw a server that works.
Exact(q) ==
  /\ q.about = "code" => /\ CO!SlipsAreCaught(q.city, q.body, q.format)
                         /\ CO!SpellingsAgree(q.city, q.body, q.format)
  /\ q.about = "split" => SP!SplitIsFair(q.k, q.weights)
  /\ q.about = "draw" => /\ DR!ChancesAreProportional(q.weights)
                         /\ DR!WinnersAreDistinct(q.weights, q.count, q.values)
  /\ q.about = "board" => BO!PlacesAgree(q.runs, q.since)
  /\ q.about = "page" => LP!NothingIsLost(q.lines)
  /\ q.about = "request" => RP!AccountsLookAlike(q.r) /\ RP!WaitingForACodeHelps(q.r)
  /\ q.about = "redeem" => RP!CodesLookAlike(q.r) /\ RP!WaitingToRedeemHelps(q.r)
  /\ q.about = "finish" => RP!RunsLookAlike(q.r)
  /\ q.about = "team" => RP!TeamPageAgrees(q.r)
  /\ q.about = "claim" => RP!ListAgrees(q.r)
  /\ q.about = "phone" => PH!SpellingsAreOne(q.raw) /\ PH!KeyboardsAgree(q.raw, q.filler)
  /\ q.about = "settings" => /\ SE!CookiesAreKept(q.s) /\ SE!ProductionIsStrict(q.s)
                             /\ SE!TestNumbersAreAskedFor(q.s)
  /\ q.about = "server" => SC!VerdictIsSound(q.s, q.cut) /\ SC!HealthyPasses(q.s, q.cut)
=============================================================================
