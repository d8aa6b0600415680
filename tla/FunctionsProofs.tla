--------------------------- MODULE FunctionsProofs ---------------------------
(***************************************************************************)
(* Theorems about the pure functions, for every question that their        *)
(* callers may put to them and every setting.                              *)
(*                                                                         *)
(* A function that goes through a sequence is a recursive function or a    *)
(* fold.  What one computes follows without induction over data: two such  *)
(* functions that start alike and step alike would otherwise differ at a   *)
(* least place (StepsAgree), and a function that steps as the recursion    *)
(* does exists because a least length without one would have a             *)
(* predecessor with one (Steps).                                           *)
(***************************************************************************)
EXTENDS SequencesExt, PureFunctions, SumProofs, SequenceTheorems

-----------------------------------------------------------------------------
(* The split of a run                                                      *)

LEMMA SplitSums == \A f, T : SP!SumFunctionOnSet(f, T) = Sum(f, T)
  BY DEF SP!SumFunctionOnSet, SP!FoldFunctionOnSet, SP!MapThenFoldSet, Sum, SumFunctionOnSet,
     FoldFunctionOnSet, MapThenFoldSet

LEMMA SplitNumbers ==
  /\ spUnit \in Nat \ {0}
  /\ spSkus \in Seq(SP!Flavors) /\ \A m, n \in DOMAIN spSkus : spSkus[m] = spSkus[n] => m = n
  BY FunctionsAssumption DEF SP!AllocationAssumption

LEMMA ListedFlavorsAreFinite == IsFiniteSet(SP!Flavors)
<1>1. DOMAIN spSkus = 1..Len(spSkus) /\ Len(spSkus) \in Nat
  BY SplitNumbers
<1> DEFINE f == [n \in 1..Len(spSkus) |-> spSkus[n]]
<1>2. f \in Surjection(1..Len(spSkus), SP!Flavors)
  BY <1>1 DEF SP!Flavors, Surjection
<1> QED
  BY <1>1, <1>2, FS_Interval, FS_Surjection

LEMMA SplitCounts == \A T : SP!Cardinality(T) = Cardinality(T)
  BY DEF SP!Cardinality, Cardinality

LEMMA PositionIs ==
  ASSUME NEW c \in SP!Flavors
  PROVE  SP!Position(c) \in Nat /\ spSkus[SP!Position(c)] = c
<1>1. DOMAIN spSkus = 1..Len(spSkus) /\ Len(spSkus) \in Nat
  BY SplitNumbers
<1>2. \E n \in DOMAIN spSkus : spSkus[n] = c
  BY DEF SP!Flavors
<1>3. SP!Position(c) \in DOMAIN spSkus /\ spSkus[SP!Position(c)] = c
  BY <1>2 DEF SP!Position
<1> QED
  BY <1>1, <1>3

\* What is left over after the shares are rounded down is worth one code for
\* that many of the flavors that lost something, the greatest losses first.
LEMMA SplitIs ==
  ASSUME NEW k \in Nat, NEW w \in [SP!Flavors -> Int], SP!ValidWeights(w),
         NEW n, n = SP!Allocate(k, w)
  PROVE  SP!SplitIsFair(k, w)
<1> DEFINE F == SP!Flavors
           share == [c \in F |-> w[c] * k]
           floor == [c \in F |-> (w[c] * k) \div spUnit]
           rest == [c \in F |-> (w[c] * k) % spUnit]
           before == [c \in F |-> {d \in F : \/ rest[d] > rest[c]
                                             \/ rest[d] = rest[c] /\ SP!Position(d) < SP!Position(c)}]
           over == k - Sum(floor, F)
           extra == [c \in F |-> IF Cardinality(before[c]) < over THEN 1 ELSE 0]
           lost == [c \in F |-> IF rest[c] > 0 THEN 1 ELSE 0]
           losers == {c \in F : rest[c] > 0}
<1>1. IsFiniteSet(F) /\ spUnit \in Nat \ {0}
  BY ListedFlavorsAreFinite, SplitNumbers
<1>2. (\A c \in F : w[c] \in Nat) /\ Sum(w, F) = spUnit
  BY SplitSums DEF SP!ValidWeights, SP!Total
<1>3. n = [c \in F |-> floor[c] + extra[c]]
  <2>1. n = [c \in F |->
               ((w[c] * k) \div spUnit)
               + IF Cardinality({d \in F : \/ (w[d] * k) % spUnit > (w[c] * k) % spUnit
                                           \/ /\ (w[d] * k) % spUnit = (w[c] * k) % spUnit
                                              /\ SP!Position(d) < SP!Position(c)}) < over
                 THEN 1 ELSE 0]
    BY SplitCounts, SplitSums, Zenon DEF SP!Allocate, SP!Total
  <2>2. ASSUME NEW c \in F
        PROVE  before[c] = {d \in F : \/ (w[d] * k) % spUnit > (w[c] * k) % spUnit
                                      \/ /\ (w[d] * k) % spUnit = (w[c] * k) % spUnit
                                         /\ SP!Position(d) < SP!Position(c)}
    OBVIOUS
  <2> HIDE DEF before, over
  <2> QED
    BY <2>1, <2>2
<1>4. ASSUME NEW c \in F
      PROVE  /\ share[c] \in Nat /\ floor[c] \in Nat /\ rest[c] \in 0..(spUnit - 1)
             /\ share[c] = floor[c] * spUnit + rest[c]
             /\ w[c] = 0 => share[c] = 0
  <2>1. PICK t : t = w[c] * k
    OBVIOUS
  <2>2. t \in Nat /\ (w[c] = 0 => t = 0)
    BY <1>2, <2>1
  <2>3. t \div spUnit \in Nat /\ t % spUnit \in 0..(spUnit - 1)
    BY <1>1, <2>2
  <2>4. t = (t \div spUnit) * spUnit + (t % spUnit)
    BY <1>1, <2>2
  <2>5. share[c] = t /\ floor[c] = t \div spUnit /\ rest[c] = t % spUnit
    BY <2>1
  <2> QED
    BY <2>2, <2>3, <2>4, <2>5
<1> HIDE DEF share, floor, rest
<1>5. Sum(floor, F) \in Int /\ over \in Int
  BY <1>1, <1>4, SumType
<1>6. Sum(rest, F) = over * spUnit
  <2>1. Sum(share, F) = Sum(w, F) * k
    BY <1>1, <1>2, SumScale DEF share
  <2> DEFINE whole == [c \in F |-> floor[c] * spUnit]
  <2>2. Sum(whole, F) = Sum(floor, F) * spUnit
    BY <1>1, <1>4, SumScale
  <2>3. Sum(share, F) = Sum(whole, F) + Sum(rest, F)
    <3>1. \A c \in F : whole[c] \in Int /\ rest[c] \in Int /\ share[c] = whole[c] + rest[c]
      BY <1>1, <1>4
    <3> HIDE DEF whole
    <3> QED
      BY <1>1, <3>1, SumPlus
  <2>4. Sum(rest, F) \in Int
    BY <1>1, <1>4, SumType
  <2> HIDE DEF whole
  <2>5. spUnit * k = Sum(floor, F) * spUnit + Sum(rest, F)
    BY <1>2, <2>1, <2>2, <2>3
  <2>6. (k - Sum(floor, F)) * spUnit = spUnit * k - Sum(floor, F) * spUnit
    BY <1>1, <1>5
  <2> QED
    BY <1>1, <1>5, <2>4, <2>5, <2>6
<1>7. Sum(lost, F) = Cardinality(losers) /\ Cardinality(losers) <= Cardinality(F)
      /\ Cardinality(losers) \in Nat /\ IsFiniteSet(losers)
  <2>1. \A c \in F : lost[c] \in {0, 1}
    OBVIOUS
  <2>2. {c \in F : lost[c] = 1} = losers
    OBVIOUS
  <2>3. losers \in SUBSET F
    OBVIOUS
  <2>4. IsFiniteSet(losers) /\ Cardinality(losers) <= Cardinality(F)
    BY <1>1, <2>3, FS_Subset
  <2> HIDE DEF lost, losers
  <2> QED
    BY <1>1, <2>1, <2>2, <2>4, SumCount, FS_CardinalityType
<1>8. over >= 0 /\ over <= Cardinality(losers)
  <2>1. Sum(rest, F) \in Nat
    BY <1>1, <1>4, SumNat
  <2> DEFINE most == [c \in F |-> lost[c] * spUnit]
  <2>2. Sum(most, F) = Sum(lost, F) * spUnit
    <3>1. (\A c \in F : lost[c] \in Int) /\ (\A c \in F : most[c] = lost[c] * spUnit)
      OBVIOUS
    <3> HIDE DEF lost, most
    <3> QED
      BY <1>1, <3>1, SumScale
  <2>3. Sum(rest, F) <= Sum(most, F)
    <3>1. \A c \in F : rest[c] \in Int /\ most[c] \in Int /\ rest[c] <= most[c]
      BY <1>1, <1>4
    <3> HIDE DEF most
    <3> QED
      BY <1>1, <3>1, SumAtMost
  <2> HIDE DEF lost, most, losers, over
  <2>4. over * spUnit >= 0 /\ over * spUnit <= Cardinality(losers) * spUnit
    BY <1>6, <1>7, <2>1, <2>2, <2>3
  <2> QED
    BY <1>1, <1>5, <1>7, <2>4
<1>9. Cardinality({c \in F : Cardinality(before[c]) < over}) = over
  <2>1. before \in [F -> SUBSET F]
    OBVIOUS
  <2>2. \A c \in F : rest[c] \in Int /\ SP!Position(c) \in Int
    BY <1>4, PositionIs
  <2>3. \A c \in F : c \notin before[c]
    BY <2>2
  <2>4. \A c, d \in F : d \in before[c] => before[d] \subseteq before[c]
    BY <2>2
  <2>5. \A c, d \in F : c # d => c \in before[d] \/ d \in before[c]
    <3>1. \A c, d \in F : c # d => SP!Position(c) # SP!Position(d)
      BY PositionIs
    <3> QED
      BY <2>2, <3>1
  <2>6. over \in 0..Cardinality(F)
    BY <1>1, <1>5, <1>7, <1>8, FS_CardinalityType
  <2> HIDE DEF before, over
  <2> QED
    BY <1>1, <2>1, <2>3, <2>4, <2>5, <2>6, Ranks
<1>10. Sum(n, F) = k
  <2>1. Sum(extra, F) = over
    <3>1. \A c \in F : extra[c] \in {0, 1}
      OBVIOUS
    <3> HIDE DEF before, over
    <3>2. {c \in F : extra[c] = 1} = {c \in F : Cardinality(before[c]) < over}
      OBVIOUS
    <3> HIDE DEF extra
    <3>3. Sum(extra, F) = Cardinality({c \in F : extra[c] = 1})
      BY <1>1, <3>1, SumCount
    <3> QED
      BY <1>9, <3>2, <3>3
  <2>2. Sum(n, F) = Sum(floor, F) + Sum(extra, F)
    <3>1. \A c \in F : floor[c] \in Int /\ extra[c] \in Int /\ n[c] = floor[c] + extra[c]
      <4>1. \A c \in F : extra[c] \in Int
        OBVIOUS
      <4> HIDE DEF extra
      <4> QED
        BY <1>3, <1>4, <4>1
    <3> HIDE DEF extra
    <3> QED
      BY <1>1, <3>1, SumPlus
  <2> QED
    BY <1>5, <2>1, <2>2
<1>11. ASSUME NEW c \in F
       PROVE  extra[c] \in {0, 1} /\ (extra[c] = 1 => rest[c] > 0)
  <2>1. CASE rest[c] > 0
    BY <2>1
  <2>2. CASE ~(rest[c] > 0)
    <3>1. losers \in SUBSET before[c] /\ before[c] \in SUBSET F
      BY <1>4, <2>2
    <3>2. IsFiniteSet(before[c]) /\ Cardinality(losers) <= Cardinality(before[c])
          /\ Cardinality(before[c]) \in Nat
      BY <1>1, <3>1, FS_Subset, FS_CardinalityType
    <3>3. ~(Cardinality(before[c]) < over)
      BY <1>5, <1>7, <1>8, <3>2
    <3> QED
      BY <3>3
  <2> QED
    BY <2>1, <2>2
<1>12. ASSUME NEW c \in F
       PROVE  /\ n[c] * spUnit < w[c] * k + spUnit /\ n[c] * spUnit > w[c] * k - spUnit
              /\ w[c] = 0 => n[c] = 0
  <2>1. n[c] = floor[c] + extra[c] /\ share[c] = w[c] * k
    BY <1>3 DEF share
  <2>2. PICK f \in Nat, r \in 0..(spUnit - 1), e \in {0, 1} :
          f = floor[c] /\ r = rest[c] /\ e = extra[c] /\ (e = 1 => r > 0)
    BY <1>4, <1>11
  <2>3. share[c] = f * spUnit + r /\ (w[c] = 0 => share[c] = 0)
    BY <1>4, <2>2
  <2>4. (f + e) * spUnit = f * spUnit + e * spUnit /\ f * spUnit \in Nat
    BY <1>1
  <2>5. (f + e) * spUnit < share[c] + spUnit /\ (f + e) * spUnit > share[c] - spUnit
    BY <1>1, <2>2, <2>3, <2>4
  <2>6. w[c] = 0 => f = 0 /\ e = 0
    <3>1. w[c] = 0 => f * spUnit = 0 /\ r = 0
      BY <2>3, <2>4
    <3>2. f * spUnit = 0 => f = 0
      BY <1>1
    <3> QED
      BY <2>2, <3>1, <3>2
  <2> QED
    BY <2>1, <2>2, <2>5, <2>6
<1> HIDE DEF F
<1> QED
  BY <1>10, <1>12, SplitSums DEF SP!SplitIsFair, SP!Total, F

\* allocate of app/domain/print_runs.py for any flavors, any size of a run and
\* any weights of which a run may be asked: all of its codes and not one more,
\* each flavor within one code of its share, and none without a weight.
THEOREM SplitsAreFair ==
  \A k \in Nat : \A w \in [SP!Flavors -> Int] : SP!ValidWeights(w) => SP!SplitIsFair(k, w)
BY SplitIs

-----------------------------------------------------------------------------
(* What a refusal tells: Replies, for any request                          *)

\* The first check that fails is the one that answers.
LEMMA FirstFails ==
  ASSUME NEW checks, NEW success, DOMAIN checks \subseteq Nat,
         NEW n \in DOMAIN checks, checks[n].fails,
         \A m \in DOMAIN checks : m < n => ~checks[m].fails
  PROVE  RP!FirstFailure(checks, success) = checks[n].answer
<1> DEFINE failing == {m \in DOMAIN checks : checks[m].fails}
<1>1. n \in failing /\ \A m \in failing : n <= m
  OBVIOUS
<1>2. PICK first : first = CHOOSE m \in failing : \A k \in failing : m <= k
  OBVIOUS
<1>3. first \in failing /\ \A m \in failing : first <= m
  BY <1>1, <1>2
<1>4. first = n
  BY <1>1, <1>3
<1> QED
  BY <1>1, <1>2, <1>4 DEF RP!FirstFailure

LEMMA NoneFails ==
  ASSUME NEW checks, NEW success, \A n \in DOMAIN checks : ~checks[n].fails
  PROVE  RP!FirstFailure(checks, success) = success
BY DEF RP!FirstFailure

LEMMA OfFour ==
  ASSUME NEW c1, NEW c2, NEW c3, NEW c4, NEW success
  PROVE  RP!FirstFailure(<<c1, c2, c3, c4>>, success) =
         IF c1.fails THEN c1.answer ELSE IF c2.fails THEN c2.answer ELSE IF c3.fails THEN c3.answer ELSE
         IF c4.fails THEN c4.answer ELSE success
<1>1. PICK checks : checks = <<c1, c2, c3, c4>>
  OBVIOUS
<1>2. /\ DOMAIN checks = 1..4
      /\ checks[1] = c1 /\ checks[2] = c2 /\ checks[3] = c3 /\ checks[4] = c4
  BY <1>1
<1>3. CASE c1.fails
  <2>1. \A m \in DOMAIN checks : m < 1 => ~checks[m].fails
    BY <1>2, <1>3
  <2> QED
    BY <1>1, <1>2, <1>3, <2>1, FirstFails
<1>4. CASE ~c1.fails /\ c2.fails
  <2>1. \A m \in DOMAIN checks : m < 2 => ~checks[m].fails
    BY <1>2, <1>4
  <2> QED
    BY <1>1, <1>2, <1>4, <2>1, FirstFails
<1>5. CASE ~c1.fails /\ ~c2.fails /\ c3.fails
  <2>1. \A m \in DOMAIN checks : m < 3 => ~checks[m].fails
    BY <1>2, <1>5
  <2> QED
    BY <1>1, <1>2, <1>5, <2>1, FirstFails
<1>6. CASE ~c1.fails /\ ~c2.fails /\ ~c3.fails /\ c4.fails
  <2>1. \A m \in DOMAIN checks : m < 4 => ~checks[m].fails
    BY <1>2, <1>6
  <2> QED
    BY <1>1, <1>2, <1>6, <2>1, FirstFails
<1>7. CASE ~c1.fails /\ ~c2.fails /\ ~c3.fails /\ ~c4.fails
  <2>1. \A m \in DOMAIN checks : ~checks[m].fails
    BY <1>2, <1>7
  <2> QED
    BY <1>1, <1>7, <2>1, NoneFails
<1> QED
  BY <1>3, <1>4, <1>5, <1>6, <1>7

LEMMA OfSix ==
  ASSUME NEW c1, NEW c2, NEW c3, NEW c4, NEW c5, NEW c6, NEW success
  PROVE  RP!FirstFailure(<<c1, c2, c3, c4, c5, c6>>, success) =
         IF c1.fails THEN c1.answer ELSE IF c2.fails THEN c2.answer ELSE IF c3.fails THEN c3.answer ELSE
         IF c4.fails THEN c4.answer ELSE IF c5.fails THEN c5.answer ELSE IF c6.fails THEN c6.answer ELSE success
<1>1. PICK checks : checks = <<c1, c2, c3, c4, c5, c6>>
  OBVIOUS
<1>2. /\ DOMAIN checks = 1..6
      /\ checks[1] = c1 /\ checks[2] = c2 /\ checks[3] = c3 /\ checks[4] = c4 /\
         checks[5] = c5 /\ checks[6] = c6
  BY <1>1
<1>3. CASE c1.fails
  <2>1. \A m \in DOMAIN checks : m < 1 => ~checks[m].fails
    BY <1>2, <1>3
  <2> QED
    BY <1>1, <1>2, <1>3, <2>1, FirstFails
<1>4. CASE ~c1.fails /\ c2.fails
  <2>1. \A m \in DOMAIN checks : m < 2 => ~checks[m].fails
    BY <1>2, <1>4
  <2> QED
    BY <1>1, <1>2, <1>4, <2>1, FirstFails
<1>5. CASE ~c1.fails /\ ~c2.fails /\ c3.fails
  <2>1. \A m \in DOMAIN checks : m < 3 => ~checks[m].fails
    BY <1>2, <1>5
  <2> QED
    BY <1>1, <1>2, <1>5, <2>1, FirstFails
<1>6. CASE ~c1.fails /\ ~c2.fails /\ ~c3.fails /\ c4.fails
  <2>1. \A m \in DOMAIN checks : m < 4 => ~checks[m].fails
    BY <1>2, <1>6
  <2> QED
    BY <1>1, <1>2, <1>6, <2>1, FirstFails
<1>7. CASE ~c1.fails /\ ~c2.fails /\ ~c3.fails /\ ~c4.fails /\ c5.fails
  <2>1. \A m \in DOMAIN checks : m < 5 => ~checks[m].fails
    BY <1>2, <1>7
  <2> QED
    BY <1>1, <1>2, <1>7, <2>1, FirstFails
<1>8. CASE ~c1.fails /\ ~c2.fails /\ ~c3.fails /\ ~c4.fails /\ ~c5.fails /\ c6.fails
  <2>1. \A m \in DOMAIN checks : m < 6 => ~checks[m].fails
    BY <1>2, <1>8
  <2> QED
    BY <1>1, <1>2, <1>8, <2>1, FirstFails
<1>9. CASE ~c1.fails /\ ~c2.fails /\ ~c3.fails /\ ~c4.fails /\ ~c5.fails /\
            ~c6.fails
  <2>1. \A m \in DOMAIN checks : ~checks[m].fails
    BY <1>2, <1>9
  <2> QED
    BY <1>1, <1>9, <2>1, NoneFails
<1> QED
  BY <1>3, <1>4, <1>5, <1>6, <1>7, <1>8, <1>9

LEMMA OfSeven ==
  ASSUME NEW c1, NEW c2, NEW c3, NEW c4, NEW c5, NEW c6, NEW c7, NEW success
  PROVE  RP!FirstFailure(<<c1, c2, c3, c4, c5, c6, c7>>, success) =
         IF c1.fails THEN c1.answer ELSE IF c2.fails THEN c2.answer ELSE IF c3.fails THEN c3.answer ELSE
         IF c4.fails THEN c4.answer ELSE IF c5.fails THEN c5.answer ELSE IF c6.fails THEN c6.answer ELSE
         IF c7.fails THEN c7.answer ELSE success
<1>1. PICK checks : checks = <<c1, c2, c3, c4, c5, c6, c7>>
  OBVIOUS
<1>2. /\ DOMAIN checks = 1..7
      /\ checks[1] = c1 /\ checks[2] = c2 /\ checks[3] = c3 /\ checks[4] = c4 /\
         checks[5] = c5 /\ checks[6] = c6 /\ checks[7] = c7
  BY <1>1
<1>3. CASE c1.fails
  <2>1. \A m \in DOMAIN checks : m < 1 => ~checks[m].fails
    BY <1>2, <1>3
  <2> QED
    BY <1>1, <1>2, <1>3, <2>1, FirstFails
<1>4. CASE ~c1.fails /\ c2.fails
  <2>1. \A m \in DOMAIN checks : m < 2 => ~checks[m].fails
    BY <1>2, <1>4
  <2> QED
    BY <1>1, <1>2, <1>4, <2>1, FirstFails
<1>5. CASE ~c1.fails /\ ~c2.fails /\ c3.fails
  <2>1. \A m \in DOMAIN checks : m < 3 => ~checks[m].fails
    BY <1>2, <1>5
  <2> QED
    BY <1>1, <1>2, <1>5, <2>1, FirstFails
<1>6. CASE ~c1.fails /\ ~c2.fails /\ ~c3.fails /\ c4.fails
  <2>1. \A m \in DOMAIN checks : m < 4 => ~checks[m].fails
    BY <1>2, <1>6
  <2> QED
    BY <1>1, <1>2, <1>6, <2>1, FirstFails
<1>7. CASE ~c1.fails /\ ~c2.fails /\ ~c3.fails /\ ~c4.fails /\ c5.fails
  <2>1. \A m \in DOMAIN checks : m < 5 => ~checks[m].fails
    BY <1>2, <1>7
  <2> QED
    BY <1>1, <1>2, <1>7, <2>1, FirstFails
<1>8. CASE ~c1.fails /\ ~c2.fails /\ ~c3.fails /\ ~c4.fails /\ ~c5.fails /\ c6.fails
  <2>1. \A m \in DOMAIN checks : m < 6 => ~checks[m].fails
    BY <1>2, <1>8
  <2> QED
    BY <1>1, <1>2, <1>8, <2>1, FirstFails
<1>9. CASE ~c1.fails /\ ~c2.fails /\ ~c3.fails /\ ~c4.fails /\ ~c5.fails /\
            ~c6.fails /\ c7.fails
  <2>1. \A m \in DOMAIN checks : m < 7 => ~checks[m].fails
    BY <1>2, <1>9
  <2> QED
    BY <1>1, <1>2, <1>9, <2>1, FirstFails
<1>10. CASE ~c1.fails /\ ~c2.fails /\ ~c3.fails /\ ~c4.fails /\ ~c5.fails /\
            ~c6.fails /\ ~c7.fails
  <2>1. \A m \in DOMAIN checks : ~checks[m].fails
    BY <1>2, <1>10
  <2> QED
    BY <1>1, <1>10, <2>1, NoneFails
<1> QED
  BY <1>3, <1>4, <1>5, <1>6, <1>7, <1>8, <1>9, <1>10

\* What a number hears that no code is sent to, and a code that is none.
IfUnknown(mobile, test, listed, known) ==
  IF ~mobile THEN RP!Answer(422, "PHONE_INVALID")
  ELSE IF ~test /\ ~listed THEN RP!Answer(403, "PHONE_NOT_ALLOWED")
  ELSE IF ~test /\ ~known THEN RP!Answer(422, "PHONE_UNUSUAL") ELSE RP!Answer(202, "")
IfInvalid(pepper, typed, throttled) ==
  IF ~pepper THEN RP!Answer(503, "REDEMPTION_NOT_CONFIGURED")
  ELSE IF typed = "malformed" THEN RP!Answer(400, "CODE_MALFORMED")
  ELSE IF typed = "mistyped" THEN RP!Answer(400, "CODE_MISTYPED")
  ELSE IF throttled THEN RP!Later(RP!Answer(429, "CODE_ATTEMPTS_LIMITED"), rpWindow)
  ELSE RP!Answer(404, "CODE_INVALID")

LEMMA RequestReplyIs ==
  ASSUME NEW r, NEW reply, reply = RP!RequestReply(r)
  PROVE  /\ r.account = "inactive" \/ (~r.test /\ ~(RP!Remaining(r) > 0) /\ ~(r.sent >= rpDailyLimit)
              /\ ~(~r.test /\ ~r.delivered)) =>
              reply = IfUnknown(r.mobile, r.test, r.listed, r.known)
         /\ reply.after # -1 =>
              RP!Remaining(r) > 0 /\ reply.code = "OTP_COOLDOWN"
              /\ reply.after = RP!WholeSeconds(RP!Remaining(r))
         /\ reply.code = "OTP_COOLDOWN" => RP!Remaining(r) > 0
<1> DEFINE b1 == ~r.mobile
           b2 == ~r.test /\ ~r.listed
           b3 == ~r.test /\ ~r.known
           b4 == r.account = "inactive"
           b5 == RP!Remaining(r) > 0
           b6 == r.sent >= rpDailyLimit
           b7 == ~r.test /\ ~r.delivered
           a1 == RP!Answer(422, "PHONE_INVALID")
           a2 == RP!Answer(403, "PHONE_NOT_ALLOWED")
           a3 == RP!Answer(422, "PHONE_UNUSUAL")
           a4 == RP!Answer(202, "")
           a5 == RP!Later(RP!Answer(429, "OTP_COOLDOWN"), RP!WholeSeconds(RP!Remaining(r)))
           a6 == RP!Answer(429, "OTP_DAILY_LIMIT")
           a7 == RP!Answer(503, "SERVICE_UNAVAILABLE")
           ok == RP!Answer(202, IF r.test THEN "test_code" ELSE "")
           c1 == RP!Check(b1, a1)  c2 == RP!Check(b2, a2)  c3 == RP!Check(b3, a3)
           c4 == RP!Check(b4, a4)  c5 == RP!Check(b5, a5)  c6 == RP!Check(b6, a6)
           c7 == RP!Check(b7, a7)
<1>1. reply = RP!FirstFailure(<<c1, c2, c3, c4, c5, c6, c7>>, ok)
  BY DEF RP!RequestReply
<1>2. /\ a5.after = RP!WholeSeconds(RP!Remaining(r)) /\ a5.code = "OTP_COOLDOWN"
      /\ a1.after = -1 /\ a1.code # "OTP_COOLDOWN"
      /\ a2.after = -1 /\ a2.code # "OTP_COOLDOWN"
      /\ a3.after = -1 /\ a3.code # "OTP_COOLDOWN"
      /\ a4.after = -1 /\ a4.code # "OTP_COOLDOWN"
      /\ a6.after = -1 /\ a6.code # "OTP_COOLDOWN"
      /\ a7.after = -1 /\ a7.code # "OTP_COOLDOWN"
      /\ ok.after = -1 /\ ok.code # "OTP_COOLDOWN"
      /\ ~r.test => ok = a4
  BY DEF RP!Answer, RP!Later, RP!Nothing
<1> HIDE DEF b1, b2, b3, b4, b5, b6, b7, a1, a2, a3, a4, a5, a6, a7, ok
<1>3. /\ (c1.fails <=> b1) /\ c1.answer = a1
      /\ (c2.fails <=> b2) /\ c2.answer = a2
      /\ (c3.fails <=> b3) /\ c3.answer = a3
      /\ (c4.fails <=> b4) /\ c4.answer = a4
      /\ (c5.fails <=> b5) /\ c5.answer = a5
      /\ (c6.fails <=> b6) /\ c6.answer = a6
      /\ (c7.fails <=> b7) /\ c7.answer = a7
  BY DEF RP!Check
<1> HIDE DEF c1, c2, c3, c4, c5, c6, c7
<1>4. RP!FirstFailure(<<c1, c2, c3, c4, c5, c6, c7>>, ok) =
        IF c1.fails THEN c1.answer ELSE IF c2.fails THEN c2.answer ELSE IF c3.fails THEN c3.answer ELSE
        IF c4.fails THEN c4.answer ELSE IF c5.fails THEN c5.answer ELSE IF c6.fails THEN c6.answer ELSE
        IF c7.fails THEN c7.answer ELSE ok
  BY OfSeven, SMTT(30)
<1>5. reply =
        IF b1 THEN a1 ELSE IF b2 THEN a2 ELSE IF b3 THEN a3 ELSE IF b4 THEN a4 ELSE
        IF b5 THEN a5 ELSE IF b6 THEN a6 ELSE IF b7 THEN a7 ELSE ok
  BY <1>1, <1>3, <1>4
<1>6. /\ b4 \/ (~r.test /\ ~b5 /\ ~b6
           /\ ~b7) =>
           reply = (IF b1 THEN a1 ELSE IF b2 THEN a2 ELSE IF b3 THEN a3 ELSE a4)
      /\ reply.after # -1 =>
           b5 /\ reply.code = "OTP_COOLDOWN"
           /\ reply.after = RP!WholeSeconds(RP!Remaining(r))
      /\ reply.code = "OTP_COOLDOWN" => b5
  BY <1>2, <1>5
<1>7. IfUnknown(r.mobile, r.test, r.listed, r.known) =
        (IF b1 THEN a1 ELSE IF b2 THEN a2 ELSE IF b3 THEN a3 ELSE a4)
  BY DEF IfUnknown, b1, b2, b3, b4, b5, b6, b7, a1, a2, a3, a4, a5, a6, a7
<1> QED
  BY <1>5, <1>6, <1>7 DEF b1, b2, b3, b4, b5, b6, b7

LEMMA RedeemReplyIs ==
  ASSUME NEW r, NEW reply, reply = RP!RedeemReply(r)
  PROVE  /\ RP!InWindow(r) >= rpMaxAttempts \/ r.code \in {"unknown", "inactive"} =>
              reply = IfInvalid(r.pepper, r.typed, RP!InWindow(r) >= rpMaxAttempts)
         /\ reply.after # -1 =>
              \/ /\ reply.code = "CODE_ATTEMPTS_LIMITED"
                 /\ reply.after = rpWindow
              \/ /\ reply.code = "REDEMPTION_DAILY_LIMIT"
                 /\ reply.after = RP!Rounded(rpDay - r.moment)
         /\ reply.code = "CODE_ATTEMPTS_LIMITED" => RP!InWindow(r) >= rpMaxAttempts
         /\ reply.code = "REDEMPTION_DAILY_LIMIT" => r.code = "free" /\ r.today + 1 > rpRedeemLimit
<1> DEFINE b1 == ~r.pepper
           b2 == r.typed = "malformed"
           b3 == r.typed = "mistyped"
           b4 == RP!InWindow(r) >= rpMaxAttempts
           b5 == r.code = "free" /\ r.today + 1 > rpRedeemLimit
           b6 == r.code \in {"unknown", "inactive"}
           b7 == r.code = "theirs"
           a1 == RP!Answer(503, "REDEMPTION_NOT_CONFIGURED")
           a2 == RP!Answer(400, "CODE_MALFORMED")
           a3 == RP!Answer(400, "CODE_MISTYPED")
           a4 == RP!Later(RP!Answer(429, "CODE_ATTEMPTS_LIMITED"), rpWindow)
           a5 == RP!Later(RP!Answer(429, "REDEMPTION_DAILY_LIMIT"), RP!Rounded(rpDay - r.moment))
           a6 == RP!Answer(404, "CODE_INVALID")
           a7 == RP!Answer(409, "CODE_ALREADY_REDEEMED")
           ok == RP!Answer(200, IF r.code = "mine" THEN "replayed" ELSE "")
           c1 == RP!Check(b1, a1)  c2 == RP!Check(b2, a2)  c3 == RP!Check(b3, a3)
           c4 == RP!Check(b4, a4)  c5 == RP!Check(b5, a5)  c6 == RP!Check(b6, a6)
           c7 == RP!Check(b7, a7)
<1>1. reply = RP!FirstFailure(<<c1, c2, c3, c4, c5, c6, c7>>, ok)
  BY DEF RP!RedeemReply
<1>2. /\ a4.after = rpWindow /\ a4.code = "CODE_ATTEMPTS_LIMITED"
      /\ a5.after = RP!Rounded(rpDay - r.moment) /\ a5.code = "REDEMPTION_DAILY_LIMIT"
      /\ a1.after = -1 /\ a1.code \notin {"CODE_ATTEMPTS_LIMITED", "REDEMPTION_DAILY_LIMIT"}
      /\ a2.after = -1 /\ a2.code \notin {"CODE_ATTEMPTS_LIMITED", "REDEMPTION_DAILY_LIMIT"}
      /\ a3.after = -1 /\ a3.code \notin {"CODE_ATTEMPTS_LIMITED", "REDEMPTION_DAILY_LIMIT"}
      /\ a6.after = -1 /\ a6.code \notin {"CODE_ATTEMPTS_LIMITED", "REDEMPTION_DAILY_LIMIT"}
      /\ a7.after = -1 /\ a7.code \notin {"CODE_ATTEMPTS_LIMITED", "REDEMPTION_DAILY_LIMIT"}
      /\ ok.after = -1 /\ ok.code \notin {"CODE_ATTEMPTS_LIMITED", "REDEMPTION_DAILY_LIMIT"}
      /\ b6 => ~b5
  BY DEF RP!Answer, RP!Later, RP!Nothing
<1> HIDE DEF b1, b2, b3, b4, b5, b6, b7, a1, a2, a3, a4, a5, a6, a7, ok
<1>3. /\ (c1.fails <=> b1) /\ c1.answer = a1
      /\ (c2.fails <=> b2) /\ c2.answer = a2
      /\ (c3.fails <=> b3) /\ c3.answer = a3
      /\ (c4.fails <=> b4) /\ c4.answer = a4
      /\ (c5.fails <=> b5) /\ c5.answer = a5
      /\ (c6.fails <=> b6) /\ c6.answer = a6
      /\ (c7.fails <=> b7) /\ c7.answer = a7
  BY DEF RP!Check
<1> HIDE DEF c1, c2, c3, c4, c5, c6, c7
<1>4. RP!FirstFailure(<<c1, c2, c3, c4, c5, c6, c7>>, ok) =
        IF c1.fails THEN c1.answer ELSE IF c2.fails THEN c2.answer ELSE IF c3.fails THEN c3.answer ELSE
        IF c4.fails THEN c4.answer ELSE IF c5.fails THEN c5.answer ELSE IF c6.fails THEN c6.answer ELSE
        IF c7.fails THEN c7.answer ELSE ok
  BY OfSeven, SMTT(30)
<1>5. reply =
        IF b1 THEN a1 ELSE IF b2 THEN a2 ELSE IF b3 THEN a3 ELSE IF b4 THEN a4 ELSE
        IF b5 THEN a5 ELSE IF b6 THEN a6 ELSE IF b7 THEN a7 ELSE ok
  BY <1>1, <1>3, <1>4
<1>6. /\ b4 \/ b6 =>
           reply = (IF b1 THEN a1 ELSE IF b2 THEN a2 ELSE IF b3 THEN a3 ELSE IF b4 THEN a4 ELSE a6)
      /\ reply.after # -1 =>
           \/ /\ reply.code = "CODE_ATTEMPTS_LIMITED"
              /\ reply.after = rpWindow
           \/ /\ reply.code = "REDEMPTION_DAILY_LIMIT"
              /\ reply.after = RP!Rounded(rpDay - r.moment)
      /\ reply.code = "CODE_ATTEMPTS_LIMITED" => b4
      /\ reply.code = "REDEMPTION_DAILY_LIMIT" => b5
  BY <1>2, <1>5
<1>7. IfInvalid(r.pepper, r.typed, RP!InWindow(r) >= rpMaxAttempts) =
        (IF b1 THEN a1 ELSE IF b2 THEN a2 ELSE IF b3 THEN a3 ELSE IF b4 THEN a4 ELSE a6)
  BY DEF IfInvalid, b1, b2, b3, b4, b5, b6, b7, a1, a2, a3, a4, a5, a6, a7
<1> QED
  BY <1>5, <1>6, <1>7 DEF b1, b2, b3, b4, b5, b6, b7

LEMMA FinishReplyIs ==
  ASSUME NEW r, NEW reply, reply = RP!FinishReply(r)
  PROVE  /\ r.run = "absent" \/ r.run = "theirs" => reply = RP!NoRun
<1> DEFINE b1 == r.run = "absent"
           b2 == r.run = "theirs"
           b3 == r.status = "expired"
           b4 == r.status # "open"
           b5 == r.late
           b6 == ~r.counted
           a1 == RP!NoRun
           a2 == RP!NoRun
           a3 == RP!Expired
           a4 == RP!Finished
           a5 == RP!Expired
           a6 == RP!Miscounted
           ok == RP!Answer(200, "")
           c1 == RP!Check(b1, a1)  c2 == RP!Check(b2, a2)  c3 == RP!Check(b3, a3)
           c4 == RP!Check(b4, a4)  c5 == RP!Check(b5, a5)  c6 == RP!Check(b6, a6)
<1>1. reply = RP!FirstFailure(<<c1, c2, c3, c4, c5, c6>>, ok)
  BY DEF RP!FinishReply
<1>2. a1 = RP!NoRun /\ a2 = RP!NoRun
  BY DEF RP!Answer, RP!NoRun
<1> HIDE DEF b1, b2, b3, b4, b5, b6, a1, a2, a3, a4, a5, a6, ok
<1>3. /\ (c1.fails <=> b1) /\ c1.answer = a1
      /\ (c2.fails <=> b2) /\ c2.answer = a2
      /\ (c3.fails <=> b3) /\ c3.answer = a3
      /\ (c4.fails <=> b4) /\ c4.answer = a4
      /\ (c5.fails <=> b5) /\ c5.answer = a5
      /\ (c6.fails <=> b6) /\ c6.answer = a6
  BY DEF RP!Check
<1> HIDE DEF c1, c2, c3, c4, c5, c6
<1>4. RP!FirstFailure(<<c1, c2, c3, c4, c5, c6>>, ok) =
        IF c1.fails THEN c1.answer ELSE IF c2.fails THEN c2.answer ELSE IF c3.fails THEN c3.answer ELSE
        IF c4.fails THEN c4.answer ELSE IF c5.fails THEN c5.answer ELSE IF c6.fails THEN c6.answer ELSE ok
  BY OfSix, SMT
<1>5. reply =
        IF b1 THEN a1 ELSE IF b2 THEN a2 ELSE IF b3 THEN a3 ELSE IF b4 THEN a4 ELSE
        IF b5 THEN a5 ELSE IF b6 THEN a6 ELSE ok
  BY <1>1, <1>3, <1>4
<1>6. /\ b1 \/ b2 => reply = RP!NoRun
  BY <1>2, <1>5
<1> QED
  BY <1>5, <1>6 DEF b1, b2, b3, b4, b5, b6, a1, a2, a3, a4, a5, a6, ok

LEMMA TeamReplyIs ==
  ASSUME NEW r, NEW reply, reply = RP!TeamReply(r)
  PROVE  /\ reply.code = "FLAVOR_NOT_UNLOCKED" =>
              ~RP!Unlocked(r) /\ reply.required = rpThreshold /\ reply.have = r.codes
         /\ reply.code = "TEAM_LOCKED" =>
              /\ r.flavor /\ ~(r.joined # RP!Nothing /\ r.same) /\ RP!Unlocked(r)
              /\ r.joined # RP!Nothing /\ r.moment < RP!SwitchAllowedAt(r)
              /\ reply.at = RP!SwitchAllowedAt(r)
         /\ r.flavor /\ ~(r.joined # RP!Nothing /\ r.same) /\ RP!Unlocked(r) =>
              IF r.joined # RP!Nothing /\ r.moment < RP!SwitchAllowedAt(r)
              THEN reply.code = "TEAM_LOCKED" ELSE reply.status = 200
<1> DEFINE b1 == ~r.flavor
           b2 == r.joined # RP!Nothing /\ r.same
           b3 == ~RP!Unlocked(r)
           b4 == r.joined # RP!Nothing /\ r.moment < RP!SwitchAllowedAt(r)
           a1 == RP!Answer(422, "CATALOGUE_UNKNOWN")
           a2 == RP!Answer(422, "TEAM_SAME")
           a3 == RP!Lacking(RP!Answer(409, "FLAVOR_NOT_UNLOCKED"), rpThreshold, r.codes)
           a4 == RP!Until(RP!Answer(409, "TEAM_LOCKED"), RP!SwitchAllowedAt(r))
           ok == RP!Answer(200, "")
           c1 == RP!Check(b1, a1)  c2 == RP!Check(b2, a2)  c3 == RP!Check(b3, a3)
           c4 == RP!Check(b4, a4)
<1>1. reply = RP!FirstFailure(<<c1, c2, c3, c4>>, ok)
  BY DEF RP!TeamReply
<1>2. /\ a1.code = "CATALOGUE_UNKNOWN" /\ a2.code = "TEAM_SAME"
      /\ a3.code = "FLAVOR_NOT_UNLOCKED" /\ a3.required = rpThreshold /\ a3.have = r.codes
      /\ a4.code = "TEAM_LOCKED" /\ a4.at = RP!SwitchAllowedAt(r)
      /\ ok.code = "" /\ ok.status = 200
  BY DEF RP!Answer, RP!Lacking, RP!Until
<1> HIDE DEF b1, b2, b3, b4, a1, a2, a3, a4, ok
<1>3. /\ (c1.fails <=> b1) /\ c1.answer = a1
      /\ (c2.fails <=> b2) /\ c2.answer = a2
      /\ (c3.fails <=> b3) /\ c3.answer = a3
      /\ (c4.fails <=> b4) /\ c4.answer = a4
  BY DEF RP!Check
<1> HIDE DEF c1, c2, c3, c4
<1>4. RP!FirstFailure(<<c1, c2, c3, c4>>, ok) =
        IF c1.fails THEN c1.answer ELSE IF c2.fails THEN c2.answer ELSE IF c3.fails THEN c3.answer ELSE
        IF c4.fails THEN c4.answer ELSE ok
  BY OfFour, SMT
<1>5. reply =
        IF b1 THEN a1 ELSE IF b2 THEN a2 ELSE IF b3 THEN a3 ELSE IF b4 THEN a4 ELSE ok
  BY <1>1, <1>3, <1>4
<1>6. /\ reply.code = "FLAVOR_NOT_UNLOCKED" =>
           b3 /\ reply.required = rpThreshold /\ reply.have = r.codes
      /\ reply.code = "TEAM_LOCKED" =>
           /\ ~b1 /\ ~b2 /\ ~b3
           /\ b4
           /\ reply.at = RP!SwitchAllowedAt(r)
      /\ ~b1 /\ ~b2 /\ ~b3 =>
           IF b4
           THEN reply.code = "TEAM_LOCKED" ELSE reply.status = 200
  BY <1>2, <1>5
<1> QED
  BY <1>5, <1>6 DEF b1, b2, b3, b4, a1, a2, a3, a4, ok

LEMMA ClaimReplyIs ==
  ASSUME NEW r, NEW reply, reply = RP!ClaimReply(r)
  PROVE  /\ reply.status = 200 <=>
              r.active /\ ~r.claimed /\ r.evaluable /\ ~(r.have < r.target)
<1> DEFINE b1 == ~r.active
           b2 == r.claimed
           b3 == ~r.evaluable
           b4 == r.have < r.target
           a1 == RP!Answer(404, "NOT_FOUND")
           a2 == RP!Answer(409, "CHALLENGE_ALREADY_CLAIMED")
           a3 == RP!Answer(500, "INTERNAL_ERROR")
           a4 == RP!Lacking(RP!Answer(409, "CHALLENGE_NOT_UNLOCKED"), r.target, r.have)
           ok == RP!Answer(200, "")
           c1 == RP!Check(b1, a1)  c2 == RP!Check(b2, a2)  c3 == RP!Check(b3, a3)
           c4 == RP!Check(b4, a4)
<1>1. reply = RP!FirstFailure(<<c1, c2, c3, c4>>, ok)
  BY DEF RP!ClaimReply
<1>2. /\ a1.status = 404 /\ a2.status = 409 /\ a3.status = 500 /\ a4.status = 409 /\ ok.status = 200
  BY DEF RP!Answer, RP!Lacking
<1> HIDE DEF b1, b2, b3, b4, a1, a2, a3, a4, ok
<1>3. /\ (c1.fails <=> b1) /\ c1.answer = a1
      /\ (c2.fails <=> b2) /\ c2.answer = a2
      /\ (c3.fails <=> b3) /\ c3.answer = a3
      /\ (c4.fails <=> b4) /\ c4.answer = a4
  BY DEF RP!Check
<1> HIDE DEF c1, c2, c3, c4
<1>4. RP!FirstFailure(<<c1, c2, c3, c4>>, ok) =
        IF c1.fails THEN c1.answer ELSE IF c2.fails THEN c2.answer ELSE IF c3.fails THEN c3.answer ELSE
        IF c4.fails THEN c4.answer ELSE ok
  BY OfFour, SMT
<1>5. reply =
        IF b1 THEN a1 ELSE IF b2 THEN a2 ELSE IF b3 THEN a3 ELSE IF b4 THEN a4 ELSE ok
  BY <1>1, <1>3, <1>4
<1>6. /\ reply.status = 200 <=>
           ~b1 /\ ~b2 /\ ~b3 /\ ~b4
  BY <1>2, <1>5
<1> QED
  BY <1>5, <1>6 DEF b1, b2, b3, b4, a1, a2, a3, a4, ok

-----------------------------------------------------------------------------
(* Any request, however many failures, codes or moments it comes with      *)

LEMMA LimitNumbers ==
  /\ rpCooldown \in Nat \ {0} /\ rpDailyLimit \in Nat \ {0} /\ rpWindow \in Nat \ {0}
  /\ rpMaxAttempts \in Nat \ {0} /\ rpRedeemLimit \in Nat \ {0} /\ rpDay \in Nat \ {0}
  /\ rpThreshold \in Nat \ {0} /\ rpTeamLock \in Nat \ {0}
BY FunctionsAssumption DEF RP!RepliesAssumption

LEMMA Halving ==
  ASSUME NEW h \in Nat
  PROVE  /\ RP!WholeSeconds(h) \in Nat /\ 2 * RP!WholeSeconds(h) \in {h + 1, h + 2}
         /\ RP!Rounded(h) \in Nat /\ 2 * RP!Rounded(h) + 1 >= h
<1>1. h \div 2 \in Nat /\ 2 * (h \div 2) \in {h, h - 1}
  OBVIOUS
<1> QED
  BY <1>1 DEF RP!WholeSeconds, RP!Rounded

LEMMA RequestsAgree ==
  ASSUME NEW r \in RP!CodeRequests
  PROVE  RP!AccountsLookAlike(r) /\ RP!WaitingForACodeHelps(r)
<1>1. RP!Remaining(r) \in Int
  BY LimitNumbers DEF RP!Remaining, RP!Nothing, RP!CodeRequests
<1>2. RP!AccountsLookAlike(r)
  <2> SUFFICES ASSUME ~r.test, r.delivered, RP!Remaining(r) <= 0, r.sent < rpDailyLimit,
                      NEW z, z = [r EXCEPT !.account = "inactive"]
               PROVE  RP!RequestReply(r) = RP!RequestReply(z)
    BY DEF RP!AccountsLookAlike
  <2>1. /\ z.mobile = r.mobile /\ z.test = r.test /\ z.listed = r.listed /\ z.known = r.known
        /\ z.account = "inactive"
    BY DEF RP!CodeRequests
  <2>2. ~(RP!Remaining(r) > 0) /\ ~(r.sent >= rpDailyLimit)
    BY <1>1, LimitNumbers DEF RP!CodeRequests
  <2> DEFINE common == IfUnknown(r.mobile, r.test, r.listed, r.known)
  <2>3. RP!RequestReply(r) = common
    BY <2>2, RequestReplyIs
  <2>4. RP!RequestReply(z) = common
    BY <2>1, RequestReplyIs
  <2> QED
    BY <2>3, <2>4
<1>3. RP!WaitingForACodeHelps(r)
  <2> SUFFICES ASSUME NEW reply, reply = RP!RequestReply(r), reply.after # -1,
                      NEW z, z = [r EXCEPT !.elapsed = @ + 2 * reply.after]
               PROVE  /\ RP!RequestReply(z).code # reply.code
                      /\ 2 * (reply.after - 1) <= RP!Remaining(r)
    BY DEF RP!WaitingForACodeHelps, RP!Nothing
  <2>1. /\ RP!Remaining(r) > 0 /\ reply.code = "OTP_COOLDOWN"
        /\ reply.after = RP!WholeSeconds(RP!Remaining(r))
    BY RequestReplyIs
  <2>2. /\ reply.after \in Nat /\ 2 * reply.after > RP!Remaining(r)
        /\ 2 * (reply.after - 1) <= RP!Remaining(r)
    BY <1>1, <2>1, Halving
  <2>3. r.elapsed \in Nat /\ RP!Remaining(r) = 2 * rpCooldown - r.elapsed
    BY <2>1 DEF RP!Remaining, RP!CodeRequests
  <2>4. z.elapsed = r.elapsed + 2 * reply.after
    BY DEF RP!CodeRequests
  <2>5. ~(RP!Remaining(z) > 0)
    BY <2>2, <2>3, <2>4, LimitNumbers DEF RP!Remaining
  <2>6. RP!RequestReply(z).code # "OTP_COOLDOWN"
    BY <2>5, RequestReplyIs
  <2> QED
    BY <2>1, <2>2, <2>6
<1> QED
  BY <1>2, <1>3

LEMMA ScansAgree ==
  ASSUME NEW r \in RP!Scans
  PROVE  RP!CodesLookAlike(r) /\ RP!WaitingToRedeemHelps(r)
<1>1. /\ rpDay - r.moment \in Nat /\ rpDay - r.moment > 0 /\ r.moment \in Nat /\ r.today \in Nat
      /\ r.failures \in Seq(Nat)
  BY LimitNumbers DEF RP!Scans
<1>2. RP!CodesLookAlike(r)
  <2>1. ASSUME NEW code, NEW q, q = [r EXCEPT !.code = code]
        PROVE  /\ q.code = code /\ q.pepper = r.pepper /\ q.typed = r.typed
               /\ RP!InWindow(q) = RP!InWindow(r)
    BY <2>1 DEF RP!Scans, RP!InWindow
  <2> DEFINE common == IfInvalid(r.pepper, r.typed, RP!InWindow(r) >= rpMaxAttempts)
  <2>2. ASSUME NEW code, code \in {"unknown", "inactive"} \/ RP!InWindow(r) >= rpMaxAttempts
        PROVE  RP!RedeemReply([r EXCEPT !.code = code]) = common
    <3>1. PICK q : q = [r EXCEPT !.code = code]
      OBVIOUS
    <3>2. q.code = code /\ q.pepper = r.pepper /\ q.typed = r.typed /\ RP!InWindow(q) = RP!InWindow(r)
      BY <2>1, <3>1
    <3>3. RP!RedeemReply(q) = IfInvalid(q.pepper, q.typed, RP!InWindow(q) >= rpMaxAttempts)
      BY <2>2, <3>2, RedeemReplyIs
    <3> QED
      BY <3>1, <3>2, <3>3
  <2> QED
    BY <2>2 DEF RP!CodesLookAlike
<1>3. RP!WaitingToRedeemHelps(r)
  <2> SUFFICES ASSUME NEW reply, reply = RP!RedeemReply(r), reply.after # -1,
                      NEW wait, wait = 2 * reply.after + 1,
                      NEW z, z = [r EXCEPT !.failures = [n \in DOMAIN @ |-> @[n] + wait],
                                           !.moment = (r.moment + wait) % rpDay,
                                           !.today = IF r.moment + wait >= rpDay THEN 0 ELSE @]
               PROVE  RP!RedeemReply(z).code # reply.code
    BY DEF RP!WaitingToRedeemHelps, RP!Nothing
  <2>1. \/ /\ reply.code = "CODE_ATTEMPTS_LIMITED" /\ reply.after = rpWindow
        \/ /\ reply.code = "REDEMPTION_DAILY_LIMIT" /\ reply.after = RP!Rounded(rpDay - r.moment)
    BY RedeemReplyIs
  <2>2. /\ z.failures = [n \in DOMAIN r.failures |-> r.failures[n] + wait]
        /\ z.today = IF r.moment + wait >= rpDay THEN 0 ELSE r.today
    BY DEF RP!Scans
  <2>3. CASE reply.code = "CODE_ATTEMPTS_LIMITED"
    <3>1. reply.after = rpWindow /\ wait = 2 * rpWindow + 1
      BY <2>1, <2>3
    <3>2. \A n \in DOMAIN r.failures : r.failures[n] \in Nat
      BY <1>1
    <3>3. {n \in DOMAIN z.failures : z.failures[n] <= 2 * rpWindow} = {}
      BY <2>2, <3>1, <3>2, LimitNumbers
    <3>4. RP!InWindow(z) = Cardinality({})
      BY <3>3, Zenon DEF RP!InWindow, RP!Cardinality, Cardinality
    <3>5. Cardinality({}) = 0
      BY FS_EmptySet
    <3>6. ~(RP!InWindow(z) >= rpMaxAttempts)
      BY <3>4, <3>5, LimitNumbers
    <3>7. PICK next : next = RP!RedeemReply(z)
      OBVIOUS
    <3>8. next.code # "CODE_ATTEMPTS_LIMITED"
      BY <3>6, <3>7, RedeemReplyIs
    <3> QED
      BY <2>3, <3>7, <3>8
  <2>4. CASE reply.code = "REDEMPTION_DAILY_LIMIT"
    <3>1. reply.after = RP!Rounded(rpDay - r.moment)
      BY <2>1, <2>4
    <3>2. PICK left \in Nat : left = rpDay - r.moment
      BY <1>1
    <3>3. 2 * RP!Rounded(left) + 1 >= left /\ RP!Rounded(left) \in Nat
      BY Halving
    <3>4. PICK after \in Nat : after = reply.after /\ 2 * after + 1 >= left
      BY <3>1, <3>2, <3>3
    <3>5. r.moment + wait >= rpDay
      <4>1. PICK m \in Nat, w \in Nat : m = r.moment /\ w = wait /\ w = 2 * after + 1
        BY <1>1, <3>4
      <4>2. rpDay = m + left
        BY <3>2, <4>1, LimitNumbers
      <4> QED
        BY <3>4, <4>1, <4>2
    <3>6. ~(z.today + 1 > rpRedeemLimit)
      BY <2>2, <3>5, LimitNumbers
    <3>7. PICK next : next = RP!RedeemReply(z)
      OBVIOUS
    <3>8. next.code = "REDEMPTION_DAILY_LIMIT" => z.today + 1 > rpRedeemLimit
      BY <3>7, RedeemReplyIs
    <3> QED
      BY <2>4, <3>6, <3>7, <3>8
  <2> QED
    BY <2>1, <2>3, <2>4
<1> QED
  BY <1>2, <1>3

LEMMA RunsAgree ==
  ASSUME NEW r \in RP!FinishQuestions
  PROVE  RP!RunsLookAlike(r)
<1>1. ASSUME NEW q, q.run \in {"absent", "theirs"}
      PROVE  RP!FinishReply(q) = RP!NoRun
  BY <1>1, FinishReplyIs
<1>2. \A run : [r EXCEPT !.run = run].run = run
  BY DEF RP!FinishQuestions
<1> QED
  BY <1>1, <1>2 DEF RP!RunsLookAlike

LEMMA TeamsAgree ==
  ASSUME NEW r \in RP!TeamChoices
  PROVE  RP!TeamPageAgrees(r)
<1>1. /\ r.codes \in Nat /\ r.joined \in {-1} \cup Nat /\ r.moment \in Nat
      /\ RP!SwitchAllowedAt(r) = r.joined + rpTeamLock
  BY DEF RP!TeamChoices, RP!Nothing, RP!SwitchAllowedAt
<1>2. PICK reply : reply = RP!TeamReply(r)
  OBVIOUS
<1>3. ASSUME reply.code = "FLAVOR_NOT_UNLOCKED"
      PROVE  ~RP!TeamStatus(r).unlocked /\ reply.have < reply.required
  <2>1. ~RP!Unlocked(r) /\ reply.required = rpThreshold /\ reply.have = r.codes
    BY <1>2, <1>3, TeamReplyIs
  <2>2. ~RP!TeamStatus(r).unlocked
    BY <2>1 DEF RP!TeamStatus
  <2>3. r.codes < rpThreshold
    BY <1>1, <2>1, LimitNumbers DEF RP!Unlocked
  <2> QED
    BY <2>1, <2>2, <2>3
<1>4. ASSUME reply.code = "TEAM_LOCKED"
      PROVE  /\ reply.at = RP!TeamStatus(r).switchAllowedAt /\ reply.at > r.moment
             /\ RP!TeamReply([r EXCEPT !.moment = reply.at]).status = 200
             /\ RP!TeamReply([r EXCEPT !.moment = reply.at - 1]).code = "TEAM_LOCKED"
  <2>1. /\ r.flavor /\ r.joined # RP!Nothing /\ ~r.same /\ RP!Unlocked(r)
        /\ r.moment < RP!SwitchAllowedAt(r) /\ reply.at = RP!SwitchAllowedAt(r)
    BY <1>2, <1>4, TeamReplyIs
  <2>2. ASSUME NEW t, NEW z, z = [r EXCEPT !.moment = t],
               NEW next, next = RP!TeamReply(z)
        PROVE  IF t < RP!SwitchAllowedAt(r) THEN next.code = "TEAM_LOCKED" ELSE next.status = 200
    <3>1. /\ z.flavor = r.flavor /\ z.joined = r.joined /\ z.same = r.same /\ z.moment = t
          /\ RP!Unlocked(z) <=> RP!Unlocked(r)
          /\ RP!SwitchAllowedAt(z) = RP!SwitchAllowedAt(r)
      BY <2>2 DEF RP!TeamChoices, RP!Unlocked, RP!SwitchAllowedAt
    <3>2. /\ z.flavor /\ ~(z.joined # RP!Nothing /\ z.same) /\ RP!Unlocked(z)
          /\ t < RP!SwitchAllowedAt(r) <=> z.joined # RP!Nothing /\ z.moment < RP!SwitchAllowedAt(z)
      BY <2>1, <3>1
    <3>3. IF z.joined # RP!Nothing /\ z.moment < RP!SwitchAllowedAt(z)
          THEN next.code = "TEAM_LOCKED" ELSE next.status = 200
      BY <2>2, <3>2, TeamReplyIs
    <3> QED
      BY <3>2, <3>3, Zenon
  <2>3. ~(reply.at < RP!SwitchAllowedAt(r)) /\ reply.at - 1 < RP!SwitchAllowedAt(r)
    BY <1>1, <2>1, LimitNumbers
  <2>4. /\ RP!TeamReply([r EXCEPT !.moment = reply.at]).status = 200
        /\ RP!TeamReply([r EXCEPT !.moment = reply.at - 1]).code = "TEAM_LOCKED"
    BY <2>2, <2>3
  <2>5. reply.at > r.moment
    BY <1>1, <2>1, LimitNumbers
  <2>6. reply.at = RP!TeamStatus(r).switchAllowedAt
    BY <2>1 DEF RP!TeamStatus
  <2> QED
    BY <2>4, <2>5, <2>6
<1> QED
  BY <1>2, <1>3, <1>4 DEF RP!TeamPageAgrees

LEMMA ClaimsAgree ==
  ASSUME NEW r \in RP!Claims
  PROVE  RP!ListAgrees(r)
<1> SUFFICES ASSUME r.active, r.evaluable
             PROVE  (RP!ClaimReply(r).status = 200) = (r.have >= r.target /\ ~r.claimed)
  BY DEF RP!ListAgrees, RP!Listed
<1>1. r.have < r.target \/ r.have >= r.target
  BY DEF RP!Claims
<1>2. ~(r.have < r.target /\ r.have >= r.target)
  BY DEF RP!Claims
<1>3. PICK reply : reply = RP!ClaimReply(r)
  OBVIOUS
<1>4. reply.status = 200 <=> ~r.claimed /\ ~(r.have < r.target)
  BY <1>3, ClaimReplyIs
<1> QED
  BY <1>1, <1>2, <1>3, <1>4

\* What a refusal tells, for any request, settings and stored rows (the order
\* of the checks in auth.py, redemptions.py, mini_games.py, teams.py and
\* challenges.py): an account, a code or a run that one may not know of
\* answers like one that does not exist; who waits as long as Retry-After says
\* is not refused for the same reason; the team page and the list of
\* challenges say what the endpoints then do.
THEOREM RefusalsAgree ==
  /\ \A r \in RP!CodeRequests : RP!AccountsLookAlike(r) /\ RP!WaitingForACodeHelps(r)
  /\ \A r \in RP!Scans : RP!CodesLookAlike(r) /\ RP!WaitingToRedeemHelps(r)
  /\ \A r \in RP!FinishQuestions : RP!RunsLookAlike(r)
  /\ \A r \in RP!TeamChoices : RP!TeamPageAgrees(r)
  /\ \A r \in RP!Claims : RP!ListAgrees(r)
BY RequestsAgree, ScansAgree, RunsAgree, TeamsAgree, ClaimsAgree

-----------------------------------------------------------------------------
(* What boots, and what an operator concludes of a server                  *)

LEMMA Places ==
  \A n \in 1..17 :
    /\ SC!Sections[n] = "env" <=> n = 3
    /\ SC!Sections[n] = "containers" <=> n = 5
    /\ SC!Sections[n] = "health" <=> n = 7
    /\ SC!Sections[n] = "alembic" <=> n = 8
    /\ SC!Sections[n] = "terms" <=> n = 11
    /\ SC!Sections[n] = "sshboot" <=> n = 13
    /\ SC!Sections[n] = "end" <=> n = 17
BY DEF SC!Sections

LEMMA Arrivals ==
  ASSUME NEW cut \in 0..17
  PROVE  /\ SC!Arrived("env", cut) <=> cut >= 3
         /\ SC!Arrived("containers", cut) <=> cut >= 5
         /\ SC!Arrived("health", cut) <=> cut >= 7
         /\ SC!Arrived("alembic", cut) <=> cut >= 8
         /\ SC!Arrived("terms", cut) <=> cut >= 11
         /\ SC!Arrived("sshboot", cut) <=> cut >= 13
         /\ SC!Arrived("end", cut) <=> cut >= 17
BY Places DEF SC!Arrived

\* Every configuration that core/config.py lets boot, whatever else it holds:
\* the browser keeps the session cookie, production has its keys and nothing
\* of a test server, and test numbers are on only where they are asked for.
THEOREM SettingsAreSafe ==
  \A s : SE!CookiesAreKept(s) /\ SE!ProductionIsStrict(s) /\ SE!TestNumbersAreAskedFor(s)
<1> SUFFICES ASSUME NEW s, SE!Boots(s)
             PROVE  SE!CookiesAreKept(s) /\ SE!ProductionIsStrict(s) /\ SE!TestNumbersAreAskedFor(s)
  BY DEF SE!CookiesAreKept, SE!ProductionIsStrict, SE!TestNumbersAreAskedFor
<1>1. SE!Strict(s) => s.origins \subseteq {"https", "loopback"}
  BY DEF SE!Boots, SE!SafeOrigins
<1>2. SE!CookiesAreKept(s)
  BY <1>1 DEF SE!CookiesAreKept, SE!Boots, SE!Kept, SE!SecureCookies
<1>3. SE!ProductionIsStrict(s)
  BY <1>1 DEF SE!ProductionIsStrict, SE!Boots, SE!Strict, SE!Deployed, SE!AllowCredentials
<1>4. SE!TestNumbersAreAskedFor(s)
  BY DEF SE!TestNumbersAreAskedFor, SE!TestNumbersEnabled
<1> QED
  BY <1>2, <1>3, <1>4

\* Whatever is true of a server and wherever the output of the remote script
\* of scripts/server_check.py ends: an exit status of 0 means that the
\* application serves, and a server that works is not reported as failing.
THEOREM VerdictsAreSound ==
  \A s : \A cut \in 0..Len(SC!Sections) : SC!VerdictIsSound(s, cut) /\ SC!HealthyPasses(s, cut)
<1> SUFFICES ASSUME NEW s, NEW cut \in 0..Len(SC!Sections)
             PROVE  SC!VerdictIsSound(s, cut) /\ SC!HealthyPasses(s, cut)
  OBVIOUS
<1>1. Len(SC!Sections) = 17
  BY DEF SC!Sections
<1>2. cut \in 0..17
  BY <1>1
<1>3. SC!VerdictIsSound(s, cut)
  <2> SUFFICES ASSUME SC!ExitsZero(s, cut)
               PROVE  /\ \A service \in SC!Services : s.state[service] = "healthy"
                      /\ s.pepperMatches /\ s.revision # "ERROR"
                      /\ ~(s.production /\ s.otpTestNumbers = "true")
                      /\ SC!Warnings(s, cut) = {} =>
                           /\ s.revision = "head" /\ s.session \in SC!BootPorts(s)
                           /\ s.documents = {} \/ s.termsVersion \in s.documents \cup {"unset"}
    BY DEF SC!VerdictIsSound
  <2>1. /\ \A path \in SC!Paths : SC!Reachable(s, path)
        /\ cut # 0
        /\ SC!Arrived("env", cut) => ~(s.production /\ s.otpTestNumbers = "true")
        /\ cut > 0 => SC!Arrived("containers", cut)
        /\ cut > 0 => \A service \in SC!Listed(s) : s.state[service] = "healthy"
        /\ cut > 0 => ~SC!NoRevision(s, cut)
        /\ SC!Arrived("terms", cut) /\ SC!Up(s, "postgres") /\ s.documents # {}
             => s.termsVersion \in s.documents \cup {"unset"}
        /\ SC!Arrived("sshboot", cut) => ~SC!PortLost(s)
    BY DEF SC!ExitsZero, SC!Failures
  <2>2. cut > 0 /\ cut >= 8
    BY <1>2, <2>1, Arrivals DEF SC!NoRevision
  <2>3. /\ SC!Up(s, "nginx") /\ SC!Up(s, "api") /\ SC!Up(s, "postgres") /\ s.pepperMatches
    BY <2>1 DEF SC!Paths, SC!Reachable, SC!Serves
  <2>4. \A service \in SC!Services : s.state[service] = "healthy"
    BY <2>1, <2>2, <2>3 DEF SC!Services, SC!Listed
  <2>5. s.revision # "ERROR" /\ SC!Revision(s) = s.revision
    BY <2>1, <2>2, <2>3 DEF SC!NoRevision, SC!Revision
  <2>6. ~(s.production /\ s.otpTestNumbers = "true")
    BY <1>2, <2>1, <2>2, Arrivals
  <2>7. ASSUME SC!Warnings(s, cut) = {}
        PROVE  /\ s.revision = "head" /\ s.session \in SC!BootPorts(s)
               /\ s.documents = {} \/ s.termsVersion \in s.documents \cup {"unset"}
    <3>1. /\ SC!Arrived("end", cut)
          /\ SC!Revision(s) = "head"
          /\ s.session # "unknown"
      BY <2>1, <2>2, <2>7 DEF SC!Warnings
    <3>2. SC!Arrived("terms", cut) /\ SC!Arrived("sshboot", cut)
      BY <1>2, <3>1, Arrivals
    <3>3. s.session \in SC!BootPorts(s)
      BY <2>1, <3>1, <3>2 DEF SC!PortLost, SC!BootPorts
    <3> QED
      BY <2>1, <2>3, <2>5, <3>1, <3>2, <3>3
  <2> QED
    BY <2>3, <2>4, <2>5, <2>6, <2>7
<1>4. SC!HealthyPasses(s, cut)
  <2> SUFFICES ASSUME cut = Len(SC!Sections), s.pepperMatches, s.revision = "head",
                      \A service \in SC!Services : s.state[service] = "healthy",
                      ~s.production \/ s.otpTestNumbers # "true",
                      s.session \in SC!BootPorts(s), s.termsVersion \in s.documents
               PROVE  SC!Failures(s, cut) = {}
    BY DEF SC!HealthyPasses, SC!ExitsZero
  <2>1. /\ SC!Arrived("containers", cut) /\ SC!Arrived("alembic", cut)
    BY <1>1, <1>2, Arrivals
  <2>2. \A service \in SC!Services : SC!Up(s, service)
    BY DEF SC!Up
  <2>3. \A path \in SC!Paths : SC!Serves(s, path) /\ SC!Reachable(s, path)
    BY <2>2 DEF SC!Reachable, SC!Serves, SC!Services
  <2>4. SC!Listed(s) = SC!Services
    BY <2>2 DEF SC!Listed
  <2>5. ~SC!NoRevision(s, cut)
    BY <2>1, <2>2 DEF SC!NoRevision, SC!Revision, SC!Services
  <2>6. ~SC!PortLost(s)
    BY DEF SC!PortLost, SC!BootPorts
  <2>7. cut # 0 /\ SC!Services # {}
    BY <1>1 DEF SC!Services
  <2> QED
    BY <2>1, <2>3, <2>4, <2>5, <2>6, <2>7 DEF SC!Failures
<1> QED
  BY <1>3, <1>4

-----------------------------------------------------------------------------
(* What recursive functions compute                                        *)

\* Whatever steps of this kind a function is defined by, there is one.
Recursion(n, V, base, step) ==
  \E f \in [0..n -> V] : f[0] = base /\ \A i \in 1..n : f[i] = step[<<i, f[i - 1]>>]

LEMMA Steps ==
  ASSUME NEW n \in Nat, NEW V, NEW base \in V, NEW step,
         \A i \in 1..n : \A v \in V : step[<<i, v>>] \in V
  PROVE  Recursion(n, V, base, step)
<1> DEFINE Is(m, f) == f[0] = base /\ \A i \in 1..m : f[i] = step[<<i, f[i - 1]>>]
           bad == {m \in 0..n : ~\E f \in [0..m -> V] : Is(m, f)}
<1>1. SUFFICES ASSUME bad # {}
               PROVE  FALSE
  <2>1. n \in 0..n
    OBVIOUS
  <2> QED
    BY <2>1 DEF Recursion
<1>2. bad \subseteq Nat
  OBVIOUS
<1> HIDE DEF bad
<1>3. PICK m \in bad : \A k \in bad : m <= k
  BY <1>1, <1>2, LeastNatural
<1>4. m \in 0..n /\ ~\E f \in [0..m -> V] : Is(m, f)
  BY <1>3 DEF bad
<1>5. m # 0
  <2> DEFINE f == [i \in 0..0 |-> base]
  <2>1. f \in [0..0 -> V] /\ Is(0, f)
    OBVIOUS
  <2> QED
    BY <1>4, <2>1
<1>6. m - 1 \in 0..n /\ m - 1 \notin bad
  BY <1>3, <1>4, <1>5
<1>7. PICK f \in [0..(m - 1) -> V] : Is(m - 1, f)
  BY <1>6 DEF bad
<1> DEFINE g == [i \in 0..m |-> IF i = m THEN step[<<m, f[m - 1]>>] ELSE f[i]]
<1>8. g \in [0..m -> V]
  BY <1>4, <1>5, <1>7
<1>9. Is(m, g)
  <2>1. g[0] = base
    BY <1>4, <1>5, <1>7
  <2>2. ASSUME NEW i \in 1..m
        PROVE  g[i] = step[<<i, g[i - 1]>>]
    BY <1>4, <1>5, <1>7
  <2> QED
    BY <2>1, <2>2
<1> QED
  BY <1>4, <1>8, <1>9

\* Two functions that start alike and go on alike are alike.
Agree(f, g, n) == \A i \in 0..n : f[i] = g[i]

LEMMA StepsAgree ==
  ASSUME NEW n \in Nat, NEW f, NEW g, f[0] = g[0],
         \A i \in 1..n : f[i - 1] = g[i - 1] => f[i] = g[i]
  PROVE  Agree(f, g, n)
<1> DEFINE bad == {i \in 0..n : f[i] # g[i]}
<1>1. SUFFICES ASSUME bad # {}
               PROVE  FALSE
  BY DEF Agree
<1>2. bad \subseteq Nat
  OBVIOUS
<1> HIDE DEF bad
<1>3. PICK m \in bad : \A k \in bad : m <= k
  BY <1>1, <1>2, LeastNatural
<1>4. m \in 0..n /\ f[m] # g[m] /\ m # 0
  BY <1>3 DEF bad
<1>5. m - 1 \in 0..n /\ m - 1 \notin bad
  BY <1>3, <1>4
<1> QED
  BY <1>4, <1>5 DEF bad

-----------------------------------------------------------------------------
(* Concatenations                                                          *)

\* The concatenation of s, one by one.
Concatenates(f, s, n) ==
  f[0] = <<>> /\ \A i \in 1..n : f[i] = f[i - 1] \o s[i]
Flattens(s, n, Y) == \E f \in [0..n -> Y] : Concatenates(f, s, n) /\ FlattenSeq(s) = f[n]

LEMMA FlattenSteps ==
  ASSUME NEW n \in Nat, NEW Y, <<>> \in Y, \A v, w \in Y : v \o w \in Y,
         \A v \in Y : <<>> \o v = v, NEW s, Len(s) = n, \A i \in 1..n : s[i] \in Y,
         n = 0 => s = <<>>
  PROVE  Flattens(s, n, Y)
<1> DEFINE step == [p \in (1..n) \X Y |-> p[2] \o s[p[1]]]
<1>1. \A i \in 1..n : \A v \in Y : step[<<i, v>>] = v \o s[i] /\ step[<<i, v>>] \in Y
  OBVIOUS
<1> HIDE DEF step
<1>2. PICK f \in [0..n -> Y] : f[0] = <<>> /\ \A i \in 1..n : f[i] = step[<<i, f[i - 1]>>]
  <2>1. \A i \in 1..n : \A v \in Y : step[<<i, v>>] \in Y
    BY <1>1
  <2>2. Recursion(n, Y, <<>>, step)
    BY <2>1, Steps
  <2> QED
    BY <2>2 DEF Recursion
<1>3. \A i \in 1..n : i - 1 \in 0..n /\ i \in 0..n /\ f[i - 1] \in Y /\ f[i] \in Y
  OBVIOUS
<1>4. \A i \in 1..n : f[i] = f[i - 1] \o s[i]
  BY <1>1, <1>2, <1>3
<1>5. FlattenSeq(s) = f[n]
  <2>1. CASE n = 0
    BY <1>2, <2>1 DEF FlattenSeq
  <2>2. CASE n # 0
    <3> DEFINE IsFlat(h) == h = [i \in 1..n |-> IF i = 1 THEN s[i] ELSE h[i - 1] \o s[i]]
               g == [i \in 1..n |-> f[i]]
               flat == CHOOSE h : IsFlat(h)
    <3>1. n >= 1 /\ n \in 1..n /\ 1 \in 1..n
      BY <2>2
    <3>2. f[1] = s[1]
      <4>1. f[1] = f[0] \o s[1]
        BY <1>4, <3>1
      <4> QED
        BY <1>2, <3>1, <4>1
    <3>3. IsFlat(g)
      <4>1. ASSUME NEW i \in 1..n
            PROVE  g[i] = IF i = 1 THEN s[i] ELSE g[i - 1] \o s[i]
        <5>1. CASE i = 1
          BY <3>2, <5>1
        <5>2. CASE i # 1
          <6>1. i - 1 \in 1..n /\ f[i] = f[i - 1] \o s[i]
            BY <1>4, <5>2
          <6> QED
            BY <5>2, <6>1
        <5> QED
          BY <5>1, <5>2
      <4> QED
        BY <4>1
    <3>4. IsFlat(flat)
      BY <3>3
    <3>5. flat = [i \in 1..n |-> IF i = 1 THEN s[i] ELSE flat[i - 1] \o s[i]]
      BY <3>4
    <3>6. FlattenSeq(s) = flat[n]
      BY <2>2 DEF FlattenSeq
    <3> HIDE DEF flat, IsFlat
    <3>7. \A i \in 1..n : flat[i] = IF i = 1 THEN s[i] ELSE flat[i - 1] \o s[i]
      BY <3>5
    <3> DEFINE h == [i \in 0..n |-> IF i = 0 THEN <<>> ELSE flat[i]]
    <3>8. \A i \in 0..n : f[i] = h[i]
      <4>1. f[0] = h[0]
        BY <1>2
      <4>2. ASSUME NEW i \in 1..n, f[i - 1] = h[i - 1]
            PROVE  f[i] = h[i]
        <5>1. CASE i = 1
          BY <3>2, <3>7, <5>1
        <5>2. CASE i # 1
          <6>4. flat[i] = IF i = 1 THEN s[i] ELSE flat[i - 1] \o s[i]
            BY <3>7
          <6>1. i - 1 \in 1..n /\ flat[i] = flat[i - 1] \o s[i]
            BY <5>2, <6>4
          <6>3. f[i] = f[i - 1] \o s[i]
            BY <1>4
          <6>2. h[i - 1] = flat[i - 1] /\ h[i] = flat[i]
            BY <6>1
          <6> QED
            BY <4>2, <6>1, <6>2, <6>3
        <5> QED
          BY <5>1, <5>2
      <4> HIDE DEF h
      <4>3. \A i \in 1..n : f[i - 1] = h[i - 1] => f[i] = h[i]
        BY <4>2
      <4>4. Agree(f, h, n)
        BY <4>1, <4>3, StepsAgree
      <4> QED
        BY <4>4 DEF Agree
    <3> QED
      BY <3>1, <3>6, <3>8
  <2> QED
    BY <2>1, <2>2
<1> QED
  BY <1>2, <1>4, <1>5 DEF Flattens, Concatenates

LEMMA SomeFlatten ==
  ASSUME NEW X, NEW s \in Seq(Seq(X))
  PROVE  Flattens(s, Len(s), Seq(X))
<1>1. Len(s) \in Nat /\ (\A i \in 1..Len(s) : s[i] \in Seq(X)) /\ (Len(s) = 0 => s = <<>>)
  OBVIOUS
<1>2. <<>> \in Seq(X) /\ (\A v, w \in Seq(X) : v \o w \in Seq(X))
      /\ \A v \in Seq(X) : <<>> \o v = v
  BY ConcatProperties, ConcatEmptySeq
<1> QED
  BY <1>1, <1>2, FlattenSteps, Zenon

\* Whatever concatenates the sequences one by one ends with their concatenation.
LEMMA FlattenIs ==
  ASSUME NEW X, NEW s \in Seq(Seq(X)), NEW g, Concatenates(g, s, Len(s))
  PROVE  FlattenSeq(s) = g[Len(s)] /\ FlattenSeq(s) \in Seq(X)
<1>1. PICK f \in [0..Len(s) -> Seq(X)] : Concatenates(f, s, Len(s)) /\ FlattenSeq(s) = f[Len(s)]
  BY SomeFlatten DEF Flattens
<1>2. Len(s) \in Nat /\ Len(s) \in 0..Len(s)
  OBVIOUS
<1>3. \A i \in 0..Len(s) : f[i] = g[i]
  <2>1. f[0] = g[0] /\ \A i \in 1..Len(s) : f[i - 1] = g[i - 1] => f[i] = g[i]
    BY <1>1 DEF Concatenates
  <2> QED
    BY <1>2, <2>1, StepsAgree DEF Agree
<1> QED
  BY <1>1, <1>2, <1>3

LEMMA FlattenEmpty == FlattenSeq(<<>>) = <<>>
  BY DEF FlattenSeq

LEMMA FlattenType ==
  ASSUME NEW X, NEW s \in Seq(Seq(X))
  PROVE  FlattenSeq(s) \in Seq(X)
<1>1. PICK f \in [0..Len(s) -> Seq(X)] : FlattenSeq(s) = f[Len(s)]
  BY SomeFlatten DEF Flattens
<1>2. Len(s) \in 0..Len(s)
  OBVIOUS
<1> QED
  BY <1>1, <1>2

EndsWith(s, n, whole) == \E g : Concatenates(g, s, n) /\ g[n] = whole

LEMMA FlattenBoth ==
  ASSUME NEW Y, \A v \in Y : v \o <<>> = v, \A u, v, w \in Y : (u \o v) \o w = u \o (v \o w),
         NEW m \in Nat, NEW n \in Nat, NEW f \in [0..m -> Y], NEW e \in [0..n -> Y],
         NEW s, NEW t, NEW st, \A i \in 1..n : t[i] \in Y,
         \A i \in 1..(m + n) : st[i] = IF i <= m THEN s[i] ELSE t[i - m],
         Concatenates(f, s, m), Concatenates(e, t, n)
  PROVE  EndsWith(st, m + n, f[m] \o e[n])
<1> DEFINE g == [i \in 0..(m + n) |-> IF i <= m THEN f[i] ELSE f[m] \o e[i - m]]
<1>1. f[m] \in Y /\ \A i \in 0..n : e[i] \in Y
  OBVIOUS
<1>5. /\ f[0] = <<>> /\ \A i \in 1..m : f[i] = f[i - 1] \o s[i]
      /\ e[0] = <<>> /\ \A i \in 1..n : e[i] = e[i - 1] \o t[i]
  BY DEF Concatenates
<1>2. ASSUME NEW i \in 1..(m + n)
      PROVE  g[i] = g[i - 1] \o st[i]
  <2>1. CASE i <= m
    <3>1. g[i] = f[i] /\ g[i - 1] = f[i - 1] /\ st[i] = s[i] /\ i \in 1..m
      BY <2>1
    <3> QED
      BY <1>5, <3>1
  <2>2. CASE ~(i <= m)
    <3>1. PICK k \in 1..n : i = m + k /\ i - m = k
      BY <2>2
    <3>2. g[i] = f[m] \o e[k] /\ st[i] = t[k] /\ k - 1 \in 0..n
      BY <2>2, <3>1
    <3>3. g[i - 1] = f[m] \o e[k - 1]
      <4>1. CASE k = 1
        <5>1. g[i - 1] = f[m] /\ e[k - 1] = <<>>
          BY <1>5, <3>1, <4>1
        <5> QED
          BY <1>1, <5>1
      <4>2. CASE k # 1
        <5>1. ~(i - 1 <= m) /\ i - 1 \in 0..(m + n) /\ (i - 1) - m = k - 1
          BY <3>1, <4>2
        <5> QED
          BY <5>1
      <4> QED
        BY <4>1, <4>2
    <3> HIDE DEF g
    <3>4. e[k] = e[k - 1] \o t[k] /\ e[k - 1] \in Y /\ t[k] \in Y
      BY <1>1, <1>5, <3>2
    <3>5. (f[m] \o e[k - 1]) \o t[k] = f[m] \o (e[k - 1] \o t[k])
      BY <1>1, <3>4
    <3> QED
      BY <3>2, <3>3, <3>4, <3>5
  <2> QED
    BY <2>1, <2>2
<1>3. g[0] = <<>>
  BY <1>5
<1>4. g[m + n] = f[m] \o e[n]
  <2>1. CASE n = 0
    <3>1. g[m + n] = f[m] /\ e[n] = <<>>
      BY <1>5, <2>1
    <3> QED
      BY <1>1, <3>1
  <2>2. CASE n # 0
    <3>1. ~(m + n <= m) /\ m + n \in 0..(m + n) /\ (m + n) - m = n
      BY <2>2
    <3> QED
      BY <3>1
  <2> QED
    BY <2>1, <2>2
<1> HIDE DEF g
<1> QED
  BY <1>2, <1>3, <1>4 DEF Concatenates, EndsWith

LEMMA FlattenConcat ==
  ASSUME NEW X, NEW s \in Seq(Seq(X)), NEW t \in Seq(Seq(X))
  PROVE  FlattenSeq(s \o t) = FlattenSeq(s) \o FlattenSeq(t)
<1>1. PICK f \in [0..Len(s) -> Seq(X)] : Concatenates(f, s, Len(s)) /\ FlattenSeq(s) = f[Len(s)]
  BY SomeFlatten DEF Flattens
<1>2. PICK e \in [0..Len(t) -> Seq(X)] : Concatenates(e, t, Len(t)) /\ FlattenSeq(t) = e[Len(t)]
  BY SomeFlatten DEF Flattens
<1>3. /\ s \o t \in Seq(Seq(X)) /\ Len(s \o t) = Len(s) + Len(t)
      /\ \A i \in 1..(Len(s) + Len(t)) : (s \o t)[i] = IF i <= Len(s) THEN s[i] ELSE t[i - Len(s)]
  BY ConcatProperties
<1>4. /\ \A v \in Seq(X) : v \o <<>> = v
      /\ \A u, v, w \in Seq(X) : (u \o v) \o w = u \o (v \o w)
  BY ConcatEmptySeq, ConcatAssociative
<1>5. Len(s) \in Nat /\ Len(t) \in Nat /\ \A i \in 1..Len(t) : t[i] \in Seq(X)
  OBVIOUS
<1>8. EndsWith(s \o t, Len(s) + Len(t), f[Len(s)] \o e[Len(t)])
  BY <1>1, <1>2, <1>3, <1>4, <1>5, FlattenBoth, Zenon
<1>6. PICK g : /\ Concatenates(g, s \o t, Len(s) + Len(t))
               /\ g[Len(s) + Len(t)] = f[Len(s)] \o e[Len(t)]
  BY <1>8 DEF EndsWith
<1>7. FlattenSeq(s \o t) = g[Len(s) + Len(t)]
  BY <1>3, <1>6, FlattenIs, Zenon
<1> QED
  BY <1>1, <1>2, <1>6, <1>7

LEMMA FlattenOne ==
  ASSUME NEW X, NEW e \in Seq(X)
  PROVE  FlattenSeq(<<e>>) = e
<1> DEFINE g == [i \in 0..1 |-> IF i = 0 THEN <<>> ELSE e]
<1>1. g[0] = <<>> /\ g[1] = g[0] \o e
  BY ConcatEmptySeq
<1>2. <<e>> \in Seq(Seq(X)) /\ Len(<<e>>) = 1 /\ <<e>>[1] = e
  OBVIOUS
<1>3. FlattenSeq(<<e>>) = g[1]
  <2> HIDE DEF g
  <2>1. \A i \in 1..Len(<<e>>) : g[i] = g[i - 1] \o <<e>>[i]
    BY <1>1, <1>2
  <2> QED
    BY <1>1, <1>2, <2>1, FlattenIs DEF Concatenates
<1> QED
  BY <1>3

-----------------------------------------------------------------------------
(* A phone number has one identifier: Phones                               *)

LEMMA PrefixIs ==
  ASSUME NEW X, NEW p \in Seq(X), NEW s \in Seq(X)
  PROVE  IsPrefix(p, s) <=> Len(p) <= Len(s) /\ \A i \in 1..Len(p) : s[i] = p[i]
<1>1. SubSeq(p, 1, Len(p)) = p
  BY SubSeqFull
<1>2. ASSUME Len(p) <= Len(s)
      PROVE  /\ SubSeq(s, 1, Len(p)) \in Seq(X) /\ Len(SubSeq(s, 1, Len(p))) = Len(p)
             /\ \A i \in 1..Len(p) : SubSeq(s, 1, Len(p))[i] = s[i]
  BY <1>2
<1>3. ASSUME Len(p) <= Len(s), \A i \in 1..Len(p) : s[i] = p[i]
      PROVE  SubSeq(s, 1, Len(p)) = p
  <2> DEFINE t == SubSeq(s, 1, Len(p))
  <2>1. t \in Seq(X) /\ Len(t) = Len(p) /\ \A i \in 1..Len(t) : t[i] = p[i]
    BY <1>2, <1>3
  <2> HIDE DEF t
  <2>2. t = p
    BY <2>1, SeqEqual
  <2> QED
    BY <2>2 DEF t
<1> QED
  BY <1>1, <1>2, <1>3 DEF IsPrefix

LEMMA PrefixOff ==
  ASSUME NEW X, NEW p \in Seq(X), NEW s \in Seq(X), IsPrefix(p, s)
  PROVE  s = p \o SubSeq(s, Len(p) + 1, Len(s))
<1>1. SubSeq(s, 1, Len(p)) = p /\ Len(p) <= Len(s) /\ Len(p) \in Nat /\ Len(s) \in Nat
  BY SubSeqFull DEF IsPrefix
<1>2. SubSeq(s, 1, Len(p)) \o SubSeq(s, Len(p) + 1, Len(s)) = SubSeq(s, 1, Len(s))
  <2>1. /\ 1 \in 1..(Len(s) + 1) /\ Len(p) \in (1 - 1)..Len(s) /\ Len(s) \in Len(p)..Len(s)
    BY <1>1
  <2> QED
    BY <2>1, ConcatAdjacentSubSeq
<1> QED
  BY <1>1, <1>2, SubSeqFull

LEMMA PrefixOn ==
  ASSUME NEW X, NEW p \in Seq(X), NEW s \in Seq(X)
  PROVE  /\ SubSeq(p \o s, Len(p) + 1, Len(p \o s)) = s
         /\ SubSeq(p \o s, 1, Len(p)) = p
<1>1. /\ p \o s \in Seq(X) /\ Len(p \o s) = Len(p) + Len(s) /\ Len(p) \in Nat /\ Len(s) \in Nat
      /\ \A i \in 1 .. Len(p) + Len(s) :
           (p \o s)[i] = IF i <= Len(p) THEN p[i] ELSE s[i - Len(p)]
  BY ConcatProperties
<1> DEFINE t == SubSeq(p \o s, Len(p) + 1, Len(p) + Len(s))
           u == SubSeq(p \o s, 1, Len(p))
<1>2. t \in Seq(X) /\ Len(t) = Len(s) /\ \A i \in 1..Len(s) : t[i] = (p \o s)[Len(p) + i]
  BY <1>1
<1>3. u \in Seq(X) /\ Len(u) = Len(p) /\ \A i \in 1..Len(p) : u[i] = (p \o s)[i]
  BY <1>1
<1> HIDE DEF t, u
<1>4. \A i \in 1..Len(s) : t[i] = s[i]
  BY <1>1, <1>2
<1>5. \A i \in 1..Len(p) : u[i] = p[i]
  BY <1>1, <1>3
<1>6. t = s /\ u = p
  BY <1>2, <1>3, <1>4, <1>5, SeqEqual
<1> QED
  BY <1>1, <1>6 DEF t, u

LEMMA PhoneWords ==
  /\ \A s : PH!FlattenSeq(s) = FlattenSeq(s)
  /\ \A s, t : PH!IsPrefix(s, t) = IsPrefix(s, t)
  /\ \A s, n, e : PH!InsertAt(s, n, e) = InsertAt(s, n, e)
BY DEF PH!FlattenSeq, FlattenSeq, PH!IsPrefix, IsPrefix, PH!InsertAt, InsertAt

Signs == PH!Numerals \cup {phPlus}

LEMMA PhoneNumbers ==
  /\ phLength \in Nat \ {0} /\ phPlus \in Int
  /\ phPlus \notin PH!Numerals /\ phPlus \notin DOMAIN phTranslation
  /\ PH!Numerals \subseteq Int /\ 0..9 \subseteq PH!Numerals
  /\ DOMAIN phTranslation \subseteq Int /\ DOMAIN phTranslation \cap PH!Numerals = {}
  /\ \A c \in DOMAIN phTranslation : phTranslation[c] \in 0..9
BY FunctionsAssumption DEF PH!PhonesAssumption, PH!Numerals, PH!Digits

Keep(c) == IF c \in Signs THEN <<c>> ELSE <<>>
Keeping(raw) == [n \in DOMAIN raw |-> Keep(PH!Ascii(raw[n]))]

LEMMA KeptType == Signs \subseteq Int /\ \A c \in Signs : PH!Ascii(c) = c
  BY PhoneNumbers DEF Signs, PH!Ascii

LEMMA CleanedIs == \A raw : PH!Cleaned(raw) = FlattenSeq(Keeping(raw))
  BY PhoneWords DEF PH!Cleaned, Keeping, Keep, Signs

LEMMA KeepingType ==
  ASSUME NEW raw \in Seq(Int)
  PROVE  /\ Keeping(raw) \in Seq(Seq(Signs)) /\ Len(Keeping(raw)) = Len(raw)
         /\ \A n \in 1..Len(raw) : Keeping(raw)[n] = Keep(PH!Ascii(raw[n]))
<1>1. \A c : Keep(c) \in Seq(Signs)
  BY DEF Keep
<1>2. DOMAIN raw = 1..Len(raw) /\ Len(raw) \in Nat
  OBVIOUS
<1>3. Keeping(raw) = [n \in 1..Len(raw) |-> Keep(PH!Ascii(raw[n]))]
  BY <1>2 DEF Keeping
<1> QED
  BY <1>1, <1>2, <1>3

LEMMA CleanedType ==
  ASSUME NEW raw \in Seq(Int)
  PROVE  PH!Cleaned(raw) \in Seq(Signs)
BY CleanedIs, KeepingType, FlattenType

LEMMA CleanedConcat ==
  ASSUME NEW s \in Seq(Int), NEW t \in Seq(Int)
  PROVE  PH!Cleaned(s \o t) = PH!Cleaned(s) \o PH!Cleaned(t)
<1>1. /\ s \o t \in Seq(Int) /\ Len(s \o t) = Len(s) + Len(t) /\ Len(s) \in Nat /\ Len(t) \in Nat
      /\ \A i \in 1 .. Len(s) + Len(t) :
           (s \o t)[i] = IF i <= Len(s) THEN s[i] ELSE t[i - Len(s)]
  BY ConcatProperties
<1> DEFINE a == Keeping(s)
           b == Keeping(t)
           c == Keeping(s \o t)
<1>2. /\ a \in Seq(Seq(Signs)) /\ Len(a) = Len(s)
      /\ \A n \in 1..Len(s) : a[n] = Keep(PH!Ascii(s[n]))
      /\ b \in Seq(Seq(Signs)) /\ Len(b) = Len(t)
      /\ \A n \in 1..Len(t) : b[n] = Keep(PH!Ascii(t[n]))
      /\ c \in Seq(Seq(Signs)) /\ Len(c) = Len(s) + Len(t)
      /\ \A n \in 1..(Len(s) + Len(t)) : c[n] = Keep(PH!Ascii((s \o t)[n]))
  BY <1>1, KeepingType
<1> HIDE DEF a, b, c
<1>3. /\ a \o b \in Seq(Seq(Signs)) /\ Len(a \o b) = Len(s) + Len(t)
      /\ \A i \in 1 .. Len(s) + Len(t) : (a \o b)[i] = IF i <= Len(s) THEN a[i] ELSE b[i - Len(s)]
  <2>1. /\ a \o b \in Seq(Seq(Signs)) /\ Len(a \o b) = Len(a) + Len(b)
        /\ \A i \in 1 .. Len(a) + Len(b) : (a \o b)[i] = IF i <= Len(a) THEN a[i] ELSE b[i - Len(a)]
    <3>1. a \in Seq(Seq(Signs)) /\ b \in Seq(Seq(Signs))
      BY <1>2
    <3> QED
      BY <3>1, ConcatProperties, Zenon
  <2> QED
    BY <1>2, <2>1
<1>4. ASSUME NEW i \in 1..(Len(s) + Len(t))
      PROVE  (a \o b)[i] = c[i]
  <2>1. CASE i <= Len(s)
    <3>1. i \in 1..Len(s)
      BY <1>1, <2>1
    <3> QED
      BY <1>1, <1>2, <1>3, <2>1, <3>1
  <2>2. CASE ~(i <= Len(s))
    <3>1. i - Len(s) \in 1..Len(t)
      BY <1>1, <2>2
    <3>2. (a \o b)[i] = b[i - Len(s)] /\ (s \o t)[i] = t[i - Len(s)]
      BY <1>1, <1>3, <2>2
    <3> QED
      BY <1>2, <3>1, <3>2
  <2> QED
    BY <2>1, <2>2
<1>5. a \o b = c
  BY <1>2, <1>3, <1>4, SeqEqual
<1>6. FlattenSeq(a \o b) = FlattenSeq(a) \o FlattenSeq(b)
  BY <1>2, FlattenConcat
<1> QED
  BY <1>5, <1>6, CleanedIs DEF a, b, c

LEMMA CleanedSame ==
  ASSUME NEW s \in Seq(Signs)
  PROVE  PH!Cleaned(s) = s
<1>1. s \in Seq(Int)
  BY KeptType, SeqMonotonic
<1> DEFINE a == Keeping(s)
           g == [i \in 0..Len(s) |-> SubSeq(s, 1, i)]
<1>2. a \in Seq(Seq(Signs)) /\ Len(a) = Len(s) /\ \A n \in 1..Len(s) : a[n] = Keep(PH!Ascii(s[n]))
  BY <1>1, KeepingType
<1>3. \A n \in 1..Len(s) : a[n] = <<s[n]>>
  <2> SUFFICES ASSUME NEW n \in 1..Len(s)
               PROVE  a[n] = <<s[n]>>
    OBVIOUS
  <2>1. s[n] \in Signs
    BY ElementOfSeq
  <2>2. a[n] = Keep(PH!Ascii(s[n]))
    BY <1>2
  <2> HIDE DEF a
  <2> QED
    BY <2>1, <2>2, KeptType DEF Keep
<1>4. Len(s) \in Nat
  OBVIOUS
<1>5. g[0] = <<>>
  BY <1>4
<1>6. ASSUME NEW i \in 1..Len(s)
      PROVE  g[i] = g[i - 1] \o a[i]
  <2>1. SubSeq(s, 1, i) = SubSeq(s, 1, i - 1) \o <<s[i]>>
    BY <1>4, SubSeqRecursiveSecond
  <2>2. g[i] = SubSeq(s, 1, i) /\ g[i - 1] = SubSeq(s, 1, i - 1)
    BY <1>4
  <2> HIDE DEF g, a
  <2> QED
    BY <1>3, <2>1, <2>2
<1>7. g[Len(s)] = s
  BY <1>4, SubSeqFull
<1> HIDE DEF a, g
<1>8. Concatenates(g, a, Len(a))
  BY <1>2, <1>5, <1>6 DEF Concatenates
<1>9. FlattenSeq(a) = g[Len(a)]
  BY <1>2, <1>8, FlattenIs
<1> QED
  BY <1>2, <1>7, <1>9, CleanedIs DEF a

LEMMA CleanedNothing ==
  ASSUME NEW filler \in Int \ PH!Meant
  PROVE  PH!Cleaned(<<filler>>) = <<>>
<1>1. PH!Ascii(filler) = filler /\ filler \notin Signs
  BY DEF PH!Meant, PH!Ascii, Signs
<1>2. <<filler>> \in Seq(Int) /\ Len(<<filler>>) = 1 /\ <<filler>>[1] = filler
  OBVIOUS
<1>3. /\ Keeping(<<filler>>) \in Seq(Seq(Signs)) /\ Len(Keeping(<<filler>>)) = 1
      /\ Keeping(<<filler>>)[1] = <<>>
  <2>1. /\ Keeping(<<filler>>) \in Seq(Seq(Signs)) /\ Len(Keeping(<<filler>>)) = 1
        /\ Keeping(<<filler>>)[1] = Keep(PH!Ascii(<<filler>>[1]))
    <3>1. 1 \in 1..Len(<<filler>>)
      BY <1>2
    <3> QED
      BY <1>2, <3>1, KeepingType, Zenon
  <2>2. Keep(PH!Ascii(<<filler>>[1])) = <<>>
    BY <1>1, <1>2 DEF Keep
  <2> QED
    BY <2>1, <2>2
<1>4. Keeping(<<filler>>) = << <<>> >>
  BY <1>3
<1>5. FlattenSeq(<< <<>> >>) = <<>>
  <2>1. <<>> \in Seq(Signs)
    OBVIOUS
  <2> QED
    BY <2>1, FlattenOne
<1> QED
  BY <1>4, <1>5, CleanedIs

LEMMA FillerChangesNothing ==
  ASSUME NEW raw \in Seq(Int), NEW filler \in Int \ PH!Meant, NEW n \in 0..Len(raw)
  PROVE  PH!Cleaned(PH!InsertAt(raw, n + 1, filler)) = PH!Cleaned(raw)
<1> DEFINE before == SubSeq(raw, 1, n)
           after == SubSeq(raw, n + 1, Len(raw))
<1>1. Len(raw) \in Nat
  OBVIOUS
<1>2. before \in Seq(Int) /\ after \in Seq(Int) /\ <<filler>> \in Seq(Int)
  BY <1>1
<1>3. PH!InsertAt(raw, n + 1, filler) = before \o <<filler>> \o after
  <2> HIDE DEF after
  <2>3. after = SubSeq(raw, n + 1, Len(raw))
    BY DEF after
  <2>4. \A m : InsertAt(raw, m, filler) = SubSeq(raw, 1, m - 1) \o <<filler>> \o SubSeq(raw, m, Len(raw))
    BY Zenon DEF InsertAt
  <2>5. PICK one : one = <<filler>>
    OBVIOUS
  <2>6. \A m : InsertAt(raw, m, filler) = SubSeq(raw, 1, m - 1) \o one \o SubSeq(raw, m, Len(raw))
    BY <2>4, <2>5, Zenon
  <2>2. PH!InsertAt(raw, n + 1, filler) = SubSeq(raw, 1, n) \o one \o after
    <3>1. PICK m : m = n + 1
      OBVIOUS
    <3>2. m - 1 = n
      BY <3>1
    <3>3. InsertAt(raw, m, filler) = SubSeq(raw, 1, n) \o one \o SubSeq(raw, m, Len(raw))
      BY <2>6, <3>2
    <3> QED
      BY <2>3, <3>1, <3>3, PhoneWords
  <2> QED
    BY <2>2, <2>5, Zenon
<1>4. before \o after = raw
  <2>1. /\ 1 \in 1..(Len(raw) + 1) /\ n \in (1 - 1)..Len(raw) /\ Len(raw) \in n..Len(raw)
    BY <1>1
  <2>2. before \o after = SubSeq(raw, 1, Len(raw))
    BY <2>1, ConcatAdjacentSubSeq
  <2> QED
    BY <2>2, SubSeqFull
<1> HIDE DEF before, after
<1>5. PH!Cleaned(before \o <<filler>>) = PH!Cleaned(before)
  <2>1. PH!Cleaned(before) \in Seq(Signs)
    BY <1>2, CleanedType
  <2>2. PH!Cleaned(before) \o <<>> = PH!Cleaned(before)
    BY <2>1, ConcatEmptySeq
  <2> QED
    BY <1>2, <2>2, CleanedConcat, CleanedNothing
<1>6. before \o <<filler>> \in Seq(Int)
  BY <1>2, ConcatProperties
<1>7. PH!Cleaned(before \o <<filler>> \o after) = PH!Cleaned(before) \o PH!Cleaned(after)
  BY <1>2, <1>5, <1>6, CleanedConcat
<1>8. PH!Cleaned(before \o after) = PH!Cleaned(before) \o PH!Cleaned(after)
  BY <1>2, CleanedConcat
<1> QED
  BY <1>3, <1>4, <1>7, <1>8

LEMMA KeyboardsDo ==
  ASSUME NEW raw \in Seq(Int), NEW filler \in Int \ PH!Meant
  PROVE  PH!KeyboardsAgree(raw, filler)
<1>1. ASSUME NEW n \in DOMAIN raw, NEW char \in DOMAIN phTranslation,
             phTranslation[char] = raw[n]
      PROVE  PH!Cleaned([raw EXCEPT ![n] = char]) = PH!Cleaned(raw)
  <2>1. PICK typed : typed = [raw EXCEPT ![n] = char]
    OBVIOUS
  <2>2. DOMAIN typed = DOMAIN raw /\ typed[n] = char /\ \A m \in DOMAIN raw \ {n} : typed[m] = raw[m]
    BY <2>1
  <2>3. PH!Ascii(char) = raw[n] /\ PH!Ascii(raw[n]) = raw[n]
    BY <1>1, PhoneNumbers DEF PH!Ascii
  <2>4. \A m \in DOMAIN raw : PH!Ascii(typed[m]) = PH!Ascii(raw[m])
    BY <2>2, <2>3
  <2>5. Keeping(typed) = Keeping(raw)
    BY <2>2, <2>4 DEF Keeping
  <2> QED
    BY <2>1, <2>5, CleanedIs
<1> QED
  BY <1>1, FillerChangesNothing DEF PH!KeyboardsAgree, PH!Normalize

-----------------------------------------------------------------------------
Country(n) == PH!CountryPrefixes[n]

LEMMA Countries ==
  /\ DOMAIN PH!CountryPrefixes = 1..4
  /\ \A n \in 1..4 : Country(n) \in Seq(Signs)
  /\ Len(Country(1)) = 3 /\ Country(1)[1] = phPlus /\ Country(1)[2] = 9 /\ Country(1)[3] = 8
  /\ Len(Country(2)) = 4 /\ Country(2)[1] = 0 /\ Country(2)[2] = 0 /\ Country(2)[3] = 9
  /\ Country(2)[4] = 8
  /\ Len(Country(3)) = 2 /\ Country(3)[1] = 9 /\ Country(3)[2] = 8
  /\ Len(Country(4)) = 1 /\ Country(4)[1] = 0
<1>1. {0, 8, 9, phPlus} \subseteq Signs
  BY PhoneNumbers DEF Signs
<1> QED
  BY <1>1 DEF Country, PH!CountryPrefixes

LEMMA CountryTuples == Country(1) = <<phPlus, 9, 8>> /\ Country(3) = <<9, 8>>
  BY DEF Country, PH!CountryPrefixes

\* A number begins with the prefix, by its characters.
Begins(n, s) ==
  Len(Country(n)) <= Len(s) /\ \A i \in 1..Len(Country(n)) : s[i] = Country(n)[i]

LEMMA CountryFits ==
  ASSUME NEW s \in Seq(Signs), NEW n \in 1..4
  PROVE  PH!IsPrefix(PH!CountryPrefixes[n], s) <=> Begins(n, s)
<1>1. Country(n) \in Seq(Signs)
  BY Countries
<1> QED
  BY <1>1, PhoneWords, PrefixIs DEF Country, Begins

LEMMA BeginsWith ==
  ASSUME NEW s, NEW n \in 1..4, Begins(n, s)
  PROVE  /\ n = 1 => s[1] = phPlus
         /\ n = 2 => s[1] = 0 /\ s[2] = 0
         /\ n = 3 => s[1] = 9
         /\ n = 4 => s[1] = 0
<1>1. 1 \in 1..3 /\ 1 \in 1..4 /\ 2 \in 1..4 /\ 1 \in 1..2 /\ 1 \in 1..1
  OBVIOUS
<1>2. CASE n = 1
  BY <1>1, <1>2, Countries DEF Begins
<1>3. CASE n = 2
  BY <1>1, <1>3, Countries DEF Begins
<1>4. CASE n = 3
  BY <1>1, <1>4, Countries DEF Begins
<1>5. CASE n = 4
  BY <1>1, <1>5, Countries DEF Begins
<1> QED
  BY <1>2, <1>3, <1>4, <1>5

LEMMA RemainderIs ==
  ASSUME NEW s \in Seq(Signs)
  PROVE  \/ /\ PH!Remainder(s) = s
            /\ \A n \in 1..4 : ~PH!IsPrefix(PH!CountryPrefixes[n], s)
         \/ \E n \in 1..4 : /\ PH!IsPrefix(PH!CountryPrefixes[n], s)
                            /\ \A m \in 1..4 : PH!IsPrefix(PH!CountryPrefixes[m], s) => n <= m
                            /\ PH!Remainder(s) = SubSeq(s, Len(Country(n)) + 1, Len(s))
<1> DEFINE fits == {n \in 1..4 : PH!IsPrefix(PH!CountryPrefixes[n], s)}
           first == CHOOSE n \in fits : \A m \in fits : n <= m
<1>1. CASE fits = {}
  BY <1>1, Countries DEF PH!Remainder
<1>2. CASE fits # {}
  <2>1. \E n \in fits : \A m \in fits : n <= m
    BY <1>2, LeastNatural
  <2>2. first \in fits /\ \A m \in fits : first <= m
    BY <2>1
  <2>3. PH!Remainder(s) = SubSeq(s, Len(Country(first)) + 1, Len(s))
    BY <1>2, Countries DEF PH!Remainder, Country
  <2> HIDE DEF first
  <2> QED
    BY <2>2, <2>3
<1> QED
  BY <1>1, <1>2

\* A number that follows one of the prefixes, and a number without one that
\* does not look like it had one.
LEMMA SpelledOut ==
  ASSUME NEW r \in Seq(Signs), PH!IsSubscriberNumber(r), NEW n \in 1..4
  PROVE  PH!Remainder(Country(n) \o r) = r
<1> DEFINE s == Country(n) \o r
           k == Len(Country(n))
<1>1. r[1] = 9 /\ Len(r) \in Nat \ {0}
  BY PhoneNumbers DEF PH!IsSubscriberNumber
<1>2. Country(n) \in Seq(Signs) /\ k \in 1..4
  BY Countries
<1>3. /\ s \in Seq(Signs) /\ Len(s) = k + Len(r)
      /\ \A i \in 1..(k + Len(r)) : s[i] = IF i <= k THEN Country(n)[i] ELSE r[i - k]
  <2>1. r \in Seq(Signs)
    OBVIOUS
  <2> QED
    BY <1>2, <2>1, ConcatProperties, Zenon
<1>4. SubSeq(s, k + 1, Len(s)) = r
  BY <1>2, PrefixOn
<1> HIDE DEF s
<1>5. (\A i \in 1..k : s[i] = Country(n)[i]) /\ s[k + 1] = 9 /\ Len(s) >= k + 1
  <2>1. \A i \in 1..k : i \in 1..(k + Len(r))
    BY <1>1, <1>2
  <2>2. k + 1 \in 1..(k + Len(r)) /\ (k + 1) - k = 1 /\ ~(k + 1 <= k)
    BY <1>1, <1>2
  <2> HIDE DEF k
  <2>3. s[k + 1] = r[1]
    BY <1>3, <2>2
  <2> QED
    BY <1>1, <1>2, <1>3, <2>1, <2>3
<1>6. PH!IsPrefix(PH!CountryPrefixes[n], s)
  <2>1. k <= Len(s)
    BY <1>1, <1>2, <1>3
  <2>2. Begins(n, s)
    BY <1>5, <2>1, Zenon DEF Begins
  <2> QED
    BY <1>3, <2>2, CountryFits
<1>7. ASSUME NEW m \in 1..4, m < n
      PROVE  ~PH!IsPrefix(PH!CountryPrefixes[m], s)
  <2>1. Begins(n, s)
    BY <1>3, <1>6, CountryFits
  <2>2. s[1] = IF n \in {2, 4} THEN 0 ELSE 9
    BY <1>7, <2>1, BeginsWith
  <2>3. n = 4 => s[2] = 9
    <3>1. n = 4 => k + 1 = 2
      BY Countries
    <3> QED
      BY <1>5, <3>1
  <2>4. phPlus \notin {0, 9}
    BY PhoneNumbers
  <2>5. ~Begins(m, s)
    <3>1. CASE m = 1
      BY <2>2, <2>4, <3>1, BeginsWith
    <3>2. CASE m = 2
      BY <1>7, <2>2, <2>3, <3>2, BeginsWith
    <3>3. CASE m = 3
      BY <1>7, <2>2, <3>3, BeginsWith
    <3> QED
      BY <1>7, <3>1, <3>2, <3>3
  <2> QED
    BY <1>3, <2>5, CountryFits
<1>8. \A m \in 1..4 : PH!IsPrefix(PH!CountryPrefixes[m], s) => n <= m
  BY <1>7
<1>9. PICK m \in 1..4 : /\ PH!IsPrefix(PH!CountryPrefixes[m], s)
                        /\ \A j \in 1..4 : PH!IsPrefix(PH!CountryPrefixes[j], s) => m <= j
                        /\ PH!Remainder(s) = SubSeq(s, Len(Country(m)) + 1, Len(s))
  BY <1>3, <1>6, RemainderIs
<1>10. m = n
  BY <1>6, <1>8, <1>9
<1> QED
  BY <1>4, <1>9, <1>10 DEF s

LEMMA SpelledBare ==
  ASSUME NEW r \in Seq(Signs), PH!IsSubscriberNumber(r), ~PH!IsPrefix(<<9, 8>>, r)
  PROVE  PH!Remainder(r) = r
<1>1. r[1] = 9 /\ phPlus # 9
  BY PhoneNumbers DEF PH!IsSubscriberNumber
<1>2. ASSUME NEW n \in 1..4
      PROVE  ~PH!IsPrefix(PH!CountryPrefixes[n], r)
  <2>1. CASE n = 3
    BY <2>1, CountryTuples DEF Country
  <2>2. CASE n # 3
    <3>1. ~Begins(n, r)
      BY <1>1, <2>2, BeginsWith
    <3> QED
      BY <3>1, CountryFits
  <2> QED
    BY <2>1, <2>2
<1> QED
  BY <1>2, RemainderIs

LEMMA NumberOfSpelling ==
  ASSUME NEW r \in Seq(Signs), PH!IsSubscriberNumber(r), NEW s \in Seq(Signs),
         \/ \E n \in 1..4 : s = Country(n) \o r
         \/ s = r /\ ~PH!IsPrefix(<<9, 8>>, r)
  PROVE  PH!Normalize(s) = <<phPlus, 9, 8>> \o r
<1>1. PH!Cleaned(s) = s
  BY CleanedSame
<1>2. PH!Remainder(s) = r
  BY SpelledOut, SpelledBare
<1> QED
  BY <1>1, <1>2 DEF PH!Normalize

LEMMA SpellingsDo ==
  ASSUME NEW raw \in Seq(Int)
  PROVE  PH!SpellingsAreOne(raw)
<1> DEFINE cleaned == PH!Cleaned(raw)
           r == PH!Remainder(cleaned)
           identifier == PH!Normalize(raw)
<1>1. SUFFICES ASSUME identifier # PH!Refused
               PROVE  /\ cleaned \in PH!Spellings(identifier)
                      /\ PH!Normalize(identifier) = identifier
                      /\ \A s \in PH!Spellings(identifier) :
                           PH!Normalize(s) = identifier
                             \/ (Len(s) = phLength /\ PH!IsPrefix(<<9, 8>>, s))
  BY DEF PH!SpellingsAreOne
<1>2. cleaned \in Seq(Signs)
  BY CleanedType
<1>3. PH!IsSubscriberNumber(r) /\ identifier = Country(1) \o r
  BY <1>1, CountryTuples DEF PH!Normalize
<1> HIDE DEF cleaned, identifier
<1>4. r = cleaned \/ \E n \in 1..4 : /\ PH!IsPrefix(PH!CountryPrefixes[n], cleaned)
                                      /\ r = SubSeq(cleaned, Len(Country(n)) + 1, Len(cleaned))
  BY <1>2, RemainderIs
<1> HIDE DEF r
<1>5. r \in Seq(Signs) /\ (r = cleaned \/ \E n \in 1..4 : cleaned = Country(n) \o r)
  <2>1. ASSUME NEW n \in 1..4, PH!IsPrefix(PH!CountryPrefixes[n], cleaned),
               r = SubSeq(cleaned, Len(Country(n)) + 1, Len(cleaned))
        PROVE  r \in Seq(Signs) /\ cleaned = Country(n) \o r
    <3>1. Country(n) \in Seq(Signs) /\ IsPrefix(Country(n), cleaned) /\ Len(Country(n)) \in Nat
      BY <2>1, Countries, PhoneWords DEF Country
    <3>2. cleaned = Country(n) \o SubSeq(cleaned, Len(Country(n)) + 1, Len(cleaned))
      BY <1>2, <3>1, PrefixOff
    <3>3. SubSeq(cleaned, Len(Country(n)) + 1, Len(cleaned)) \in Seq(Signs)
      BY <1>2, <3>1
    <3> QED
      BY <2>1, <3>2, <3>3
  <2> QED
    BY <1>2, <1>4, <2>1
<1>6. Country(1) \in Seq(Signs) /\ Len(Country(1)) = 3
  BY Countries
<1>7. identifier \in Seq(Signs) /\ SubSeq(identifier, 4, Len(identifier)) = r
  <2>1. SubSeq(Country(1) \o r, 3 + 1, Len(Country(1) \o r)) = r
    BY <1>5, <1>6, PrefixOn
  <2> QED
    BY <1>3, <1>5, <1>6, <2>1, ConcatProperties
<1>8. PH!Spellings(identifier) = {Country(n) \o r : n \in 1..4} \cup {r}
  BY <1>7, Countries DEF PH!Spellings, Country
<1>9. PH!Normalize(identifier) = identifier
  <2>1. \E n \in 1..4 : identifier = Country(n) \o r
    BY <1>3
  <2>2. PH!Normalize(identifier) = <<phPlus, 9, 8>> \o r
    BY <1>3, <1>5, <1>7, <2>1, NumberOfSpelling
  <2>3. Country(1) = <<phPlus, 9, 8>>
    BY CountryTuples
  <2> QED
    BY <1>3, <2>2, <2>3
<1>10. ASSUME NEW s \in PH!Spellings(identifier)
       PROVE  \/ PH!Normalize(s) = identifier
              \/ Len(s) = phLength /\ PH!IsPrefix(<<9, 8>>, s)
  <2>1. CASE s = r
    <3>1. Len(r) = phLength
      BY <1>3 DEF PH!IsSubscriberNumber
    <3>2. ~PH!IsPrefix(<<9, 8>>, r) => PH!Normalize(s) = Country(1) \o r
      BY <1>3, <1>5, <2>1, CountryTuples, NumberOfSpelling
    <3> QED
      BY <1>3, <2>1, <3>1, <3>2
  <2>2. ASSUME NEW n \in 1..4, s = Country(n) \o r
        PROVE  PH!Normalize(s) = identifier
    <3>1. s \in Seq(Signs)
      BY <1>5, <2>2, Countries, ConcatProperties
    <3> QED
      BY <1>3, <1>5, <2>2, <3>1, CountryTuples, NumberOfSpelling
  <2> QED
    BY <1>8, <2>1, <2>2
<1>11. cleaned \in PH!Spellings(identifier)
  BY <1>5, <1>8
<1> QED
  BY <1>9, <1>10, <1>11

-----------------------------------------------------------------------------
(* A player's place agrees with the board: Rankings                        *)

\* In a linear order of X before[c] is what comes before c.
Linear(X, before) ==
  /\ before \in [X -> SUBSET X]
  /\ \A c \in X : c \notin before[c]
  /\ \A c, d \in X : d \in before[c] => before[d] \subseteq before[c]
  /\ \A c, d \in X : c # d => c \in before[d] \/ d \in before[c]

LEMMA CountBefore ==
  ASSUME NEW X, IsFiniteSet(X), NEW before, Linear(X, before)
  PROVE  /\ \A c \in X : Cardinality(before[c]) \in Nat /\ Cardinality(before[c]) < Cardinality(X)
         /\ \A c, d \in X : d \in before[c] => Cardinality(before[d]) < Cardinality(before[c])
         /\ \A c, d \in X : Cardinality(before[c]) = Cardinality(before[d]) => c = d
<1>1. Cardinality(X) \in Nat
  BY FS_CardinalityType
<1>2. ASSUME NEW T, T \subseteq X, NEW U, U \subseteq T, NEW d \in T, d \notin U
      PROVE  Cardinality(U) \in Nat /\ Cardinality(U) < Cardinality(T)
  <2>1. IsFiniteSet(T) /\ Cardinality(T) \in Nat
    BY <1>2, FS_Subset, FS_CardinalityType
  <2>2. Cardinality(U) <= Cardinality(T) /\ Cardinality(T) # Cardinality(U) /\ IsFiniteSet(U)
    BY <1>2, <2>1, FS_Subset
  <2>3. Cardinality(U) \in Nat
    BY <2>2, FS_CardinalityType
  <2> QED
    BY <2>1, <2>2, <2>3
<1>3. ASSUME NEW c \in X
      PROVE  Cardinality(before[c]) \in Nat /\ Cardinality(before[c]) < Cardinality(X)
  <2>1. before[c] \subseteq X /\ c \notin before[c]
    BY DEF Linear
  <2> QED
    BY <1>2, <2>1
<1>4. ASSUME NEW c \in X, NEW d \in X, d \in before[c]
      PROVE  Cardinality(before[d]) < Cardinality(before[c])
  <2>1. before[c] \subseteq X /\ before[d] \subseteq before[c] /\ d \notin before[d]
    BY <1>4 DEF Linear
  <2> QED
    BY <1>2, <1>4, <2>1
<1>5. ASSUME NEW c \in X, NEW d \in X, c # d
      PROVE  Cardinality(before[c]) # Cardinality(before[d])
  <2>1. c \in before[d] \/ d \in before[c]
    BY <1>5 DEF Linear
  <2> QED
    BY <1>3, <1>4, <2>1
<1> QED
  BY <1>3, <1>4, <1>5

LEMMA EveryRank ==
  ASSUME NEW X, IsFiniteSet(X), NEW before, Linear(X, before), NEW n \in 1..Cardinality(X)
  PROVE  \E c \in X : Cardinality(before[c]) = n - 1
<1> DEFINE under(m) == {c \in X : Cardinality(before[c]) < m}
<1>1. Cardinality(X) \in Nat
  BY FS_CardinalityType
<1>2. n \in 0..Cardinality(X) /\ n - 1 \in 0..Cardinality(X)
  BY <1>1
<1>3. ASSUME NEW m \in 0..Cardinality(X)
      PROVE  Cardinality(under(m)) = m
  BY Ranks DEF Linear
<1>4. under(n) # under(n - 1)
  <2>1. Cardinality(under(n)) = n /\ Cardinality(under(n - 1)) = n - 1
    BY <1>2, <1>3
  <2>2. n # n - 1
    OBVIOUS
  <2> HIDE DEF under
  <2> QED
    BY <2>1, <2>2
<1>5. \A c \in X : Cardinality(before[c]) \in Nat
  BY CountBefore
<1> QED
  BY <1>4, <1>5

LEMMA BoardWords ==
  /\ \A T : BO!Cardinality(T) = Cardinality(T)
  /\ \A T : BO!IsFiniteSet(T) = IsFiniteSet(T)
BY DEF BO!Cardinality, Cardinality, BO!IsFiniteSet, IsFiniteSet

Ahead(X) == [r \in X |-> {s \in X : BO!Better(s, r)}]

LEMMA BetterIsLinear ==
  ASSUME NEW runs, BO!AreRuns(runs), NEW X, X \subseteq runs
  PROVE  IsFiniteSet(X) /\ Linear(X, Ahead(X))
<1>1. IsFiniteSet(X)
  BY BoardWords, FS_Subset DEF BO!AreRuns
<1>2. \A r \in X : r.score \in Int /\ r.at \in Nat
  BY DEF BO!AreRuns
<1>3. \A r, s \in X : r # s => r.at # s.at
  BY DEF BO!AreRuns
<1>4. \A r \in X : ~BO!Better(r, r)
  BY <1>2 DEF BO!Better
<1>5. \A r, s, t \in X : BO!Better(r, s) /\ BO!Better(s, t) => BO!Better(r, t)
  BY <1>2 DEF BO!Better
<1>6. \A r, s \in X : r # s => BO!Better(r, s) \/ BO!Better(s, r)
  BY <1>2, <1>3 DEF BO!Better
<1>7. Linear(X, Ahead(X))
  BY <1>4, <1>5, <1>6 DEF Linear, Ahead
<1> QED
  BY <1>1, <1>7

\* What is ranked at n has n - 1 better ones, and everyone is ranked.
LEMMA RankedIs ==
  ASSUME NEW runs, BO!AreRuns(runs), NEW since,
         NEW bests, bests = BO!Bests(runs, since), NEW ranked, ranked = BO!Ranked(runs, since)
  PROVE  /\ IsFiniteSet(bests) /\ Linear(bests, Ahead(bests))
         /\ ranked \in [1..Cardinality(bests) -> bests]
         /\ \A n \in 1..Cardinality(bests) : Cardinality(Ahead(bests)[ranked[n]]) = n - 1
         /\ \A r \in bests : \E n \in 1..Cardinality(bests) : ranked[n] = r
<1>1. bests \subseteq runs
  BY DEF BO!Bests
<1>2. IsFiniteSet(bests) /\ Linear(bests, Ahead(bests))
  BY <1>1, BetterIsLinear
<1> DEFINE N == Cardinality(bests)
           count(r) == Cardinality({s \in bests : BO!Better(s, r)})
<1>3. N \in Nat
  BY <1>2, FS_CardinalityType
<1>4. \A r \in bests : Ahead(bests)[r] = {s \in bests : BO!Better(s, r)}
  BY DEF Ahead
<1>5. ranked = [n \in 1..N |-> CHOOSE r \in bests : count(r) = n - 1]
  BY DEF BO!Ranked, BO!Cardinality, Cardinality
<1>6. ASSUME NEW n \in 1..N
      PROVE  ranked[n] \in bests /\ count(ranked[n]) = n - 1
  <2>1. \E r \in bests : count(r) = n - 1
    <3>1. PICK r \in bests : Cardinality(Ahead(bests)[r]) = n - 1
      BY <1>2, EveryRank
    <3> QED
      BY <1>4, <3>1
  <2>2. ranked[n] = CHOOSE r \in bests : count(r) = n - 1
    BY <1>5
  <2> HIDE DEF count
  <2> QED
    BY <2>1, <2>2
<1>7. ranked \in [1..N -> bests]
  <2> HIDE DEF N, count
  <2> QED
    BY <1>5, <1>6
<1>8. ASSUME NEW r \in bests
      PROVE  \E n \in 1..N : ranked[n] = r
  <2>1. count(r) \in Nat /\ count(r) < N
    BY <1>2, <1>4, CountBefore
  <2> HIDE DEF count, N
  <2>2. PICK n \in 1..N : n - 1 = count(r)
    <3>1. count(r) + 1 \in 1..N /\ (count(r) + 1) - 1 = count(r)
      BY <1>3, <2>1
    <3> QED
      BY <3>1
  <2>3. count(ranked[n]) = count(r) /\ ranked[n] \in bests
    BY <1>6, <2>2
  <2>4. ranked[n] = r
    <3>1. Cardinality(Ahead(bests)[ranked[n]]) = Cardinality(Ahead(bests)[r])
      BY <1>4, <2>3 DEF count
    <3> QED
      BY <1>2, <2>3, <3>1, CountBefore
  <2> QED
    BY <2>4
<1> HIDE DEF N, count
<1>9. \A n \in 1..N : Cardinality(Ahead(bests)[ranked[n]]) = n - 1
  BY <1>4, <1>6 DEF count
<1> QED
  BY <1>2, <1>7, <1>8, <1>9 DEF N

\* Who has a run in the period has a best one, no worse than that.
LEMMA BestOf ==
  ASSUME NEW runs, BO!AreRuns(runs), NEW since, NEW r \in runs, r.at >= since
  PROVE  \E b \in BO!Bests(runs, since) : b.player = r.player /\ b.score <= r.score
<1> DEFINE X == {s \in runs : s.at >= since /\ s.player = r.player}
<1>1. X \subseteq runs /\ r \in X
  OBVIOUS
<1> HIDE DEF X
<1>2. IsFiniteSet(X) /\ Linear(X, Ahead(X))
  BY <1>1, BetterIsLinear
<1>3. Cardinality(X) \in Nat /\ Cardinality(X) # 0
  BY <1>1, <1>2, FS_CardinalityType, FS_EmptySet
<1>4. PICK b \in X : Cardinality(Ahead(X)[b]) = 1 - 1
  BY <1>2, <1>3, EveryRank
<1>5. Ahead(X)[b] = {}
  <2>1. Ahead(X)[b] \subseteq X
    BY <1>2 DEF Linear
  <2>2. IsFiniteSet(Ahead(X)[b])
    BY <1>2, <2>1, FS_Subset
  <2> QED
    BY <1>4, <2>2, FS_EmptySet
<1>6. \A s \in X : s # b => BO!Better(b, s)
  <2> SUFFICES ASSUME NEW s \in X, s # b
               PROVE  BO!Better(b, s)
    OBVIOUS
  <2>1. b \in Ahead(X)[s] \/ s \in Ahead(X)[b]
    BY <1>2 DEF Linear
  <2> QED
    BY <1>5, <2>1 DEF Ahead
<1>7. b \in BO!Bests(runs, since) /\ b.player = r.player
  BY <1>6 DEF BO!Bests, X
<1>8. b.score <= r.score
  <2>1. b.score \in Int /\ r.score \in Int
    BY <1>1 DEF BO!AreRuns
  <2>2. b = r \/ BO!Better(b, r)
    BY <1>1, <1>6
  <2> QED
    BY <2>1, <2>2 DEF BO!Better
<1> QED
  BY <1>7, <1>8

LEMMA TopIs ==
  ASSUME NEW runs, BO!AreRuns(runs), NEW since,
         NEW bests, bests = BO!Bests(runs, since), NEW ranked, ranked = BO!Ranked(runs, since),
         NEW top, top = BO!TopOf(runs, since)
  PROVE  /\ DOMAIN top \subseteq 1..Cardinality(bests)
         /\ \A n \in DOMAIN top : top[n] = ranked[n]
         /\ \A n \in 1..Cardinality(bests) : n <= boTopN => n \in DOMAIN top
<1>1. IsFiniteSet(bests) /\ ranked \in [1..Cardinality(bests) -> bests]
  BY RankedIs
<1>2. PICK N \in Nat : N = Cardinality(bests)
  BY <1>1, FS_CardinalityType
<1>3. ranked \in Seq(bests) /\ Len(ranked) = N
  BY <1>1, <1>2
<1> DEFINE k == BO!Min({boTopN, N})
<1>4. boTopN \in Nat \ {0}
  BY FunctionsAssumption DEF BO!RankingsAssumption
<1>5. k \in Nat /\ k <= N /\ (k = N \/ k = boTopN) /\ \A n \in 1..N : n <= boTopN => n <= k
  <2>1. \E x \in {boTopN, N} : \A y \in {boTopN, N} : x <= y
    BY <1>4
  <2>2. k \in {boTopN, N} /\ \A y \in {boTopN, N} : k <= y
    BY <2>1 DEF BO!Min
  <2> HIDE DEF k
  <2> QED
    BY <1>4, <2>2
<1>6. top = SubSeq(ranked, 1, k)
  BY <1>3 DEF BO!TopOf
<1> HIDE DEF k
<1>7. Len(top) = k /\ DOMAIN top = 1..k /\ \A n \in 1..k : top[n] = ranked[n]
  <2>1. \A n \in 1..k : ranked[n] \in bests
    BY <1>1, <1>2, <1>5
  <2> QED
    BY <1>3, <1>5, <1>6, <2>1
<1> QED
  BY <1>2, <1>5, <1>7

LEMMA PlacesDo ==
  ASSUME NEW runs, BO!AreRuns(runs), NEW since
  PROVE  BO!PlacesAgree(runs, since)
<1>1. PICK bests, ranked, top :
        /\ bests = BO!Bests(runs, since) /\ ranked = BO!Ranked(runs, since)
        /\ top = BO!TopOf(runs, since)
  OBVIOUS
<1>2. /\ IsFiniteSet(bests) /\ Linear(bests, Ahead(bests))
      /\ ranked \in [1..Cardinality(bests) -> bests]
      /\ \A n \in 1..Cardinality(bests) : Cardinality(Ahead(bests)[ranked[n]]) = n - 1
      /\ \A r \in bests : \E n \in 1..Cardinality(bests) : ranked[n] = r
  BY <1>1, RankedIs
<1>3. /\ DOMAIN top \subseteq 1..Cardinality(bests)
      /\ \A n \in DOMAIN top : top[n] = ranked[n]
      /\ \A n \in 1..Cardinality(bests) : n <= boTopN => n \in DOMAIN top
  BY <1>1, TopIs
<1>4. ASSUME NEW r \in runs, r.at >= since
      PROVE  \E place \in BO!RankOf(runs, since, r.player) :
               /\ place.score <= r.score
               /\ place.rank <= boTopN =>
                    top[place.rank].player = r.player /\ top[place.rank].score = place.score
  <2>1. PICK b \in bests : b.player = r.player /\ b.score <= r.score
    BY <1>1, <1>4, BestOf
  <2>2. PICK n \in 1..Cardinality(bests) : ranked[n] = b
    BY <1>2
  <2>3. n \in DOMAIN ranked
    BY <1>2
  <2> DEFINE place == [rank |-> n, score |-> ranked[n].score]
  <2>4. place \in BO!RankOf(runs, since, r.player)
    BY <1>1, <2>1, <2>2, <2>3 DEF BO!RankOf
  <2>5. n <= boTopN => top[n] = b
    BY <1>3, <2>2
  <2> QED
    BY <2>1, <2>2, <2>4, <2>5
<1>5. ASSUME NEW m \in DOMAIN top, NEW n \in DOMAIN top, m < n
      PROVE  BO!Better(top[m], top[n]) /\ top[m].player # top[n].player
  <2>1. PICK r \in bests, s \in bests : r = top[m] /\ s = top[n] /\ r = ranked[m] /\ s = ranked[n]
    BY <1>2, <1>3
  <2>2. Cardinality(Ahead(bests)[r]) = m - 1 /\ Cardinality(Ahead(bests)[s]) = n - 1
    BY <1>2, <1>3, <2>1
  <2>3. m - 1 < n - 1 /\ m - 1 # n - 1
    <3>1. m \in Int /\ n \in Int
      BY <1>3
    <3> QED
      BY <1>5, <3>1
  <2>4. r # s
    BY <2>2, <2>3
  <2>5. s \notin Ahead(bests)[r]
    <3>1. s \in Ahead(bests)[r] => n - 1 < m - 1
      BY <1>2, <2>2, CountBefore
    <3>2. m \in Int /\ n \in Int
      BY <1>3
    <3> QED
      BY <2>3, <3>1, <3>2
  <2>6. r \in Ahead(bests)[s]
    BY <1>2, <2>4, <2>5 DEF Linear
  <2>7. BO!Better(r, s) /\ ~BO!Better(s, r)
    BY <2>5, <2>6 DEF Ahead
  <2>8. r.player # s.player
    BY <1>1, <2>4, <2>7 DEF BO!Bests
  <2> QED
    BY <2>1, <2>7, <2>8
<1> QED
  BY <1>1, <1>4, <1>5 DEF BO!PlacesAgree

-----------------------------------------------------------------------------
(* A legal page says what its document says: LegalPages                    *)

LEMMA PageWords == \A s : LP!FlattenSeq(s) = FlattenSeq(s)
  BY DEF LP!FlattenSeq, FlattenSeq

Words == Seq(lpTexts)
PageBlocks == [kind : {"p", "ul", "h", "hr"}, texts : Words]
PageStates == [blocks : Seq(PageBlocks), paragraph : Words, items : Words]

Said(blocks) == FlattenSeq([n \in DOMAIN blocks |-> blocks[n].texts])
\* What is on the page and what is still to be flushed.
PageText(s) == Said(s.blocks) \o s.paragraph \o s.items

LEMMA BlockTypes ==
  /\ \A block \in PageBlocks : block.texts \in Words
  /\ \A kind \in {"p", "ul", "h", "hr"}, texts \in Words :
       LP!Block(kind, texts) \in PageBlocks /\ LP!Block(kind, texts).texts = texts
<1> HIDE DEF Words
<1> QED
  BY DEF PageBlocks, LP!Block

LEMMA ListOfTexts ==
  ASSUME NEW blocks \in Seq(PageBlocks)
  PROVE  /\ [n \in DOMAIN blocks |-> blocks[n].texts] \in Seq(Words)
         /\ Len([n \in DOMAIN blocks |-> blocks[n].texts]) = Len(blocks)
<1>1. DOMAIN blocks = 1..Len(blocks) /\ Len(blocks) \in Nat
  OBVIOUS
<1>2. \A n \in 1..Len(blocks) : blocks[n].texts \in Words
  <2> HIDE DEF Words, PageBlocks
  <2>1. \A n \in 1..Len(blocks) : blocks[n] \in PageBlocks
    BY ElementOfSeq
  <2> QED
    BY <2>1, BlockTypes
<1> HIDE DEF Words
<1> QED
  BY <1>1, <1>2

LEMMA SaidType ==
  ASSUME NEW blocks \in Seq(PageBlocks)
  PROVE  Said(blocks) \in Words
BY ListOfTexts, FlattenType DEF Said, Words

LEMMA SaidMore ==
  ASSUME NEW blocks \in Seq(PageBlocks), NEW block \in PageBlocks
  PROVE  Said(Append(blocks, block)) = Said(blocks) \o block.texts
<1> DEFINE more == Append(blocks, block)
           a == [n \in DOMAIN blocks |-> blocks[n].texts]
           b == [n \in DOMAIN more |-> more[n].texts]
           one == <<block.texts>>
<1>1. /\ more \in Seq(PageBlocks) /\ Len(more) = Len(blocks) + 1 /\ DOMAIN more = 1..(Len(blocks) + 1)
      /\ (\A n \in 1..Len(blocks) : more[n] = blocks[n]) /\ more[Len(blocks) + 1] = block
      /\ Len(blocks) \in Nat /\ DOMAIN blocks = 1..Len(blocks)
  BY AppendProperties
<1>2. a \in Seq(Words) /\ b \in Seq(Words) /\ Len(a) = Len(blocks) /\ Len(b) = Len(blocks) + 1
  BY <1>1, ListOfTexts
<1>3. /\ \A n \in 1..Len(blocks) : a[n] = blocks[n].texts /\ b[n] = a[n]
      /\ b[Len(blocks) + 1] = block.texts
  BY <1>1
<1>4. block.texts \in Words
  BY BlockTypes
<1> HIDE DEF more, a, b, Words
<1>5. one \in Seq(Words) /\ Len(one) = 1 /\ one[1] = block.texts
  BY <1>4
<1>6. /\ a \o one \in Seq(Words) /\ Len(a \o one) = Len(a) + 1
      /\ \A n \in 1..(Len(a) + 1) : (a \o one)[n] = IF n <= Len(a) THEN a[n] ELSE one[n - Len(a)]
  <2> HIDE DEF one
  <2>1. /\ a \o one \in Seq(Words) /\ Len(a \o one) = Len(a) + Len(one)
        /\ \A n \in 1..(Len(a) + Len(one)) : (a \o one)[n] = IF n <= Len(a) THEN a[n] ELSE one[n - Len(a)]
    <3>1. a \in Seq(Words) /\ one \in Seq(Words)
      BY <1>2, <1>5
    <3> QED
      BY <3>1, ConcatProperties, Zenon
  <2> QED
    BY <1>5, <2>1
<1> HIDE DEF one
<1>7. ASSUME NEW n \in 1..(Len(blocks) + 1)
      PROVE  (a \o one)[n] = b[n]
  <2>1. CASE n <= Len(blocks)
    BY <1>1, <1>2, <1>3, <1>6, <2>1
  <2>2. CASE ~(n <= Len(blocks))
    <3>1. n = Len(blocks) + 1 /\ n - Len(blocks) = 1
      BY <1>1, <2>2
    <3> QED
      BY <1>2, <1>3, <1>5, <1>6, <2>2, <3>1
  <2> QED
    BY <2>1, <2>2
<1>8. b = a \o one
  BY <1>2, <1>6, <1>7, SeqEqual
<1>9. FlattenSeq(a \o one) = FlattenSeq(a) \o FlattenSeq(one)
  BY <1>2, <1>5, FlattenConcat DEF Words
<1>10. FlattenSeq(one) = block.texts
  BY <1>4, FlattenOne DEF one, Words
<1> QED
  BY <1>8, <1>9, <1>10 DEF Said, a, b, more

\* Sequences of texts under concatenation.
LEMMA WordsJoin ==
  /\ <<>> \in Words /\ \A u, v \in Words : u \o v \in Words
  /\ \A v \in Words : v \o <<>> = v /\ <<>> \o v = v
  /\ \A u, v, w \in Words : (u \o v) \o w = u \o (v \o w)
  /\ \A v \in Words, text \in lpTexts : Append(v, text) = v \o <<text>> /\ <<text>> \in Words
BY EmptySeq, ConcatProperties, ConcatEmptySeq, ConcatAssociative, AppendIsConcat DEF Words

LEMMA FlushedParagraph ==
  ASSUME NEW s \in PageStates, NEW t, t = LP!FlushParagraph(s)
  PROVE  t \in PageStates /\ PageText(t) = PageText(s) /\ t.paragraph = <<>> /\ t.items = s.items
<1>1. CASE s.paragraph = <<>>
  BY <1>1 DEF LP!FlushParagraph
<1>2. CASE s.paragraph # <<>>
  <2>1. PICK block : block = LP!Block("p", s.paragraph)
    OBVIOUS
  <2>2. block \in PageBlocks /\ block.texts = s.paragraph /\ s.blocks \in Seq(PageBlocks)
        /\ s.paragraph \in Words /\ s.items \in Words
    <3>1. s.blocks \in Seq(PageBlocks) /\ s.paragraph \in Words /\ s.items \in Words
      BY DEF PageStates
    <3> HIDE DEF Words, PageBlocks, PageStates
    <3> QED
      BY <2>1, <3>1, BlockTypes
  <2>3. t = [s EXCEPT !.blocks = Append(@, block), !.paragraph = <<>>]
    BY <1>2, <2>1 DEF LP!FlushParagraph
  <2>4. t.blocks = Append(s.blocks, block) /\ t.paragraph = <<>> /\ t.items = s.items
    BY <2>3 DEF PageStates
  <2>5. Append(s.blocks, block) \in Seq(PageBlocks)
    BY <2>2, AppendProperties
  <2>6. t \in PageStates
    BY <2>3, <2>5, WordsJoin DEF PageStates
  <2>7. Said(t.blocks) = Said(s.blocks) \o s.paragraph /\ Said(s.blocks) \in Words
    BY <2>2, <2>4, SaidMore, SaidType
  <2>8. (Said(s.blocks) \o s.paragraph) \o <<>> = Said(s.blocks) \o s.paragraph
    BY <2>2, <2>7, WordsJoin
  <2> QED
    BY <2>4, <2>6, <2>7, <2>8 DEF PageText
<1> QED
  BY <1>1, <1>2

LEMMA Flushed ==
  ASSUME NEW s \in PageStates, NEW t, t = LP!Flush(s)
  PROVE  /\ t \in PageStates /\ PageText(t) = PageText(s) /\ t.paragraph = <<>> /\ t.items = <<>>
         /\ Said(t.blocks) = PageText(t)
<1>1. PICK u : u = LP!FlushParagraph(s)
  OBVIOUS
<1>2. u \in PageStates /\ PageText(u) = PageText(s) /\ u.paragraph = <<>>
  BY <1>1, FlushedParagraph
<1>3. /\ t \in PageStates /\ PageText(t) = PageText(u) /\ t.paragraph = <<>> /\ t.items = <<>>
  <2>1. CASE u.items = <<>>
    BY <1>1, <1>2, <2>1 DEF LP!Flush
  <2>2. CASE u.items # <<>>
    <3>1. PICK block : block = LP!Block("ul", u.items)
      OBVIOUS
    <3>2. block \in PageBlocks /\ block.texts = u.items /\ u.blocks \in Seq(PageBlocks)
          /\ u.items \in Words
      <4>1. u.blocks \in Seq(PageBlocks) /\ u.items \in Words
        BY <1>2 DEF PageStates
      <4> HIDE DEF Words, PageBlocks, PageStates
      <4> QED
        BY <3>1, <4>1, BlockTypes
    <3>3. t = [u EXCEPT !.blocks = Append(@, block), !.items = <<>>]
      BY <1>1, <2>2, <3>1 DEF LP!Flush
    <3>4. t.blocks = Append(u.blocks, block) /\ t.paragraph = u.paragraph /\ t.items = <<>>
      BY <1>2, <3>3 DEF PageStates
    <3>5. Append(u.blocks, block) \in Seq(PageBlocks)
      BY <3>2, AppendProperties
    <3>6. t \in PageStates
      BY <1>2, <3>3, <3>5, WordsJoin DEF PageStates
    <3>7. Said(t.blocks) = Said(u.blocks) \o u.items /\ Said(u.blocks) \in Words
      BY <3>2, <3>4, SaidMore, SaidType
    <3>8. /\ ((Said(u.blocks) \o u.items) \o <<>>) \o <<>> = Said(u.blocks) \o u.items
          /\ Said(u.blocks) \o <<>> = Said(u.blocks)
      BY <3>2, <3>7, WordsJoin
    <3> QED
      BY <1>2, <3>4, <3>6, <3>7, <3>8 DEF PageText
  <2> QED
    BY <2>1, <2>2
<1>4. Said(t.blocks) = PageText(t)
  <2>1. Said(t.blocks) \in Words
    BY <1>3, SaidType DEF PageStates
  <2>2. (Said(t.blocks) \o <<>>) \o <<>> = Said(t.blocks)
    BY <2>1, WordsJoin
  <2> QED
    BY <1>3, <2>2 DEF PageText
<1> QED
  BY <1>2, <1>3, <1>4

Spoken(line) == IF line.kind \in {"blank", "rule"} THEN <<>> ELSE <<line.text>>

LEMMA OneMoreItem ==
  ASSUME NEW s \in PageStates, NEW text \in lpTexts, NEW t, t = [s EXCEPT !.items = Append(@, text)]
  PROVE  t \in PageStates /\ PageText(t) = PageText(s) \o <<text>>
<1>1. /\ s.blocks \in Seq(PageBlocks) /\ s.paragraph \in Words /\ s.items \in Words
      /\ Said(s.blocks) \in Words
  BY SaidType DEF PageStates
<1>2. t.blocks = s.blocks /\ t.paragraph = s.paragraph /\ t.items = Append(s.items, text)
  BY DEF PageStates
<1>3. Append(s.items, text) = s.items \o <<text>> /\ <<text>> \in Words /\ s.items \o <<text>> \in Words
  BY <1>1, WordsJoin
<1>4. PICK a \in Words : a = Said(s.blocks) \o s.paragraph
  BY <1>1, WordsJoin
<1>5. a \o (s.items \o <<text>>) = (a \o s.items) \o <<text>>
  BY <1>1, <1>3, WordsJoin
<1>6. t \in PageStates
  BY <1>3 DEF PageStates
<1> QED
  BY <1>2, <1>3, <1>4, <1>5, <1>6 DEF PageText

LEMMA OneMoreWord ==
  ASSUME NEW s \in PageStates, s.items = <<>>, NEW text \in lpTexts,
         NEW t, t = [s EXCEPT !.paragraph = Append(@, text)]
  PROVE  t \in PageStates /\ PageText(t) = PageText(s) \o <<text>>
<1>1. /\ s.blocks \in Seq(PageBlocks) /\ s.paragraph \in Words /\ Said(s.blocks) \in Words
  BY SaidType DEF PageStates
<1>2. t.blocks = s.blocks /\ t.paragraph = Append(s.paragraph, text) /\ t.items = <<>>
  BY DEF PageStates
<1>3. /\ Append(s.paragraph, text) = s.paragraph \o <<text>> /\ <<text>> \in Words
      /\ s.paragraph \o <<text>> \in Words
  BY <1>1, WordsJoin
<1>4. PICK a \in Words, p \in Words, w \in Words : a = Said(s.blocks) /\ p = s.paragraph /\ w = <<text>>
  BY <1>1, <1>3
<1>5. (a \o (p \o w)) \o <<>> = ((a \o p) \o <<>>) \o w
  <2>1. a \o p \in Words /\ a \o (p \o w) \in Words
    BY WordsJoin
  <2>2. (a \o (p \o w)) \o <<>> = a \o (p \o w) /\ (a \o p) \o <<>> = a \o p
    BY <2>1, WordsJoin
  <2>3. a \o (p \o w) = (a \o p) \o w
    BY WordsJoin
  <2> QED
    BY <2>2, <2>3
<1>6. t \in PageStates
  BY <1>3 DEF PageStates
<1> QED
  BY <1>2, <1>3, <1>4, <1>5, <1>6 DEF PageText

\* Every line adds what it says and nothing else.
LEMMA LineIsShown ==
  ASSUME NEW s \in PageStates, NEW line \in LP!Lines
  PROVE  /\ LP!RenderLine(s, line) \in PageStates
         /\ PageText(LP!RenderLine(s, line)) = PageText(s) \o Spoken(line)
         /\ Spoken(line) \in Words
<1>1. PICK t, next : t = LP!Flush(s) /\ next = LP!RenderLine(s, line)
  OBVIOUS
<1>2. /\ t \in PageStates /\ PageText(t) = PageText(s) /\ t.paragraph = <<>> /\ t.items = <<>>
      /\ Said(t.blocks) = PageText(t) /\ PageText(t) \in Words /\ t.blocks \in Seq(PageBlocks)
  <2>1. /\ t \in PageStates /\ PageText(t) = PageText(s) /\ t.paragraph = <<>> /\ t.items = <<>>
        /\ Said(t.blocks) = PageText(t)
    BY <1>1, Flushed
  <2>2. t.blocks \in Seq(PageBlocks)
    BY <2>1 DEF PageStates
  <2> QED
    BY <2>1, <2>2, SaidType
<1>3. line.text \in lpTexts /\ line.kind \in LP!LineKinds
  BY DEF LP!Lines
<1>4. Spoken(line) \in Words
  BY <1>3, WordsJoin DEF Spoken
<1>5. CASE line.kind = "blank"
  <2>1. next = t /\ Spoken(line) = <<>>
    BY <1>1, <1>5 DEF LP!RenderLine, Spoken
  <2>2. PageText(t) \o <<>> = PageText(t)
    BY <1>2, WordsJoin
  <2> QED
    BY <1>1, <1>2, <1>4, <2>1, <2>2
<1>6. ASSUME line.kind \in {"heading", "rule"}
      PROVE  next \in PageStates /\ PageText(next) = PageText(s) \o Spoken(line)
  <2>1. PICK block : block = IF line.kind = "heading" THEN LP!Block("h", <<line.text>>)
                             ELSE LP!Block("hr", <<>>)
    OBVIOUS
  <2>2. block \in PageBlocks /\ block.texts = Spoken(line)
    <3>1. <<>> \in Words /\ <<line.text>> \in Words
      BY <1>3, WordsJoin
    <3>2. Spoken(line) = IF line.kind = "heading" THEN <<line.text>> ELSE <<>>
      BY <1>6 DEF Spoken
    <3> HIDE DEF Words, PageBlocks
    <3> QED
      BY <2>1, <3>1, <3>2, BlockTypes
  <2>3. next = [t EXCEPT !.blocks = Append(@, block)]
    BY <1>1, <1>6, <2>1 DEF LP!RenderLine
  <2>4. next.blocks = Append(t.blocks, block) /\ next.paragraph = <<>> /\ next.items = <<>>
    BY <1>2, <2>3 DEF PageStates
  <2>5. Append(t.blocks, block) \in Seq(PageBlocks)
    BY <1>2, <2>2, AppendProperties
  <2>6. next \in PageStates
    BY <1>2, <2>3, <2>5 DEF PageStates
  <2>7. Said(next.blocks) = PageText(s) \o Spoken(line)
    BY <1>2, <2>2, <2>4, SaidMore
  <2>8. (Said(next.blocks) \o <<>>) \o <<>> = Said(next.blocks)
    BY <1>2, <1>4, <2>7, WordsJoin
  <2> QED
    BY <2>4, <2>6, <2>7, <2>8 DEF PageText
<1>7. CASE line.kind = "item"
  <2>1. PICK u : u = LP!FlushParagraph(s)
    OBVIOUS
  <2>2. u \in PageStates /\ PageText(u) = PageText(s)
    BY <2>1, FlushedParagraph
  <2>3. next = [u EXCEPT !.items = Append(@, line.text)] /\ Spoken(line) = <<line.text>>
    BY <1>1, <1>7, <2>1 DEF LP!RenderLine, Spoken
  <2> QED
    BY <1>1, <1>3, <1>4, <2>2, <2>3, OneMoreItem
<1>8. CASE line.kind \in {"indented", "text"}
  <2>1. next = LP!Words(s, line) /\ Spoken(line) = <<line.text>>
    BY <1>1, <1>8 DEF LP!RenderLine, Spoken
  <2>2. CASE s.items # <<>> /\ line.kind = "indented"
    <3>1. next = [s EXCEPT !.items = Append(@, line.text)]
      BY <2>1, <2>2 DEF LP!Words
    <3> QED
      BY <1>1, <1>3, <1>4, <2>1, <3>1, OneMoreItem
  <2>3. CASE ~(s.items # <<>> /\ line.kind = "indented")
    <3>1. PICK u : u = IF s.items = <<>> THEN s ELSE t
      OBVIOUS
    <3>2. u \in PageStates /\ PageText(u) = PageText(s) /\ u.items = <<>>
      BY <1>2, <3>1
    <3>3. next = [u EXCEPT !.paragraph = Append(@, line.text)]
      BY <1>1, <2>1, <2>3, <3>1 DEF LP!Words
    <3> QED
      BY <1>1, <1>3, <1>4, <2>1, <3>2, <3>3, OneMoreWord
  <2> QED
    BY <2>2, <2>3
<1> QED
  BY <1>1, <1>3, <1>4, <1>5, <1>6, <1>7, <1>8 DEF LP!LineKinds

LEMMA PagesDo ==
  ASSUME NEW lines \in Seq(LP!Lines)
  PROVE  LP!NothingIsLost(lines)
<1> DEFINE n == Len(lines)
           IsAfter(f) == f = [i \in 0..n |-> IF i = 0 THEN LP!Start ELSE LP!RenderLine(f[i - 1], lines[i])]
           after == CHOOSE f : IsAfter(f)
           step == [p \in (1..n) \X PageStates |-> LP!RenderLine(p[2], lines[p[1]])]
           spoken == [i \in DOMAIN lines |-> Spoken(lines[i])]
<1>1. n \in Nat /\ DOMAIN lines = 1..n /\ \A i \in 1..n : lines[i] \in LP!Lines
  OBVIOUS
<1>2. LP!Start \in PageStates /\ PageText(LP!Start) = <<>>
  <2>1. <<>> \in Seq(PageBlocks) /\ <<>> \in Words
    BY EmptySeq DEF Words
  <2>2. Said(<<>>) = <<>>
    <3>1. [i \in DOMAIN <<>> |-> <<>>[i].texts] = <<>>
      OBVIOUS
    <3> QED
      BY <3>1, FlattenEmpty DEF Said
  <2>3. (<<>> \o <<>>) \o <<>> = <<>>
    BY <2>1, WordsJoin
  <2> QED
    BY <2>1, <2>2, <2>3 DEF LP!Start, PageStates, PageText
<1>3. PICK f \in [0..n -> PageStates] :
        f[0] = LP!Start /\ \A i \in 1..n : f[i] = LP!RenderLine(f[i - 1], lines[i])
  <2>1. \A i \in 1..n : \A v \in PageStates :
          step[<<i, v>>] = LP!RenderLine(v, lines[i]) /\ step[<<i, v>>] \in PageStates
    BY <1>1, LineIsShown
  <2> HIDE DEF step, n
  <2>2. Recursion(n, PageStates, LP!Start, step)
    BY <1>1, <1>2, <2>1, Steps
  <2>3. PICK f \in [0..n -> PageStates] : f[0] = LP!Start /\ \A i \in 1..n : f[i] = step[<<i, f[i - 1]>>]
    BY <2>2 DEF Recursion
  <2>4. \A i \in 1..n : f[i - 1] \in PageStates
    BY <1>1
  <2>5. ASSUME NEW i \in 1..n
        PROVE  f[i] = LP!RenderLine(f[i - 1], lines[i])
    <3>1. f[i] = step[<<i, f[i - 1]>>] /\ f[i - 1] \in PageStates
      BY <2>3, <2>4
    <3>2. step[<<i, f[i - 1]>>] = LP!RenderLine(f[i - 1], lines[i])
      BY <2>1, <3>1, Zenon
    <3> QED
      BY <3>1, <3>2, Zenon
  <2> QED
    BY <2>3, <2>5, Zenon
<1>4. IsAfter(f)
  <2>1. \A i \in 0..n : f[i] = IF i = 0 THEN LP!Start ELSE LP!RenderLine(f[i - 1], lines[i])
    BY <1>1, <1>3
  <2> QED
    BY <2>1
<1>5. IsAfter(after)
  BY <1>4
<1> HIDE DEF after
<1>6. after[0] = LP!Start /\ \A i \in 1..n : after[i] = LP!RenderLine(after[i - 1], lines[i])
  <2>1. \A i \in 0..n : after[i] = IF i = 0 THEN LP!Start ELSE LP!RenderLine(after[i - 1], lines[i])
    BY <1>5
  <2> HIDE DEF n
  <2>2. 0 \in 0..n /\ \A i \in 1..n : i \in 0..n /\ i # 0
    BY <1>1
  <2>3. after[0] = LP!Start
    BY <2>1, <2>2
  <2>4. ASSUME NEW i \in 1..n
        PROVE  after[i] = LP!RenderLine(after[i - 1], lines[i])
    BY <2>1, <2>2, Zenon
  <2> QED
    BY <2>3, <2>4
<1>7. \A i \in 0..n : f[i] = after[i]
  <2>1. f[0] = after[0] /\ \A i \in 1..n : f[i - 1] = after[i - 1] => f[i] = after[i]
    BY <1>3, <1>6
  <2> HIDE DEF n
  <2>2. Agree(f, after, n)
    BY <1>1, <2>1, StepsAgree
  <2> QED
    BY <2>2, Zenon DEF Agree
<1> DEFINE g == [i \in 0..n |-> PageText(f[i])]
<1>8. spoken \in Seq(Words) /\ Len(spoken) = n /\ \A i \in 1..n : spoken[i] = Spoken(lines[i])
  <2>1. \A i \in 1..n : Spoken(lines[i]) \in Words
    BY <1>1, <1>2, LineIsShown
  <2> HIDE DEF n, Words
  <2> QED
    BY <1>1, <2>1
<1>9. Concatenates(g, spoken, n)
  <2>1. g[0] = <<>>
    BY <1>1, <1>2, <1>3
  <2>2. ASSUME NEW i \in 1..n
        PROVE  g[i] = g[i - 1] \o spoken[i]
    <3>1. i - 1 \in 0..n /\ i \in 0..n
      BY <1>1
    <3>2. g[i] = PageText(f[i]) /\ g[i - 1] = PageText(f[i - 1]) /\ f[i - 1] \in PageStates
      BY <3>1
    <3> HIDE DEF g, spoken
    <3>3. PageText(f[i]) = PageText(f[i - 1]) \o Spoken(lines[i])
      BY <1>1, <1>3, <3>2, LineIsShown
    <3> QED
      BY <1>8, <3>2, <3>3
  <2> HIDE DEF g
  <2> QED
    BY <2>1, <2>2 DEF Concatenates
<1>10. FlattenSeq(spoken) = g[n]
  <2> HIDE DEF g, spoken
  <2> QED
    BY <1>8, <1>9, FlattenIs DEF Words
<1>11. g[n] = PageText(f[n]) /\ f[n] \in PageStates /\ f[n] = after[n]
  BY <1>1, <1>7
<1>12. LP!RenderBlocks(lines) = LP!Flush(after[n]).blocks
  BY DEF LP!RenderBlocks, after
<1>13. Said(LP!RenderBlocks(lines)) = FlattenSeq(spoken)
  <2> HIDE DEF g, spoken
  <2> QED
    BY <1>10, <1>11, <1>12, Flushed
<1> QED
  BY <1>13, PageWords DEF LP!NothingIsLost, Said, Spoken

-----------------------------------------------------------------------------
(* A draw is proportional and nobody wins twice: Draw                      *)

LEMMA DrawWords ==
  /\ \A f, T : DR!SumFunctionOnSet(f, T) = Sum(f, T)
  /\ \A T : DR!Cardinality(T) = Cardinality(T)
  /\ drSpace \in Nat \ {0}
<1>1. \A f, T : DR!SumFunctionOnSet(f, T) = Sum(f, T)
  BY DEF DR!SumFunctionOnSet, DR!FoldFunctionOnSet, DR!MapThenFoldSet, Sum, SumFunctionOnSet,
     FoldFunctionOnSet, MapThenFoldSet
<1>2. \A T : DR!Cardinality(T) = Cardinality(T)
  BY DEF DR!Cardinality, Cardinality
<1> QED
  BY <1>1, <1>2, FunctionsAssumption DEF DR!DrawAssumption

\* There is one quotient and one remainder.
Division(v, q, m, r) == v = q * m + r

LEMMA Divided ==
  ASSUME NEW m \in Nat \ {0}, NEW q \in Int, NEW r \in 0..(m - 1), NEW v, Division(v, q, m, r)
  PROVE  v \div m = q /\ v % m = r /\ v \in Int
<1> DEFINE d == v \div m
           e == v % m
<1>1. v \in Int
  BY DEF Division
<1>2. d \in Int /\ e \in 0..(m - 1) /\ v = m * d + e
  BY <1>1
<1> HIDE DEF d, e
<1>3. m * (q - d) = e - r
  BY <1>2 DEF Division
<1>4. q - d = 0
  <2>1. CASE q - d >= 1
    <3>1. m * (q - d) >= m
      BY <1>2, <2>1
    <3> QED
      BY <1>2, <1>3, <3>1
  <2>2. CASE q - d <= -1
    <3>1. m * (q - d) <= -m
      BY <1>2, <2>2
    <3> QED
      BY <1>2, <1>3, <3>1
  <2> QED
    BY <1>2, <2>1, <2>2
<1> QED
  BY <1>1, <1>2, <1>3, <1>4 DEF d, e

LEMMA Divides ==
  ASSUME NEW m \in Nat \ {0}, NEW v \in Nat
  PROVE  v \div m \in Nat /\ v % m \in 0..(m - 1) /\ v = (v \div m) * m + (v % m)
OBVIOUS

LEMMA HolderIs ==
  ASSUME NEW n \in Nat, NEW w \in [1..n -> Nat], NEW pool \in SUBSET (1..n),
         NEW ticket \in Nat, ticket < DR!Tickets(pool, w)
  PROVE  /\ DR!HolderOf(pool, w, ticket) \in pool
         /\ \A p \in pool :
              DR!HolderOf(pool, w, ticket) = p <=>
                ticket \in Sum(w, {q \in pool : q < p})..(Sum(w, {q \in pool : q < p}) + w[p] - 1)
<1> DEFINE upto(m) == {q \in pool : q <= m}
           below(m) == {q \in pool : q < m}
           Holds(p) == ticket < Sum(w, upto(p)) /\ ticket >= Sum(w, below(p))
<1>0. /\ \A q \in pool : q \in 1..n
      /\ \A q \in 1..n : q \in Nat /\ w[q] \in Nat /\ w[q] \in Int
  OBVIOUS
<1>9. /\ \A m, x : x \in upto(m) <=> x \in pool /\ x <= m
      /\ \A m, x : x \in below(m) <=> x \in pool /\ x < m
  OBVIOUS
<1> HIDE DEF upto, below
<1>10. IsFiniteSet(pool)
  <2>1. IsFiniteSet(1..n)
    BY FS_Interval
  <2> QED
    BY <2>1, FS_Subset
<1>1. /\ \A X \in SUBSET pool : IsFiniteSet(X) /\ Sum(w, X) \in Nat
      /\ \A X, Y \in SUBSET pool : Y \subseteq X => Sum(w, Y) <= Sum(w, X)
  <2>1. \A X \in SUBSET pool : IsFiniteSet(X) /\ \A x \in X : w[x] \in Nat
    BY <1>0, <1>10, FS_Subset
  <2> QED
    BY <2>1, SumNat, SumMore
<1>2. \A m : upto(m) \in SUBSET pool /\ below(m) \in SUBSET pool
  BY <1>9
<1>3. \A p \in pool : Sum(w, upto(p)) = Sum(w, below(p)) + w[p] /\ w[p] \in Nat
  <2> SUFFICES ASSUME NEW p \in pool
               PROVE  Sum(w, upto(p)) = Sum(w, below(p)) + w[p] /\ w[p] \in Nat
    OBVIOUS
  <2>1. upto(p) = below(p) \cup {p} /\ p \notin below(p)
    <3>1. p \in 1..n
      BY <1>0
    <3>2. ~(p < p) /\ \A q \in 1..n : q <= p <=> q < p \/ q = p
      BY <3>1
    <3> QED
      BY <1>0, <1>9, <3>1, <3>2, Zenon
  <2>2. \A x \in below(p) \cup {p} : w[x] \in Int
    BY <1>0, <1>9, Zenon
  <2>3. w[p] \in Nat
    BY <1>0, Zenon
  <2> QED
    BY <1>1, <1>2, <2>1, <2>2, <2>3, SumAdd
<1>4. \E p \in pool : Holds(p)
  <2> DEFINE passed == {m \in 0..n : ticket < Sum(w, upto(m))}
  <2>1. n \in passed
    <3>1. upto(n) = pool
      <4>1. \A q \in 1..n : q <= n
        OBVIOUS
      <4> QED
        BY <1>0, <1>9, <4>1, Zenon
    <3>2. DR!Tickets(pool, w) = Sum(w, pool)
      BY DrawWords DEF DR!Tickets
    <3> QED
      BY <3>1, <3>2
  <2>2. passed \subseteq Nat
    OBVIOUS
  <2> HIDE DEF passed
  <2>3. PICK m \in passed : \A k \in passed : m <= k
    BY <2>1, <2>2, LeastNatural
  <2>4. m \in 0..n /\ ticket < Sum(w, upto(m))
    BY <2>3 DEF passed
  <2>5. m # 0
    <3>1. upto(0) = {}
      <4>1. \A q \in 1..n : ~(q <= 0)
        OBVIOUS
      <4> QED
        BY <1>0, <1>9, <4>1, Zenon
    <3>2. Sum(w, {}) = 0
      BY SumEmpty
    <3>3. CASE m = 0
      <4>1. upto(m) = {}
        BY <3>1, <3>3
      <4>2. ticket < 0
        BY <2>4, <3>2, <4>1
      <4> QED
        BY <4>2
    <3> QED
      BY <3>3
  <2>6. ticket >= Sum(w, upto(m - 1))
    <3>1. m - 1 \in 0..n /\ m - 1 \notin passed
      BY <2>3, <2>4, <2>5
    <3> QED
      BY <1>1, <1>2, <3>1 DEF passed
  <2>7. upto(m - 1) = below(m)
    <3>1. PICK k : k = m - 1
      OBVIOUS
    <3>2. \A q \in 1..n : q <= k <=> q < m
      BY <2>4, <3>1
    <3>3. upto(k) = below(m)
      <4>1. \A x : x \in upto(k) <=> x \in pool /\ x <= k
        BY <1>9, Zenon
      <4>2. \A x : x \in below(m) <=> x \in pool /\ x < m
        BY <1>9, Zenon
      <4> QED
        BY <1>0, <3>2, <4>1, <4>2, Zenon
    <3> QED
      BY <3>1, <3>3
  <2>8. m \in pool
    <3>1. CASE m \notin pool
      <4>1. upto(m) = below(m)
        <5>1. \A q \in 1..n : q <= m <=> q < m \/ q = m
          BY <2>4
        <5> QED
          BY <1>0, <1>9, <3>1, <5>1, Zenon
      <4> QED
        BY <1>1, <1>2, <2>4, <2>6, <2>7, <4>1
    <3> QED
      BY <3>1
  <2> QED
    BY <2>4, <2>6, <2>7, <2>8
<1>5. ASSUME NEW p \in pool, NEW q \in pool, Holds(p), Holds(q)
      PROVE  ~(p < q)
  <2>1. CASE p < q
    <3>1. upto(p) \subseteq below(q)
      <4>1. p \in 1..n /\ q \in 1..n
        BY <1>0
      <4>2. \A r \in 1..n : r <= p => r < q
        BY <2>1, <4>1
      <4> QED
        BY <1>0, <1>9, <4>2, Zenon
    <3>2. Sum(w, upto(p)) <= Sum(w, below(q))
      BY <1>1, <1>2, <3>1
    <3> QED
      BY <1>1, <1>2, <1>5, <3>2
  <2> QED
    BY <2>1
<1> DEFINE holder == DR!HolderOf(pool, w, ticket)
<1>6. holder \in pool /\ Holds(holder)
  <2>1. holder = CHOOSE p \in pool : Holds(p)
    BY DrawWords DEF DR!HolderOf, DR!Tickets, upto, below
  <2> HIDE DEF Holds, holder
  <2> QED
    BY <1>4, <2>1
<1> HIDE DEF holder
<1>7. \A p \in pool : holder = p <=> Holds(p)
  <2> SUFFICES ASSUME NEW p \in pool, Holds(p) PROVE holder = p
    BY <1>6
  <2> HIDE DEF Holds
  <2>1. ~(p < holder) /\ ~(holder < p)
    BY <1>5, <1>6
  <2> QED
    BY <1>6, <2>1
<1>8. \A p \in pool : Holds(p) <=> ticket \in Sum(w, below(p))..(Sum(w, below(p)) + w[p] - 1)
  <2> QED
    BY <1>1, <1>2, <1>3
<1> QED
  BY <1>6, <1>7, <1>8 DEF holder, below

\* The numbers below k * m whose remainder is one of c, from lo on.
Residues(k, m, lo, c) == {v \in 0..(k * m - 1) : v % m \in lo..(lo + c - 1)}

LEMMA Remainders ==
  ASSUME NEW m \in Nat \ {0}, NEW k \in Nat, NEW lo \in Nat, NEW c \in Nat, lo + c <= m
  PROVE  Cardinality(Residues(k, m, lo, c)) = k * c
<1> DEFINE X == Residues(k, m, lo, c)
           T == (0..(k - 1)) \X (lo..(lo + c - 1))
           f == [p \in T |-> p[1] * m + p[2]]
<1>1. ASSUME NEW p \in T
      PROVE  /\ p[1] \in 0..(k - 1) /\ p[2] \in lo..(lo + c - 1) /\ p[2] \in 0..(m - 1)
             /\ f[p] \div m = p[1] /\ f[p] % m = p[2] /\ f[p] \in Int
  <2>1. p[1] \in 0..(k - 1) /\ p[2] \in lo..(lo + c - 1) /\ p[2] \in 0..(m - 1)
        /\ f[p] = p[1] * m + p[2]
    OBVIOUS
  <2> HIDE DEF f, T
  <2>2. PICK a \in Int, b \in 0..(m - 1), v \in Int : a = p[1] /\ b = p[2] /\ v = f[p] /\ v = a * m + b
    BY <2>1
  <2>3. v \div m = a /\ v % m = b /\ v \in Int
    <3>1. Division(v, a, m, b)
      BY <2>2 DEF Division
    <3> QED
      BY <3>1, Divided
  <2> QED
    BY <2>1, <2>2, <2>3
<1>2. ASSUME NEW p \in T
      PROVE  f[p] \in X
  <2>1. f[p] = p[1] * m + p[2]
    OBVIOUS
  <2> HIDE DEF f, T
  <2>2. PICK a \in 0..(k - 1), b \in 0..(m - 1) : a = p[1] /\ b = p[2]
    BY <1>1
  <2>3. a * m + b <= k * m - 1 /\ a * m + b \in Nat
    <3>1. (a + 1) * m <= k * m
      OBVIOUS
    <3>2. (a + 1) * m = a * m + m /\ a * m \in Nat
      OBVIOUS
    <3> QED
      BY <3>1, <3>2
  <2> QED
    BY <1>1, <2>1, <2>2, <2>3 DEF Residues
<1>3. ASSUME NEW v \in X
      PROVE  \E p \in T : f[p] = v
  <2>1. v \in Nat /\ v <= k * m - 1 /\ v % m \in lo..(lo + c - 1)
    BY DEF Residues
  <2>2. PICK a \in Nat, b \in 0..(m - 1) : a = v \div m /\ b = v % m /\ v = a * m + b
    BY <2>1, Divides
  <2>3. a <= k - 1
    <3>1. CASE a >= k
      <4>1. a * m >= k * m
        BY <3>1
      <4> QED
        BY <2>1, <2>2, <4>1
    <3> QED
      BY <3>1
  <2>4. <<a, b>> \in T /\ f[<<a, b>>] = a * m + b
    BY <2>1, <2>2, <2>3
  <2> QED
    BY <2>2, <2>4
<1>4. f \in [T -> X]
  <2> HIDE DEF T
  <2>1. \A p \in T : f[p] \in X
    BY <1>2
  <2> QED
    BY <2>1
<1>5. \A p, r \in T : f[p] = f[r] => p = r
  <2> SUFFICES ASSUME NEW p \in T, NEW r \in T, f[p] = f[r]
               PROVE  p = r
    OBVIOUS
  <2>1. p[1] = r[1] /\ p[2] = r[2]
    <3> HIDE DEF T, f
    <3> QED
      BY <1>1
  <2> QED
    BY <2>1
<1>6. IsFiniteSet(T) /\ Cardinality(T) = k * c
  <2>1. IsFiniteSet(0..(k - 1)) /\ Cardinality(0..(k - 1)) = k
    BY FS_Interval
  <2>2. IsFiniteSet(lo..(lo + c - 1)) /\ Cardinality(lo..(lo + c - 1)) = c
    BY FS_Interval
  <2> QED
    BY <2>1, <2>2, FS_Product
<1>7. f \in Bijection(T, X)
  <2> HIDE DEF T, f
  <2> QED
    BY <1>3, <1>4, <1>5 DEF Bijection, Injection, Surjection, IsInjective
<1> HIDE DEF T, f
<1> QED
  BY <1>6, <1>7, FS_Bijection DEF ExistsBijection
LEMMA ChancesDo ==
  ASSUME NEW n \in Nat, NEW w \in [1..n -> Nat]
  PROVE  DR!ChancesAreProportional(w)
<1> SUFFICES ASSUME NEW pool \in SUBSET {p \in DOMAIN w : w[p] > 0}, pool # {}, NEW p \in pool,
                    NEW total, total = DR!Tickets(pool, w),
                    NEW accepted, accepted = {v \in 0..(drSpace - 1) : v < DR!SampleLimit(total)},
                    NEW drawing, drawing = {v \in accepted : DR!HolderOf(pool, w, v % total) = p}
             PROVE  Cardinality(drawing) * total = w[p] * Cardinality(accepted)
  BY DrawWords DEF DR!ChancesAreProportional
<1>1. pool \in SUBSET (1..n) /\ p \in 1..n /\ w[p] \in Nat \ {0} /\ IsFiniteSet(pool)
      /\ \A q \in pool : w[q] \in Nat
  <2>1. pool \in SUBSET (1..n) /\ p \in 1..n /\ w[p] \in Nat \ {0}
    OBVIOUS
  <2> QED
    <3>1. IsFiniteSet(1..n)
      BY FS_Interval
    <3>2. IsFiniteSet(pool)
      BY <2>1, <3>1, FS_Subset
    <3> QED
      BY <2>1, <3>2
<1> DEFINE below == {q \in pool : q < p}
           lo == Sum(w, below)
           k == drSpace \div total
<1>2. total = Sum(w, pool)
  BY DrawWords DEF DR!Tickets
<1>3. lo \in Nat /\ lo + w[p] <= total /\ total \in Nat \ {0}
  <2>1. below \in SUBSET pool /\ p \notin below /\ IsFiniteSet(below)
    <3>1. ~(p < p)
      BY <1>1
    <3>2. below \in SUBSET pool
      OBVIOUS
    <3> QED
      BY <1>1, <3>1, <3>2, FS_Subset
  <2> HIDE DEF below
  <2>2. Sum(w, below \cup {p}) = lo + w[p] /\ lo \in Int
    <3>1. \A x \in below \cup {p} : w[x] \in Int
      BY <1>1, <2>1
    <3> QED
      BY <2>1, <3>1, SumAdd
  <2>3. lo \in Nat
    BY <1>1, <2>1, SumNat
  <2>4. Sum(w, below \cup {p}) <= Sum(w, pool) /\ Sum(w, pool) \in Nat
    <3>1. below \cup {p} \subseteq pool
      BY <2>1
    <3> QED
      BY <1>1, <3>1, SumMore, SumNat
  <2> QED
    BY <1>1, <1>2, <2>2, <2>3, <2>4
<1> HIDE DEF lo
<1>4. k \in Nat /\ DR!SampleLimit(total) = k * total /\ k * total <= drSpace /\ k * total \in Nat
  <2>1. /\ k \in Nat /\ drSpace % total \in 0..(total - 1)
        /\ drSpace = k * total + (drSpace % total)
    BY <1>3, DrawWords, Divides
  <2>2. DR!SampleLimit(total) = drSpace - (drSpace % total)
    BY DEF DR!SampleLimit
  <2>3. k * total \in Nat
    <3>1. k \in Nat
      BY <2>1
    <3> HIDE DEF k
    <3> QED
      BY <1>3, <3>1
  <2> HIDE DEF k
  <2> QED
    BY <1>3, <2>1, <2>2, <2>3
<1> HIDE DEF k
<1>5. accepted = 0..(k * total - 1) /\ Cardinality(accepted) = k * total
  <2>1. \A v \in Int : v \in accepted <=> v \in 0..(k * total - 1)
    BY <1>4, DrawWords
  <2>2. accepted \subseteq Int
    OBVIOUS
  <2>3. accepted = 0..(k * total - 1)
    BY <2>1, <2>2
  <2>4. Cardinality(0..(k * total - 1)) = k * total
    <3>1. PICK x \in Nat : x = k * total
      BY <1>4
    <3>2. Cardinality(0..(x - 1)) = x
      BY FS_Interval
    <3> QED
      BY <3>1, <3>2
  <2> QED
    BY <2>3, <2>4
<1>6. ASSUME NEW v \in accepted
      PROVE  DR!HolderOf(pool, w, v % total) = p <=> v % total \in lo..(lo + w[p] - 1)
  <2>1. v \in Nat
    OBVIOUS
  <2>2. v % total \in Nat /\ v % total < total
    BY <1>3, <2>1
  <2> QED
    BY <1>1, <2>2, HolderIs DEF lo
<1>7. drawing = {v \in 0..(k * total - 1) : v % total \in lo..(lo + w[p] - 1)}
  BY <1>5, <1>6
<1>8. Cardinality(drawing) = k * w[p]
  <2>1. total \in Nat \ {0} /\ k \in Nat /\ lo \in Nat /\ w[p] \in Nat /\ lo + w[p] <= total
    BY <1>1, <1>3, <1>4
  <2>2. Cardinality(Residues(k, total, lo, w[p])) = k * w[p]
    <3>1. \A m \in Nat \ {0} : \A a, b, c \in Nat :
            b + c <= m => Cardinality(Residues(a, m, b, c)) = a * c
      BY Remainders
    <3>2. PICK m \in Nat \ {0}, a \in Nat, b \in Nat, c \in Nat :
                 m = total /\ a = k /\ b = lo /\ c = w[p]
      BY <2>1
    <3>3. b + c <= m
      BY <2>1, <3>2
    <3>4. Cardinality(Residues(a, m, b, c)) = a * c
      BY <3>1, <3>3
    <3> QED
      BY <3>2, <3>4
  <2> QED
    BY <1>7, <2>2 DEF Residues
<1>9. (k * w[p]) * total = w[p] * (k * total)
  BY <1>1, <1>3, <1>4
<1> QED
  BY <1>5, <1>8, <1>9

LEMMA UniformIs ==
  ASSUME NEW bound \in Nat \ {0}, NEW values \in Seq(0..(drSpace - 1)),
         \E i \in DOMAIN values : values[i] < DR!SampleLimit(bound)
  PROVE  DR!UniformBelow(bound, values) \in 0..(bound - 1)
<1> DEFINE taken == {i \in 1..Len(values) : values[i] < DR!SampleLimit(bound)}
<1>1. taken # {} /\ taken \subseteq Nat /\ taken \subseteq 1..Len(values)
  OBVIOUS
<1>2. DR!UniformBelow(bound, values) = values[DR!Min(taken)] % bound
  BY <1>1 DEF DR!UniformBelow, DR!SelectInSeq
<1> HIDE DEF taken
<1>3. DR!Min(taken) \in taken
  <2>1. \E i \in taken : \A j \in taken : i <= j
    BY <1>1, LeastNatural
  <2> QED
    BY <2>1 DEF DR!Min
<1>4. values[DR!Min(taken)] \in Nat
  <2>1. \A i \in 1..Len(values) : values[i] \in 0..(drSpace - 1)
    BY ElementOfSeq
  <2>2. DR!Min(taken) \in 1..Len(values)
    BY <1>1, <1>3
  <2> QED
    BY <2>1, <2>2, DrawWords
<1> QED
  BY <1>2, <1>4

LEMMA SampleSize ==
  ASSUME NEW V, NEW n \in Nat, NEW s \in [1..n -> V], IsInjective(s)
  PROVE  IsFiniteSet(Range(s)) /\ Cardinality(Range(s)) = n
<1>1. s \in Bijection(1..n, Range(s))
  <2>1. s \in [1..n -> Range(s)] /\ \A v \in Range(s) : \E i \in 1..n : s[i] = v
    BY DEF Range
  <2>2. \A i, j \in 1..n : s[i] = s[j] => i = j
    BY DEF IsInjective
  <2> HIDE DEF Range
  <2> QED
    BY <2>1, <2>2 DEF Bijection, Injection, Surjection, IsInjective
<1> QED
  BY <1>1, FS_Interval, FS_Bijection DEF ExistsBijection

\* Who may win, and who has won once nobody wins twice.
Entrants(w) == {p \in DOMAIN w : w[p] > 0}
Lists(w) == {s \in Seq(Entrants(w)) : IsInjective(s)}

LEMMA WinnersDo ==
  ASSUME NEW w, NEW count, NEW values, DR!Drawable(w, count, values)
  PROVE  DR!WinnersAreDistinct(w, count, values)
<1> DEFINE n == Len(w)
           E == Entrants(w)
           pool(s) == E \ Range(s)
           chosen(i, s) == DR!HolderOf(pool(s), w, DR!UniformBelow(DR!Tickets(pool(s), w), values[i]))
           more(i, s) == IF pool(s) = {} THEN s ELSE Append(s, chosen(i, s))
<1>1. n \in Nat /\ w \in [1..n -> Nat] /\ count \in Nat /\ DOMAIN w = 1..n
  BY DEF DR!Drawable
<1> HIDE DEF n
<1>16. IsFiniteSet(1..n) /\ \A q \in 1..n : w[q] \in Nat
  <2>1. IsFiniteSet(1..n)
    BY <1>1, FS_Interval
  <2> QED
    BY <1>1, <2>1
<1>17. \A i \in 1..count :
         /\ values[i] \in Seq(0..(drSpace - 1))
         /\ \A bound \in 1..Sum(w, 1..n) :
              \E j \in DOMAIN values[i] : values[i][j] < DR!SampleLimit(bound)
  <2>1. DR!Tickets(DOMAIN w, w) = Sum(w, 1..n)
    BY <1>1, DrawWords DEF DR!Tickets
  <2> QED
    BY <2>1, Zenon DEF DR!Drawable
<1>2. E \in SUBSET (1..n) /\ IsFiniteSet(E) /\ Cardinality(E) \in Nat /\ \A p \in E : w[p] \in Nat \ {0}
  <2>1. E \in SUBSET (1..n) /\ \A p \in E : w[p] \in Nat \ {0}
    BY <1>1 DEF Entrants
  <2>3. IsFiniteSet(E)
    BY <1>16, <2>1, FS_Subset
  <2> QED
    BY <2>1, <2>3, FS_CardinalityType
<1>3. ASSUME NEW i \in 1..count, NEW s \in Lists(w), pool(s) # {}
      PROVE  chosen(i, s) \in pool(s)
  <2> DEFINE rest == pool(s)
             total == DR!Tickets(rest, w)
  <2>1. rest \in SUBSET E /\ rest \in SUBSET (1..n) /\ IsFiniteSet(rest) /\ rest # {}
    BY <1>2, <1>3, FS_Subset
  <2> HIDE DEF rest
  <2>2. total = Sum(w, rest)
    BY DrawWords DEF DR!Tickets
  <2>3. total \in 1..Sum(w, 1..n)
    <3>1. PICK p \in rest : w[p] \in Nat \ {0}
      BY <1>2, <2>1
    <3>2. \A q \in rest : w[q] \in Nat
      BY <1>2, <2>1
    <3>3. IsFiniteSet({p}) /\ {p} \subseteq rest /\ rest \subseteq 1..n
      BY <2>1, FS_Singleton
    <3>4. Sum(w, {p}) = w[p]
      <4>1. Sum(w, {p}) = w[p] + Sum(w, {p} \ {p})
        <5>1. \A x \in {p} : w[x] \in Int
          BY <3>1
        <5> QED
          BY <3>3, <5>1, SumTake
      <4>2. {p} \ {p} = {}
        OBVIOUS
      <4> QED
        BY <3>1, <4>1, <4>2, SumEmpty
    <3>5. Sum(w, {p}) <= Sum(w, rest) /\ Sum(w, rest) <= Sum(w, 1..n)
      BY <1>16, <2>1, <3>2, <3>3, SumMore
    <3>6. Sum(w, rest) \in Nat /\ Sum(w, 1..n) \in Nat
      BY <1>16, <2>1, <3>2, SumNat
    <3> QED
      BY <2>2, <3>1, <3>4, <3>5, <3>6
  <2>4. total \in Nat \ {0}
    <3>1. Sum(w, 1..n) \in Nat
      BY <1>16, SumNat
    <3> QED
      BY <2>3, <3>1
  <2> HIDE DEF total
  <2>5. DR!UniformBelow(total, values[i]) \in 0..(total - 1)
    BY <1>17, <2>3, <2>4, UniformIs
  <2>6. PICK ticket \in Nat : ticket = DR!UniformBelow(total, values[i]) /\ ticket < total
    BY <2>4, <2>5
  <2>7. DR!HolderOf(rest, w, ticket) \in rest
    <3>1. ticket < DR!Tickets(rest, w)
      BY <2>6 DEF total
    <3> QED
      BY <1>1, <2>1, <3>1, HolderIs
  <2> QED
    BY <2>6, <2>7 DEF rest, total
<1>4. ASSUME NEW s \in Lists(w)
      PROVE  /\ Len(s) \in Nat /\ s \in [1..Len(s) -> E] /\ IsInjective(s)
             /\ Range(s) \subseteq E /\ Cardinality(Range(s)) = Len(s)
             /\ pool(s) = {} <=> Len(s) = Cardinality(E)
             /\ Len(s) <= Cardinality(E)
  <2>1. Len(s) \in Nat /\ s \in [1..Len(s) -> E] /\ IsInjective(s)
    BY DEF Lists
  <2>2. Range(s) \subseteq E
    BY <2>1 DEF Range
  <2>3. Cardinality(Range(s)) = Len(s)
    BY <2>1, SampleSize
  <2>4. /\ Cardinality(Range(s)) <= Cardinality(E)
        /\ Cardinality(E) = Cardinality(Range(s)) => E = Range(s)
    BY <1>2, <2>2, FS_Subset
  <2>5. pool(s) = {} <=> E = Range(s)
    BY <2>2
  <2> QED
    BY <2>1, <2>2, <2>3, <2>4, <2>5
<1>5. ASSUME NEW i \in 1..count, NEW s \in Lists(w)
      PROVE  /\ more(i, s) \in Lists(w)
             /\ Len(more(i, s)) = IF Len(s) = Cardinality(E) THEN Len(s) ELSE Len(s) + 1
  <2>1. CASE pool(s) = {}
    BY <1>4, <2>1
  <2>2. CASE pool(s) # {}
    <3>1. PICK p \in E : p = chosen(i, s) /\ p \notin Range(s)
      BY <1>3, <2>2
    <3>2. more(i, s) = Append(s, p)
      BY <2>2, <3>1
    <3>3. s \in Seq(E) /\ \A j \in 1..Len(s) : s[j] # p
      BY <1>4, <3>1 DEF Lists, Range
    <3>4. /\ Append(s, p) \in Seq(E) /\ Len(Append(s, p)) = Len(s) + 1
          /\ \A j \in 1..Len(s) : Append(s, p)[j] = s[j]
          /\ Append(s, p)[Len(s) + 1] = p /\ DOMAIN Append(s, p) = 1..(Len(s) + 1)
      BY <3>3, AppendProperties
    <3>5. IsInjective(Append(s, p))
      <4>1. \A j, k \in 1..Len(s) : s[j] = s[k] => j = k
        BY <1>4 DEF IsInjective
      <4> QED
        BY <1>4, <3>3, <3>4, <4>1 DEF IsInjective
    <3> QED
      BY <1>4, <2>2, <3>2, <3>4, <3>5 DEF Lists
  <2> QED
    BY <2>1, <2>2
<1> DEFINE IsWinners(f) == f = [i \in 0..count |-> IF i = 0 THEN <<>> ELSE more(i, f[i - 1])]
           winners == CHOOSE f : IsWinners(f)
           step == [p \in (1..count) \X Lists(w) |-> more(p[1], p[2])]
<1>6. <<>> \in Lists(w) /\ Len(<<>>) = 0
  BY EmptySeq DEF Lists, IsInjective
<1>7. PICK f \in [0..count -> Lists(w)] :
        f[0] = <<>> /\ \A i \in 1..count : f[i] = more(i, f[i - 1])
  <2>1. \A i \in 1..count : \A s \in Lists(w) :
          step[<<i, s>>] = more(i, s) /\ step[<<i, s>>] \in Lists(w)
    <3> HIDE DEF more
    <3> QED
      BY <1>5
  <2> HIDE DEF step, more
  <2>2. Recursion(count, Lists(w), <<>>, step)
    BY <1>1, <1>6, <2>1, Steps
  <2>3. PICK f \in [0..count -> Lists(w)] : f[0] = <<>> /\ \A i \in 1..count : f[i] = step[<<i, f[i - 1]>>]
    BY <2>2 DEF Recursion
  <2>4. ASSUME NEW i \in 1..count
        PROVE  f[i] = more(i, f[i - 1])
    <3>1. f[i - 1] \in Lists(w)
      BY <1>1
    <3>2. f[i] = step[<<i, f[i - 1]>>]
      BY <2>3
    <3> QED
      BY <2>1, <3>1, <3>2
  <2> QED
    BY <2>3, <2>4
<1>8. IsWinners(winners)
  <2> HIDE DEF more
  <2>1. \A i \in 0..count : f[i] = IF i = 0 THEN <<>> ELSE more(i, f[i - 1])
    BY <1>1, <1>7
  <2>2. IsWinners(f)
    BY <2>1
  <2> QED
    BY <2>2
<1>9. DR!DrawWinners(w, count, values) = winners[count]
  BY DEF DR!DrawWinners, DR!Range, Range, Entrants
<1> HIDE DEF more, winners
<1>10. winners[0] = <<>> /\ \A i \in 1..count : winners[i] = more(i, winners[i - 1])
  <2>1. \A i \in 0..count : winners[i] = IF i = 0 THEN <<>> ELSE more(i, winners[i - 1])
    BY <1>8
  <2> QED
    BY <1>1, <2>1
<1>11. \A i \in 0..count : f[i] = winners[i]
  <2>1. f[0] = winners[0] /\ \A i \in 1..count : f[i - 1] = winners[i - 1] => f[i] = winners[i]
    BY <1>7, <1>10
  <2>2. count \in Nat
    BY <1>1
  <2>3. Agree(f, winners, count)
    BY <2>1, <2>2, StepsAgree
  <2> QED
    BY <2>3 DEF Agree
<1> DEFINE long == [i \in 0..count |-> Len(f[i])]
           most == [i \in 0..count |-> IF i <= Cardinality(E) THEN i ELSE Cardinality(E)]
<1>12. \A i \in 0..count : long[i] = most[i]
  <2>1. long[0] = most[0]
    BY <1>1, <1>2, <1>6, <1>7
  <2>2. ASSUME NEW i \in 1..count, long[i - 1] = most[i - 1]
        PROVE  long[i] = most[i]
    <3>1. i - 1 \in 0..count /\ i \in 0..count /\ f[i - 1] \in Lists(w)
      BY <1>1
    <3>2. long[i] = IF long[i - 1] = Cardinality(E) THEN long[i - 1] ELSE long[i - 1] + 1
      <4>1. f[i] = more(i, f[i - 1])
        BY <1>7
      <4>2. Len(more(i, f[i - 1])) = IF Len(f[i - 1]) = Cardinality(E) THEN Len(f[i - 1]) ELSE Len(f[i - 1]) + 1
        BY <1>5, <3>1
      <4> QED
        BY <3>1, <4>1, <4>2
    <3>3. most[i - 1] = (IF i - 1 <= Cardinality(E) THEN i - 1 ELSE Cardinality(E))
          /\ most[i] = (IF i <= Cardinality(E) THEN i ELSE Cardinality(E))
      BY <3>1
    <3> HIDE DEF long, most
    <3> QED
      BY <1>1, <1>2, <2>2, <3>2, <3>3
  <2> HIDE DEF long, most
  <2>3. \A i \in 1..count : long[i - 1] = most[i - 1] => long[i] = most[i]
    BY <2>2
  <2>4. count \in Nat
    BY <1>1
  <2>5. Agree(long, most, count)
    BY <2>1, <2>3, <2>4, StepsAgree
  <2> QED
    BY <2>5 DEF Agree
<1> DEFINE last == winners[count]
<1>13. last \in Lists(w) /\ Len(last) = IF count <= Cardinality(E) THEN count ELSE Cardinality(E)
  <2>1. count \in 0..count
    BY <1>1
  <2>2. last = f[count] /\ long[count] = Len(f[count])
    BY <1>11, <2>1
  <2> QED
    BY <1>12, <2>1, <2>2
<1>14. Len(last) = DR!Min({count, Cardinality(E)})
  <2> DEFINE m == DR!Min({count, Cardinality(E)})
  <2>1. PICK x \in {count, Cardinality(E)} : \A y \in {count, Cardinality(E)} : x <= y
    BY <1>1, <1>2
  <2>2. m \in {count, Cardinality(E)} /\ \A y \in {count, Cardinality(E)} : m <= y
    BY <2>1 DEF DR!Min
  <2> HIDE DEF m, last
  <2>3. PICK c \in Nat, e \in Nat : c = count /\ e = Cardinality(E)
    BY <1>1, <1>2
  <2>4. m \in {c, e} /\ m <= c /\ m <= e
    BY <2>2, <2>3
  <2>5. Len(last) = IF c <= e THEN c ELSE e
    BY <1>13, <2>3
  <2>6. m = IF c <= e THEN c ELSE e
    BY <2>4
  <2> QED
    BY <2>5, <2>6 DEF m
<1>15. IsInjective(last) /\ Range(last) \subseteq E
  BY <1>4, <1>13
<1> HIDE DEF last
<1> QED
  BY <1>9, <1>14, <1>15, DrawWords
     DEF DR!WinnersAreDistinct, DR!IsInjective, IsInjective, DR!Range, Range, Entrants, last

-----------------------------------------------------------------------------
(* A slip in a printed code is noticed: Codes                              *)

\* What a character adds to the sum, k characters from the right.
Addend(v, k, b) ==
  ((v * (IF k % 2 = 0 THEN 1 ELSE 2)) \div b) + ((v * (IF k % 2 = 0 THEN 1 ELSE 2)) % b)
Addends(values, k, b) == [i \in DOMAIN values |-> Addend(values[i], Len(values) - i + k, b)]

LEMMA CodeWords ==
  /\ \A f : CO!SumFunction(f) = Sum(f, DOMAIN f)
  /\ \A s : CO!FlattenSeq(s) = FlattenSeq(s)
BY DEF CO!SumFunction, CO!SumFunctionOnSet, CO!FoldFunctionOnSet, CO!MapThenFoldSet, Sum,
   SumFunctionOnSet, FoldFunctionOnSet, MapThenFoldSet, CO!FlattenSeq, FlattenSeq

LEMMA AddendType ==
  ASSUME NEW b \in Nat, b >= 2, NEW v \in 0..(b - 1), NEW k \in Int
  PROVE  Addend(v, k, b) \in Nat /\ (k % 2 = 0 => Addend(v, k, b) = v)
<1>1. PICK p \in Nat : p = v * (IF k % 2 = 0 THEN 1 ELSE 2) /\ (k % 2 = 0 => p = v)
  OBVIOUS
<1>2. p \div b \in Nat /\ p % b \in Nat
  BY Divides
<1>3. k % 2 = 0 => p \div b = 0 /\ p % b = v
  <2> SUFFICES ASSUME k % 2 = 0 PROVE p \div b = 0 /\ p % b = v
    OBVIOUS
  <2>1. Division(p, 0, b, v)
    BY <1>1 DEF Division
  <2> QED
    BY <2>1, Divided
<1> QED
  BY <1>1, <1>2, <1>3 DEF Addend

\* An even alphabet: doubling goes through all of its characters.
LEMMA AddendIs ==
  ASSUME NEW b \in Nat, b >= 2, b % 2 = 0, NEW v \in 0..(b - 1), NEW k \in Int
  PROVE  Addend(v, k, b) = IF k % 2 = 0 THEN v ELSE IF 2 * v < b THEN 2 * v ELSE 2 * v - b + 1
<1>0. b \in Nat \ {0}
  OBVIOUS
<1>1. CASE k % 2 = 0
  BY <1>0, <1>1, AddendType
<1>2. CASE k % 2 # 0 /\ 2 * v < b
  <2>1. PICK p \in Nat : p = 2 * v /\ p = v * 2
    OBVIOUS
  <2>2. Division(p, 0, b, p) /\ p \in 0..(b - 1)
    BY <1>2, <2>1 DEF Division
  <2>3. p \div b = 0 /\ p % b = p
    BY <1>0, <2>2, Divided
  <2> QED
    BY <1>2, <2>1, <2>3 DEF Addend
<1>3. CASE k % 2 # 0 /\ ~(2 * v < b)
  <2>1. PICK p \in Nat : p = 2 * v /\ p = v * 2
    OBVIOUS
  <2>2. Division(p, 1, b, p - b) /\ p - b \in 0..(b - 1)
    BY <1>0, <1>3, <2>1 DEF Division
  <2>3. p \div b = 1 /\ p % b = p - b
    BY <1>0, <2>2, Divided
  <2> QED
    BY <1>0, <1>3, <2>1, <2>3 DEF Addend
<1> QED
  BY <1>1, <1>2, <1>3

LEMMA LuhnIs ==
  ASSUME NEW b \in Nat, b >= 2, NEW n \in Nat, NEW values \in [1..n -> 0..(b - 1)]
  PROVE  /\ CO!LuhnSum(values, 1, b) = Sum(Addends(values, 0, b), 1..n)
         /\ CO!LuhnSum(values, 2, b) = Sum(Addends(values, 1, b), 1..n)
         /\ \A k \in {0, 1} : /\ \A i \in 1..n : Addends(values, k, b)[i] \in Nat
                              /\ Sum(Addends(values, k, b), 1..n) \in Nat
<1>1. DOMAIN values = 1..n /\ Len(values) = n
  OBVIOUS
<1>2. CO!LuhnSum(values, 1, b) = Sum(Addends(values, 0, b), 1..n)
  <2> DEFINE added == [i \in DOMAIN values |->
               ((values[i] * (IF (Len(values) - i) % 2 = 0 THEN 1 ELSE 3 - 1)) \div b)
               + ((values[i] * (IF (Len(values) - i) % 2 = 0 THEN 1 ELSE 3 - 1)) % b)]
  <2>1. CO!LuhnSum(values, 1, b) = Sum(added, DOMAIN added)
    BY CodeWords DEF CO!LuhnSum
  <2>2. added = Addends(values, 0, b)
    <3>1. 3 - 1 = 2 /\ \A i \in 1..n : (Len(values) - i) + 0 = Len(values) - i
      BY <1>1
    <3> QED
      BY <1>1, <3>1 DEF Addends, Addend
  <2>3. DOMAIN added = 1..n
    BY <1>1
  <2> QED
    BY <2>1, <2>2, <2>3
<1>3. CO!LuhnSum(values, 2, b) = Sum(Addends(values, 1, b), 1..n)
  <2> DEFINE added == [i \in DOMAIN values |->
               ((values[i] * (IF (Len(values) - i) % 2 = 0 THEN 2 ELSE 3 - 2)) \div b)
               + ((values[i] * (IF (Len(values) - i) % 2 = 0 THEN 2 ELSE 3 - 2)) % b)]
  <2>1. CO!LuhnSum(values, 2, b) = Sum(added, DOMAIN added)
    BY CodeWords DEF CO!LuhnSum
  <2>2. added = Addends(values, 1, b)
    <3>1. 3 - 2 = 1 /\ \A i \in 1..n : ((Len(values) - i) + 1) % 2 = 0 <=> (Len(values) - i) % 2 # 0
      BY <1>1
    <3> QED
      BY <1>1, <3>1 DEF Addends, Addend
  <2>3. DOMAIN added = 1..n
    BY <1>1
  <2> QED
    BY <2>1, <2>2, <2>3
<1>4. ASSUME NEW k \in {0, 1}
      PROVE  /\ \A i \in 1..n : Addends(values, k, b)[i] \in Nat
             /\ Sum(Addends(values, k, b), 1..n) \in Nat
  <2>1. ASSUME NEW i \in 1..n
        PROVE  Addends(values, k, b)[i] \in Nat
    <3>1. Addends(values, k, b)[i] = Addend(values[i], n - i + k, b)
      BY <1>1 DEF Addends
    <3>2. n - i + k \in Int /\ values[i] \in 0..(b - 1)
      OBVIOUS
    <3> QED
      BY <3>1, <3>2, AddendType
  <2>2. IsFiniteSet(1..n)
    BY FS_Interval
  <2> QED
    BY <2>1, <2>2, SumNat
<1> QED
  BY <1>2, <1>3, <1>4

\* A code as it is made checks out.
LEMMA Balanced ==
  ASSUME NEW b \in Nat, b >= 2, NEW n \in Nat, NEW values \in [1..(n + 1) -> 0..(b - 1)],
         NEW front \in [1..n -> 0..(b - 1)], \A i \in 1..n : values[i] = front[i],
         values[n + 1] = (b - (CO!LuhnSum(front, 2, b) % b)) % b
  PROVE  CO!LuhnSum(values, 1, b) % b = 0
<1> DEFINE s == Sum(Addends(front, 1, b), 1..n)
           c == values[n + 1]
           h == Addends(values, 0, b)
           g == Addends(front, 1, b)
<1>0. b \in Nat \ {0}
  OBVIOUS
<1>1. s \in Nat /\ (\A i \in 1..n : g[i] \in Nat) /\ c = (b - (s % b)) % b
  BY LuhnIs
<1>2. \A i \in 1..(n + 1) : h[i] \in Nat
  <2>1. n + 1 \in Nat
    OBVIOUS
  <2> QED
    BY <2>1, LuhnIs
<1>3. ASSUME NEW i \in 1..n
      PROVE  h[i] = g[i]
  <2>1. Len(values) = n + 1 /\ Len(front) = n /\ DOMAIN values = 1..(n + 1) /\ DOMAIN front = 1..n
    OBVIOUS
  <2>2. (n + 1) - i + 0 = n - i + 1
    OBVIOUS
  <2> QED
    BY <2>1, <2>2 DEF Addends
<1>4. h[n + 1] = c
  <2>1. h[n + 1] = Addend(c, (n + 1) - (n + 1) + 0, b)
    BY DEF Addends
  <2>2. PICK k \in Int : k = (n + 1) - (n + 1) + 0 /\ k % 2 = 0
    OBVIOUS
  <2>3. c \in 0..(b - 1)
    OBVIOUS
  <2> HIDE DEF c, h
  <2> QED
    BY <2>1, <2>2, <2>3, AddendType
<1> HIDE DEF h, g, c, s
<1>5. Sum(h, 1..(n + 1)) = s + c
  <2>1. IsFiniteSet(1..n)
    BY FS_Interval
  <2>4. n + 1 \notin 1..n /\ 1..(n + 1) = (1..n) \cup {n + 1}
    OBVIOUS
  <2>2. Sum(h, 1..(n + 1)) = Sum(h, 1..n) + h[n + 1]
    <3>1. \A x \in (1..n) \cup {n + 1} : h[x] \in Int
      BY <1>2, <2>4
    <3>2. Sum(h, (1..n) \cup {n + 1}) = Sum(h, 1..n) + h[n + 1]
      <4> HIDE DEF h
      <4>1. PICK m : m = n + 1
        OBVIOUS
      <4>2. Sum(h, (1..n) \cup {m}) = Sum(h, 1..n) + h[m]
        BY <2>1, <2>4, <3>1, <4>1, SumAdd
      <4> QED
        BY <4>1, <4>2
    <3> QED
      BY <2>4, <3>2
  <2>3. Sum(h, 1..n) = s
    BY <1>3, <2>1, SumSame DEF g, s
  <2> QED
    BY <1>4, <2>2, <2>3
<1>6. (s + c) % b = 0
  <2>1. PICK q \in Nat, r \in 0..(b - 1) : r = s % b /\ s = q * b + r
    <3>1. s \div b \in Nat /\ s % b \in 0..(b - 1) /\ s = (s \div b) * b + (s % b)
      BY <1>0, <1>1, Divides
    <3> QED
      BY <3>1
  <2>2. CASE r = 0
    <3>1. Division(b, 1, b, 0)
      BY DEF Division
    <3>2. b % b = 0
      BY <3>1, Divided
    <3>3. c = 0
      <4>1. b - (s % b) = b
        BY <2>1, <2>2
      <4> QED
        BY <1>1, <3>2, <4>1
    <3>4. Division(s + c, q, b, 0)
      BY <2>1, <2>2, <3>3 DEF Division
    <3> QED
      BY <3>4, Divided
  <2>3. CASE r # 0
    <3>1. Division(b - r, 0, b, b - r) /\ b - r \in 0..(b - 1)
      BY <2>3 DEF Division
    <3>2. (b - r) % b = b - r
      <4>1. PICK x \in 0..(b - 1) : x = b - r /\ Division(x, 0, b, x)
        BY <3>1
      <4>3. Division(x, 0, b, x)
        BY <4>1
      <4>2. x % b = x
        BY <1>0, <4>3, Divided
      <4> QED
        BY <4>1, <4>2
    <3>3. c = b - r
      BY <1>1, <2>1, <3>2
    <3>4. Division(s + c, q + 1, b, 0)
      BY <2>1, <3>3 DEF Division
    <3> QED
      BY <3>4, Divided
  <2> QED
    BY <2>2, <2>3
<1>7. CO!LuhnSum(values, 1, b) = Sum(h, 1..(n + 1))
  <2>1. n + 1 \in Nat
    OBVIOUS
  <2> QED
    BY <2>1, LuhnIs DEF h
<1> QED
  BY <1>5, <1>6, <1>7

\* Sums that are both divided and less than b apart are equal.
LEMMA NotApart ==
  ASSUME NEW b \in Nat \ {0}, NEW s \in Nat, NEW t \in Nat, s % b = 0, t % b = 0,
         s - t < b, t - s < b
  PROVE  s = t
<1>5. PICK p \in Nat : p = s \div b /\ s = p * b + (s % b)
  BY Divides
<1>6. PICK q \in Nat : q = t \div b /\ t = q * b + (t % b)
  BY Divides
<1>1. s = p * b /\ t = q * b
  <2>1. p * b \in Nat /\ q * b \in Nat
    OBVIOUS
  <2> QED
    BY <1>5, <1>6, <2>1
<1>2. (p - q) * b = s - t /\ (q - p) * b = t - s
  BY <1>1
<1>3. ~(p - q >= 1) /\ ~(q - p >= 1)
  <2>1. CASE p - q >= 1
    <3>1. (p - q) * b >= b
      BY <2>1
    <3> QED
      BY <1>2, <3>1
  <2>2. CASE q - p >= 1
    <3>1. (q - p) * b >= b
      BY <2>2
    <3> QED
      BY <1>2, <3>1
  <2> QED
    BY <2>1, <2>2
<1> QED
  BY <1>1, <1>3

\* What is added to a sum that is divided, and is less, spoils it.
LEMMA Spoilt ==
  ASSUME NEW b \in Nat \ {0}, NEW s \in Nat, NEW t \in Nat, NEW d \in Int, t = s + d,
         d # 0, d < b, -d < b, s % b = 0
  PROVE  t % b # 0
<1>1. s - t < b /\ t - s < b /\ s # t
  OBVIOUS
<1> QED
  BY <1>1, NotApart

\* Numbers that are alike but in one place.
OneApart(f, g, n, j) ==
  /\ j \in 1..n
  /\ \A i \in 1..n : f[i] \in Nat /\ g[i] \in Nat
  /\ \A i \in (1..n) \ {j} : g[i] = f[i]

LEMMA SumOneApart ==
  ASSUME NEW n \in Nat, NEW f, NEW g, NEW j, OneApart(f, g, n, j)
  PROVE  Sum(g, 1..n) = Sum(f, 1..n) + (g[j] - f[j])
<1>1. IsFiniteSet(1..n)
  BY FS_Interval
<1>2. /\ j \in 1..n /\ \A x \in 1..n : f[x] \in Int /\ g[x] \in Int
      /\ \A x \in (1..n) \ {j} : g[x] = f[x]
  BY DEF OneApart
<1> QED
  BY <1>1, <1>2, SumReplace

Change(x, y, k, b) == Addend(y, k, b) - Addend(x, k, b)

LEMMA AddendDiffers ==
  ASSUME NEW b \in Nat, b >= 2, b % 2 = 0, NEW k \in Int,
         NEW x \in 0..(b - 1), NEW y \in 0..(b - 1), x # y
  PROVE  /\ Change(x, y, k, b) \in Int /\ Change(x, y, k, b) # 0
         /\ Change(x, y, k, b) < b /\ -Change(x, y, k, b) < b
<1>1. /\ Addend(x, k, b) = IF k % 2 = 0 THEN x ELSE IF 2 * x < b THEN 2 * x ELSE 2 * x - b + 1
      /\ Addend(y, k, b) = IF k % 2 = 0 THEN y ELSE IF 2 * y < b THEN 2 * y ELSE 2 * y - b + 1
  BY AddendIs
<1> QED
  BY <1>1 DEF Change

Swap(x, y, k, l, b) == (Addend(y, k, b) - Addend(x, k, b)) + (Addend(x, l, b) - Addend(y, l, b))

LEMMA AddendsSwap ==
  ASSUME NEW b \in Nat, b >= 2, b % 2 = 0, NEW k \in Int, NEW l \in Int, l = k - 1,
         NEW x \in 0..(b - 1), NEW y \in 0..(b - 1), x # y,
         ~(x = 0 /\ y = b - 1), ~(y = 0 /\ x = b - 1)
  PROVE  Swap(x, y, k, l, b) # 0 /\ Swap(x, y, k, l, b) < b /\ -Swap(x, y, k, l, b) < b
<1>1. k % 2 = 0 <=> l % 2 # 0
  OBVIOUS
<1>2. /\ Addend(x, k, b) = IF k % 2 = 0 THEN x ELSE IF 2 * x < b THEN 2 * x ELSE 2 * x - b + 1
      /\ Addend(y, k, b) = IF k % 2 = 0 THEN y ELSE IF 2 * y < b THEN 2 * y ELSE 2 * y - b + 1
      /\ Addend(x, l, b) = IF l % 2 = 0 THEN x ELSE IF 2 * x < b THEN 2 * x ELSE 2 * x - b + 1
      /\ Addend(y, l, b) = IF l % 2 = 0 THEN y ELSE IF 2 * y < b THEN 2 * y ELSE 2 * y - b + 1
  BY AddendIs
<1> QED
  BY <1>1, <1>2 DEF Swap

LEMMA AddendAt ==
  ASSUME NEW b, NEW n \in Nat, NEW values \in [1..n -> 0..(b - 1)], NEW i \in 1..n
  PROVE  Addends(values, 0, b)[i] = Addend(values[i], n - i, b) /\ n - i \in Int
<1>1. DOMAIN values = 1..n /\ Len(values) = n /\ (n - i) + 0 = n - i
  OBVIOUS
<1> QED
  BY <1>1 DEF Addends

\* One wrong character.
LEMMA WrongOne ==
  ASSUME NEW b \in Nat, b >= 2, b % 2 = 0, NEW n \in Nat,
         NEW values \in [1..n -> 0..(b - 1)], NEW wrong \in [1..n -> 0..(b - 1)],
         NEW j \in 1..n, wrong[j] # values[j], \A i \in (1..n) \ {j} : wrong[i] = values[i],
         CO!LuhnSum(values, 1, b) % b = 0
  PROVE  CO!LuhnSum(wrong, 1, b) % b # 0
<1> DEFINE f == Addends(values, 0, b)
           g == Addends(wrong, 0, b)
<1>1. b \in Nat \ {0}
  OBVIOUS
<1>2. /\ CO!LuhnSum(values, 1, b) = Sum(f, 1..n) /\ CO!LuhnSum(wrong, 1, b) = Sum(g, 1..n)
      /\ Sum(f, 1..n) \in Nat /\ Sum(g, 1..n) \in Nat
      /\ \A i \in 1..n : f[i] \in Nat /\ g[i] \in Nat
  BY <1>1, LuhnIs
<1>3. \A i \in 1..n : f[i] = Addend(values[i], n - i, b) /\ g[i] = Addend(wrong[i], n - i, b)
  BY AddendAt
<1> HIDE DEF f, g
<1>4. Sum(g, 1..n) = Sum(f, 1..n) + (g[j] - f[j])
  <2>1. \A x \in (1..n) \ {j} : g[x] = f[x]
    BY <1>3
  <2>2. OneApart(f, g, n, j)
    BY <1>2, <2>1 DEF OneApart
  <2> QED
    BY <2>2, SumOneApart
<1>5. PICK d \in Int : d = g[j] - f[j] /\ d # 0 /\ d < b /\ -d < b
  <2>1. values[j] \in 0..(b - 1) /\ wrong[j] \in 0..(b - 1) /\ n - j \in Int
    OBVIOUS
  <2>2. g[j] - f[j] = Change(values[j], wrong[j], n - j, b)
    BY <1>3 DEF Change
  <2> QED
    BY <2>1, <2>2, AddendDiffers
<1>6. PICK s \in Nat, t \in Nat : s = Sum(f, 1..n) /\ t = Sum(g, 1..n) /\ t = s + (g[j] - f[j])
  BY <1>2, <1>4
<1>8. s % b = 0
  BY <1>2, <1>6
<1>9. t = s + d
  BY <1>5, <1>6
<1>10. t % b # 0
  BY <1>1, <1>5, <1>8, <1>9, Spoilt
<1> QED
  BY <1>2, <1>6, <1>10

\* The first and the last character of the alphabet.
AreEnds(x, y, b) == {x, y} = {0, b - 1}

AreSwapped(values, wrong, n, j) ==
  /\ wrong[j] = values[j + 1] /\ wrong[j + 1] = values[j]
  /\ \A i \in (1..n) \ {j, j + 1} : wrong[i] = values[i]

\* Two neighbours swapped.
LEMMA WrongSwap ==
  ASSUME NEW b \in Nat, b >= 2, b % 2 = 0, NEW n \in Nat,
         NEW values \in [1..n -> 0..(b - 1)], NEW j \in 1..(n - 1),
         NEW wrong \in [1..n -> 0..(b - 1)], AreSwapped(values, wrong, n, j),
         values[j] # values[j + 1], ~AreEnds(values[j], values[j + 1], b),
         CO!LuhnSum(values, 1, b) % b = 0
  PROVE  CO!LuhnSum(wrong, 1, b) % b # 0
<1> DEFINE f == Addends(values, 0, b)
           g == Addends(wrong, 0, b)
           m == [i \in 1..n |-> IF i = j THEN g[i] ELSE f[i]]
<1>1. b \in Nat \ {0} /\ j \in 1..n /\ j + 1 \in 1..n
  OBVIOUS
<1>12. /\ wrong[j] = values[j + 1] /\ wrong[j + 1] = values[j]
       /\ \A i \in (1..n) \ {j, j + 1} : wrong[i] = values[i]
  BY DEF AreSwapped
<1>2. /\ CO!LuhnSum(values, 1, b) = Sum(f, 1..n) /\ CO!LuhnSum(wrong, 1, b) = Sum(g, 1..n)
      /\ Sum(f, 1..n) \in Nat /\ Sum(g, 1..n) \in Nat
      /\ \A i \in 1..n : f[i] \in Nat /\ g[i] \in Nat
  BY <1>1, LuhnIs
<1>3. \A i \in 1..n : f[i] = Addend(values[i], n - i, b) /\ g[i] = Addend(wrong[i], n - i, b)
  BY AddendAt
<1> HIDE DEF f, g
<1>4. /\ Sum(g, 1..n) = Sum(m, 1..n) + (g[j + 1] - f[j + 1])
      /\ Sum(m, 1..n) = Sum(f, 1..n) + (g[j] - f[j])
  <2>1. OneApart(f, m, n, j)
    BY <1>1, <1>2 DEF OneApart
  <2>2. OneApart(m, g, n, j + 1)
    <3>1. \A x \in (1..n) \ {j + 1} : g[x] = m[x]
      BY <1>3, <1>12
    <3>2. \A x \in 1..n : m[x] \in Nat /\ g[x] \in Nat
      BY <1>2
    <3> HIDE DEF m
    <3> QED
      BY <1>1, <3>1, <3>2 DEF OneApart
  <2>3. m[j] = g[j] /\ m[j + 1] = f[j + 1]
    BY <1>1
  <2> HIDE DEF m
  <2>4. Sum(m, 1..n) = Sum(f, 1..n) + (m[j] - f[j])
    BY <2>1, SumOneApart
  <2>5. Sum(g, 1..n) = Sum(m, 1..n) + (g[j + 1] - m[j + 1])
    BY <2>2, SumOneApart
  <2> QED
    BY <2>3, <2>4, <2>5
<1> HIDE DEF m
<1>11. PICK x \in Int, y \in Int : x = g[j] - f[j] /\ y = g[j + 1] - f[j + 1]
  <2>1. ASSUME NEW i \in 1..n
        PROVE  g[i] - f[i] \in Int
    <3>1. f[i] \in Nat /\ g[i] \in Nat
      BY <1>2, Zenon
    <3> QED
      BY <3>1
  <2> QED
    BY <1>1, <2>1
<1>5. PICK d \in Int : d = x + y /\ d = (g[j] - f[j]) + (g[j + 1] - f[j + 1])
  BY <1>11
<1>6. d # 0 /\ d < b /\ -d < b
  <2>1. PICK k \in Int, l \in Int : k = n - j /\ l = n - (j + 1) /\ l = k - 1
    OBVIOUS
  <2>2. PICK v \in 0..(b - 1), w \in 0..(b - 1) : v = values[j] /\ w = values[j + 1]
    BY <1>1
  <2>3. v # w /\ ~(v = 0 /\ w = b - 1) /\ ~(w = 0 /\ v = b - 1)
    BY <2>2 DEF AreEnds
  <2>4. /\ f[j] = Addend(v, k, b) /\ g[j] = Addend(w, k, b)
        /\ f[j + 1] = Addend(w, l, b) /\ g[j + 1] = Addend(v, l, b)
    BY <1>1, <1>3, <1>12, <2>1, <2>2
  <2>5. d = Swap(v, w, k, l, b)
    BY <1>5, <2>4 DEF Swap
  <2> QED
    BY <2>1, <2>3, <2>5, AddendsSwap
<1>7. PICK s \in Nat, t \in Nat : s = Sum(f, 1..n) /\ t = Sum(g, 1..n) /\ t = s + d
  <2>1. PICK s \in Nat, t \in Nat : s = Sum(f, 1..n) /\ t = Sum(g, 1..n)
    BY <1>2
  <2>2. t = Sum(m, 1..n) + y /\ Sum(m, 1..n) = s + x
    BY <1>4, <1>11, <2>1
  <2>3. t = s + d
    BY <1>5, <2>2
  <2> QED
    BY <2>1, <2>3
<1>8. s % b = 0
  BY <1>2, <1>7
<1>9. t % b # 0
  BY <1>1, <1>6, <1>7, <1>8, Spoilt
<1> QED
  BY <1>2, <1>7, <1>9

Marks == {coHash, coScheme, coSlash}
Chars == Int \cup coSeparators \cup Marks

LEMMA MarkFacts ==
  /\ coHash # coScheme /\ coHash # coSlash
  /\ \A s \in coSeparators : s \notin Marks
  /\ \A m \in coSeparators \cup Marks : m \notin Nat
  /\ \A m \in coSeparators \cup Marks, p \in CO!CityPrefixes : \A n \in DOMAIN p : p[n] # m
<1>1. CO!MarksAreApart
  BY FunctionsAssumption
<1>2. coHash # coScheme /\ coHash # coSlash /\ \A s \in coSeparators : s \notin Marks
  BY <1>1 DEF CO!MarksAreApart, Marks
<1>3. \A m \in coSeparators \cup Marks : m \notin Nat
  BY <1>1 DEF CO!MarksAreApart, Marks
<1>4. \A m \in coSeparators \cup Marks, p \in CO!CityPrefixes : \A n \in DOMAIN p : p[n] # m
  BY <1>1 DEF CO!MarksAreApart, Marks, CO!Range
<1> QED
  BY <1>2, <1>3, <1>4

LEMMA FormatFacts ==
  ASSUME NEW f \in coFormats
  PROVE  /\ f.base \in Nat /\ f.base >= 2 /\ f.body \in Nat \ {0}
         /\ \A c \in DOMAIN f.aliases : c \in Nat /\ c >= f.base /\ f.aliases[c] \in 0..(f.base - 1)
         /\ \A p \in CO!CityPrefixes : coCityIndex[p] \in 0..(f.base - 1)
         /\ \A g \in coFormats : CO!CanonicalLength(f) = CO!CanonicalLength(g) => f = g
<1>1. CO!FormatsAreValid
  BY FunctionsAssumption
<1>2. \A p \in CO!CityPrefixes : coCityIndex[p] \in Nat
  BY <1>1 DEF CO!FormatsAreValid
<1>3. /\ f.base \in Nat /\ f.base >= 2 /\ f.body \in Nat \ {0}
      /\ \A c \in DOMAIN f.aliases : c \in Nat /\ c >= f.base /\ f.aliases[c] \in 0..(f.base - 1)
      /\ \A p \in CO!CityPrefixes : coCityIndex[p] < f.base
  BY <1>1 DEF CO!FormatsAreValid
<1>4. \A g \in coFormats : CO!CanonicalLength(f) = CO!CanonicalLength(g) => f = g
  BY <1>1 DEF CO!FormatsAreValid
<1> QED
  BY <1>2, <1>3, <1>4

LEMMA CityFacts ==
  /\ \A p \in CO!CityPrefixes : /\ p \in [1..2 -> Int \ {0}] /\ p \in Seq(Int) /\ Len(p) = 2
                                /\ DOMAIN p = 1..2
  /\ \A p, q \in CO!CityPrefixes : coCityIndex[p] = coCityIndex[q] => p = q
  /\ CO!PrefixLength = 2
<1>1. CO!FormatsAreValid
  BY FunctionsAssumption
<1>2. \A p \in CO!CityPrefixes : p \in [1..2 -> Int \ {0}]
  BY <1>1 DEF CO!FormatsAreValid, CO!PrefixLength
<1>3. \A p \in [1..2 -> Int \ {0}] : p \in Seq(Int) /\ Len(p) = 2 /\ DOMAIN p = 1..2
  <2> SUFFICES ASSUME NEW p \in [1..2 -> Int \ {0}]
               PROVE  p \in Seq(Int) /\ Len(p) = 2 /\ DOMAIN p = 1..2
    OBVIOUS
  <2>1. p \in [1..2 -> Int]
    OBVIOUS
  <2>2. p \in Seq(Int)
    BY <2>1, SeqDef
  <2> QED
    BY <2>1, <2>2, LenProperties
<1>4. \A p, q \in CO!CityPrefixes : coCityIndex[p] = coCityIndex[q] => p = q
  BY <1>1 DEF CO!FormatsAreValid
<1> QED
  BY <1>2, <1>3, <1>4 DEF CO!PrefixLength

-----------------------------------------------------------------------------
(* Separators go                                                           *)

Written(c) == IF c \in coSeparators THEN <<>> ELSE <<c>>
Writing(text) == [n \in DOMAIN text |-> Written(text[n])]

LEMMA NormalizedIs == \A text : CO!Normalized(text) = FlattenSeq(Writing(text))
  BY CodeWords DEF CO!Normalized, Writing, Written

LEMMA WritingType ==
  ASSUME NEW text \in Seq(Chars)
  PROVE  /\ Writing(text) \in Seq(Seq(Chars)) /\ Len(Writing(text)) = Len(text)
         /\ \A n \in 1..Len(text) : Writing(text)[n] = Written(text[n])
<1>1. \A c \in Chars : Written(c) \in Seq(Chars)
  <2> HIDE DEF Chars
  <2> QED
    BY DEF Written
<1>2. DOMAIN text = 1..Len(text) /\ Len(text) \in Nat /\ \A n \in 1..Len(text) : text[n] \in Chars
  BY LenProperties, ElementOfSeq
<1>3. Writing(text) = [n \in 1..Len(text) |-> Written(text[n])]
  BY <1>2 DEF Writing
<1> HIDE DEF Chars
<1> QED
  BY <1>1, <1>2, <1>3

LEMMA NormalizedType ==
  ASSUME NEW text \in Seq(Chars)
  PROVE  CO!Normalized(text) \in Seq(Chars)
BY NormalizedIs, WritingType, FlattenType

LEMMA NormalizedConcat ==
  ASSUME NEW s \in Seq(Chars), NEW t \in Seq(Chars)
  PROVE  CO!Normalized(s \o t) = CO!Normalized(s) \o CO!Normalized(t)
<1> HIDE DEF Chars
<1>1. /\ s \o t \in Seq(Chars) /\ Len(s \o t) = Len(s) + Len(t) /\ Len(s) \in Nat /\ Len(t) \in Nat
      /\ \A i \in 1 .. Len(s) + Len(t) :
           (s \o t)[i] = IF i <= Len(s) THEN s[i] ELSE t[i - Len(s)]
  BY ConcatProperties
<1> DEFINE a == Writing(s)
           b == Writing(t)
           c == Writing(s \o t)
<1>2. /\ a \in Seq(Seq(Chars)) /\ Len(a) = Len(s)
      /\ \A n \in 1..Len(s) : a[n] = Written(s[n])
      /\ b \in Seq(Seq(Chars)) /\ Len(b) = Len(t)
      /\ \A n \in 1..Len(t) : b[n] = Written(t[n])
      /\ c \in Seq(Seq(Chars)) /\ Len(c) = Len(s) + Len(t)
      /\ \A n \in 1..(Len(s) + Len(t)) : c[n] = Written((s \o t)[n])
  BY <1>1, WritingType
<1> HIDE DEF a, b, c
<1>3. /\ a \o b \in Seq(Seq(Chars)) /\ Len(a \o b) = Len(s) + Len(t)
      /\ \A i \in 1 .. Len(s) + Len(t) : (a \o b)[i] = IF i <= Len(s) THEN a[i] ELSE b[i - Len(s)]
  <2>1. /\ a \o b \in Seq(Seq(Chars)) /\ Len(a \o b) = Len(a) + Len(b)
        /\ \A i \in 1 .. Len(a) + Len(b) : (a \o b)[i] = IF i <= Len(a) THEN a[i] ELSE b[i - Len(a)]
    <3>1. a \in Seq(Seq(Chars)) /\ b \in Seq(Seq(Chars))
      BY <1>2
    <3> QED
      BY <3>1, ConcatProperties, Zenon
  <2> QED
    BY <1>2, <2>1
<1>4. ASSUME NEW i \in 1..(Len(s) + Len(t))
      PROVE  (a \o b)[i] = c[i]
  <2>1. CASE i <= Len(s)
    <3>1. i \in 1..Len(s)
      BY <1>1, <2>1
    <3> QED
      BY <1>1, <1>2, <1>3, <2>1, <3>1
  <2>2. CASE ~(i <= Len(s))
    <3>1. i - Len(s) \in 1..Len(t)
      BY <1>1, <2>2
    <3>2. (a \o b)[i] = b[i - Len(s)] /\ (s \o t)[i] = t[i - Len(s)]
      BY <1>1, <1>3, <2>2
    <3> QED
      BY <1>2, <3>1, <3>2
  <2> QED
    BY <2>1, <2>2
<1>5. a \o b = c
  BY <1>2, <1>3, <1>4, SeqEqual
<1>6. FlattenSeq(a \o b) = FlattenSeq(a) \o FlattenSeq(b)
  BY <1>2, FlattenConcat
<1> QED
  BY <1>5, <1>6, NormalizedIs DEF a, b, c

LEMMA NormalizedSame ==
  ASSUME NEW s \in Seq(Chars), \A n \in 1..Len(s) : s[n] \notin coSeparators
  PROVE  CO!Normalized(s) = s
<1> HIDE DEF Chars
<1> DEFINE a == Writing(s)
           g == [i \in 0..Len(s) |-> SubSeq(s, 1, i)]
<1>2. a \in Seq(Seq(Chars)) /\ Len(a) = Len(s) /\ \A n \in 1..Len(s) : a[n] = Written(s[n])
  BY WritingType
<1>3. \A n \in 1..Len(s) : a[n] = <<s[n]>>
  <2> SUFFICES ASSUME NEW n \in 1..Len(s)
               PROVE  a[n] = <<s[n]>>
    OBVIOUS
  <2>2. a[n] = Written(s[n])
    BY <1>2
  <2> HIDE DEF a
  <2> QED
    BY <2>2 DEF Written
<1>4. Len(s) \in Nat
  BY LenProperties
<1>5. g[0] = <<>>
  BY <1>4
<1>6. ASSUME NEW i \in 1..Len(s)
      PROVE  g[i] = g[i - 1] \o a[i]
  <2>1. SubSeq(s, 1, i) = SubSeq(s, 1, i - 1) \o <<s[i]>>
    BY <1>4, SubSeqRecursiveSecond
  <2>2. g[i] = SubSeq(s, 1, i) /\ g[i - 1] = SubSeq(s, 1, i - 1)
    BY <1>4
  <2> HIDE DEF g, a
  <2> QED
    BY <1>3, <2>1, <2>2
<1>7. g[Len(s)] = s
  BY <1>4, SubSeqFull
<1> HIDE DEF a, g
<1>8. Concatenates(g, a, Len(a))
  BY <1>2, <1>5, <1>6 DEF Concatenates
<1>9. FlattenSeq(a) = g[Len(a)]
  BY <1>2, <1>8, FlattenIs
<1> QED
  BY <1>2, <1>7, <1>9, NormalizedIs DEF a

LEMMA NormalizedDash ==
  ASSUME NEW dash \in coSeparators
  PROVE  CO!Normalized(<<dash>>) = <<>>
<1>1. dash \in Chars
  BY DEF Chars
<1> HIDE DEF Chars
<1>2. <<dash>> \in Seq(Chars) /\ Len(<<dash>>) = 1 /\ <<dash>>[1] = dash
  BY <1>1
<1>3. Writing(<<dash>>) = << <<>> >>
  <2>1. Written(<<dash>>[1]) = <<>>
    BY <1>2 DEF Written
  <2>2. Writing(<<dash>>) = [n \in 1..1 |-> Written(<<dash>>[n])]
    BY DEF Writing
  <2> QED
    BY <2>1, <2>2
<1>4. FlattenSeq(<< <<>> >>) = <<>>
  <2>1. <<>> \in Seq(Chars)
    OBVIOUS
  <2> QED
    BY <2>1, FlattenOne
<1> QED
  BY <1>3, <1>4, NormalizedIs

-----------------------------------------------------------------------------
(* Wrappers go                                                             *)

Unmarked(s) == s \in Seq(Chars) /\ \A n \in 1..Len(s) : s[n] \notin Marks

LEMMA AfterIs ==
  ASSUME NEW head \in Seq(Chars), head # <<>>, NEW s, Unmarked(s),
         NEW marks \in SUBSET Marks, head[Len(head)] \in marks
  PROVE  CO!After(head \o s, marks) = s
<1> DEFINE text == head \o s
           h == Len(head)
           IsLast(n) == text[n] \in marks /\ \A m \in (n + 1)..Len(text) : text[m] \notin marks
           last == CHOOSE n \in DOMAIN text : IsLast(n)
<1> HIDE DEF Chars
<1>1. s \in Seq(Chars) /\ h \in Nat \ {0} /\ Len(s) \in Nat /\ \A n \in 1..Len(s) : s[n] \notin marks
  BY EmptySeq DEF Unmarked
<1>2. /\ text \in Seq(Chars) /\ Len(text) = h + Len(s) /\ DOMAIN text = 1..(h + Len(s))
      /\ \A i \in 1..(h + Len(s)) : text[i] = IF i <= h THEN head[i] ELSE s[i - h]
  BY <1>1, ConcatProperties, LenProperties
<1> HIDE DEF text
<1>3. h \in DOMAIN text /\ IsLast(h)
  <2>1. text[h] = head[h] /\ h \in DOMAIN text
    BY <1>1, <1>2
  <2>2. ASSUME NEW m \in (h + 1)..(h + Len(s))
        PROVE  text[m] \notin marks
    <3>1. text[m] = s[m - h] /\ m - h \in 1..Len(s)
      BY <1>1, <1>2
    <3> QED
      BY <1>1, <3>1
  <2> QED
    BY <1>2, <2>1, <2>2
<1>4. ASSUME NEW n \in DOMAIN text, IsLast(n)
      PROVE  n = h
  <2>1. CASE n < h
    <3>1. h \in (n + 1)..Len(text)
      BY <1>1, <1>2, <2>1
    <3> QED
      BY <1>3, <1>4, <3>1
  <2>2. CASE n > h
    <3>1. n \in (h + 1)..Len(text)
      BY <1>1, <1>2, <2>2
    <3> QED
      BY <1>3, <1>4, <3>1
  <2> QED
    BY <1>1, <1>2, <2>1, <2>2
<1>5. last = h
  <2> HIDE DEF IsLast
  <2> QED
    BY <1>3, <1>4
<1>6. CO!After(text, marks) = SubSeq(text, h + 1, h + Len(s))
  BY <1>2, <1>5 DEF CO!After
<1>7. SubSeq(text, h + 1, h + Len(s)) = s
  <2> DEFINE rest == SubSeq(text, h + 1, h + Len(s))
  <2>1. \A i \in (h + 1)..(h + Len(s)) : text[i] \in Chars
    BY <1>1, <1>2, ElementOfSeq
  <2>2. h + 1 \in Int /\ h + Len(s) \in Int
    BY <1>1
  <2>3. /\ rest \in Seq(Chars)
        /\ Len(rest) = IF h + 1 <= h + Len(s) THEN (h + Len(s)) - (h + 1) + 1 ELSE 0
        /\ \A i \in 1..((h + Len(s)) - (h + 1) + 1) : rest[i] = text[(h + 1) + i - 1]
    BY <2>1, <2>2, SubSeqProperties
  <2> HIDE DEF rest
  <2>4. Len(rest) = Len(s)
    BY <1>1, <2>3
  <2>5. ASSUME NEW i \in 1..Len(s)
        PROVE  rest[i] = s[i]
    <3>1. (h + 1) + i - 1 = h + i /\ i \in 1..((h + Len(s)) - (h + 1) + 1)
      BY <1>1
    <3>2. rest[i] = text[h + i]
      BY <2>3, <3>1
    <3>3. ~(h + i <= h) /\ h + i \in 1..(h + Len(s)) /\ (h + i) - h = i
      BY <1>1
    <3> QED
      BY <1>2, <3>2, <3>3
  <2> QED
    BY <1>1, <2>3, <2>4, <2>5, SeqEqual DEF rest
<1> QED
  BY <1>6, <1>7 DEF text

LEMMA UnwrappedIs ==
  ASSUME NEW s, Unmarked(s),
         NEW raw \in {s, <<coScheme, 1, coSlash, 2, coSlash>> \o s,
                      <<coScheme, 1, coSlash, 2, coHash>> \o s}
  PROVE  CO!Unwrapped(raw) = s
<1>1. s \in Seq(Chars) /\ Len(s) \in Nat /\ \A n \in 1..Len(s) : s[n] # coHash /\ s[n] # coScheme
  BY DEF Unmarked, Marks
<1>2. CASE raw = s
  <2>1. ~CO!Contains(raw, coHash) /\ ~CO!Contains(raw, coScheme)
    BY <1>1, <1>2 DEF CO!Contains
  <2> QED
    BY <1>2, <2>1 DEF CO!Unwrapped
<1>3. ASSUME NEW mark \in {coSlash, coHash}, raw = <<coScheme, 1, coSlash, 2, mark>> \o s
      PROVE  CO!Unwrapped(raw) = s
  <2> DEFINE head == <<coScheme, 1, coSlash, 2, mark>>
  <2>1. coScheme \in Chars /\ coSlash \in Chars /\ mark \in Chars /\ 1 \in Chars /\ 2 \in Chars
    BY DEF Chars, Marks
  <2> HIDE DEF Chars
  <2>2. /\ head \in Seq(Chars) /\ Len(head) = 5 /\ head # <<>> /\ head[1] = coScheme /\ head[2] = 1
        /\ head[3] = coSlash /\ head[4] = 2 /\ head[5] = mark
    BY <2>1
  <2> HIDE DEF head
  <2>3. /\ raw = head \o s /\ raw \in Seq(Chars) /\ Len(raw) = 5 + Len(s)
        /\ \A i \in 1..(5 + Len(s)) : raw[i] = IF i <= 5 THEN head[i] ELSE s[i - 5]
    <3>1. raw = head \o s
      BY <1>3 DEF head
    <3>2. /\ head \o s \in Seq(Chars) /\ Len(head \o s) = Len(head) + Len(s)
          /\ \A i \in 1..(Len(head) + Len(s)) : (head \o s)[i] = IF i <= Len(head) THEN head[i] ELSE s[i - Len(head)]
      BY <1>1, <2>2, ConcatProperties
    <3> QED
      BY <2>2, <3>1, <3>2
  <2>4. raw[1] = coScheme /\ raw[5] = mark /\ 1 \in 1..Len(raw) /\ 5 \in 1..Len(raw)
    BY <1>1, <2>2, <2>3
  <2>5. CASE mark = coHash
    <3>1. CO!Contains(raw, coHash)
      BY <2>4, <2>5 DEF CO!Contains
    <3>2. CO!After(head \o s, {coHash}) = s
      <4>1. {coHash} \in SUBSET Marks /\ head[Len(head)] \in {coHash}
        BY <2>2, <2>5 DEF Marks
      <4> QED
        BY <2>2, <4>1, AfterIs
    <3> QED
      BY <2>3, <3>1, <3>2 DEF CO!Unwrapped
  <2>6. CASE mark = coSlash /\ mark # coHash
    <3>1. ~CO!Contains(raw, coHash)
      <4>1. ASSUME NEW i \in 1..Len(raw)
            PROVE  raw[i] # coHash
        <5>1. CASE i <= 5
          <6>1. i \in 1..5 /\ raw[i] = head[i]
            BY <1>1, <2>3, <5>1
          <6>2. coHash # 1 /\ coHash # 2
            <7>1. coHash \in coSeparators \cup Marks
              BY DEF Marks
            <7>2. coHash \notin Nat
              BY <7>1, MarkFacts
            <7> QED
              BY <7>2
          <6>3. i = 1 \/ i = 2 \/ i = 3 \/ i = 4 \/ i = 5
            BY <6>1
          <6> QED
            BY <2>2, <2>6, <6>1, <6>2, <6>3, MarkFacts
        <5>2. CASE ~(i <= 5)
          <6>1. raw[i] = s[i - 5] /\ i - 5 \in 1..Len(s)
            BY <1>1, <2>3, <5>2
          <6> QED
            BY <1>1, <6>1
        <5> QED
          BY <5>1, <5>2
      <4> QED
        BY <4>1 DEF CO!Contains
    <3>2. CO!Contains(raw, coScheme)
      BY <2>4 DEF CO!Contains
    <3>3. CO!After(head \o s, {coScheme, coSlash}) = s
      <4>1. {coScheme, coSlash} \in SUBSET Marks /\ head[Len(head)] \in {coScheme, coSlash}
        BY <2>2, <2>6 DEF Marks
      <4> QED
        BY <2>2, <4>1, AfterIs
    <3> QED
      BY <2>3, <3>1, <3>2, <3>3 DEF CO!Unwrapped
  <2> QED
    BY <2>5, <2>6
<1> QED
  BY <1>2, <1>3

-----------------------------------------------------------------------------
(* A text is read                                                          *)

Parsed(city, tail, f) ==
  [problem |-> "none", city |-> city, canonical |-> city \o tail, format |-> f]
Verdict(city, tail, f) ==
  IF CO!CheckIsValid(city, tail, f) THEN Parsed(city, tail, f) ELSE CO!Mistyped

\* The text says city and tail, in their own characters or look-alikes.
IsCode(city, tail, f) ==
  /\ city \in CO!CityPrefixes /\ f \in coFormats
  /\ tail \in [1..(f.body + 1) -> 0..(f.base - 1)]
Tells(text, city, tail, f) ==
  /\ text \in Seq(Int) /\ Len(text) = f.body + 3
  /\ \A n \in 1..2 : text[n] = city[n] \/ (text[n] = 0 /\ city[n] = coLetterO)
  /\ \A n \in 1..(f.body + 1) :
       \/ text[n + 2] = tail[n]
       \/ text[n + 2] \in DOMAIN f.aliases /\ f.aliases[text[n + 2]] = tail[n]

LEMMA ParseAsIs ==
  ASSUME NEW city, NEW tail, NEW f, IsCode(city, tail, f), NEW text, Tells(text, city, tail, f)
  PROVE  CO!ParseAs(text, f) = Verdict(city, tail, f)
<1> DEFINE prefix == [n \in 1..CO!PrefixLength |-> IF text[n] = 0 THEN coLetterO ELSE text[n]]
           typed == SubSeq(text, CO!PrefixLength + 1, Len(text))
           rest == [n \in DOMAIN typed |->
                      IF typed[n] \in DOMAIN f.aliases THEN f.aliases[typed[n]] ELSE typed[n]]
<1>1. /\ f.body \in Nat /\ f.base \in Nat
      /\ \A c \in DOMAIN f.aliases : c \in Nat /\ c >= f.base
  BY FormatFacts DEF IsCode
<1>2. city \in [1..2 -> Int \ {0}] /\ CO!PrefixLength = 2
  BY CityFacts DEF IsCode
<1>3. prefix = city
  <2>1. ASSUME NEW n \in 1..2
        PROVE  prefix[n] = city[n]
    <3>1. city[n] # 0
      BY <1>2
    <3>2. text[n] = city[n] \/ (text[n] = 0 /\ city[n] = coLetterO)
      BY DEF Tells
    <3> QED
      BY <1>2, <3>1, <3>2
  <2> QED
    BY <1>2, <2>1
<1>4. DOMAIN typed = 1..(f.body + 1) /\ \A n \in 1..(f.body + 1) : typed[n] = text[n + 2]
  <2>1. text \in Seq(Int) /\ Len(text) = f.body + 3
    BY DEF Tells
  <2>2. /\ typed \in Seq(Int) /\ Len(typed) = f.body + 1
        /\ \A n \in 1..(f.body + 1) : typed[n] = text[n + 2]
    <3>1. typed = SubSeq(text, 3, f.body + 3)
      BY <1>2, <2>1
    <3> HIDE DEF typed
    <3> QED
      BY <1>1, <2>1, <3>1
  <2> HIDE DEF typed
  <2> QED
    BY <2>2
<1>5. rest = tail
  <2> HIDE DEF typed
  <2>1. DOMAIN tail = 1..(f.body + 1) /\ \A n \in 1..(f.body + 1) : tail[n] \in 0..(f.base - 1)
    BY DEF IsCode
  <2>2. ASSUME NEW n \in 1..(f.body + 1)
        PROVE  rest[n] = tail[n]
    <3>1. CASE typed[n] = tail[n]
      <4>1. typed[n] \notin DOMAIN f.aliases
        BY <1>1, <2>1, <3>1
      <4> QED
        BY <1>4, <3>1, <4>1
    <3>2. CASE typed[n] \in DOMAIN f.aliases /\ f.aliases[typed[n]] = tail[n]
      BY <1>4, <3>2
    <3> QED
      BY <1>4, <3>1, <3>2 DEF Tells
  <2>3. tail = [n \in 1..(f.body + 1) |-> tail[n]]
    BY DEF IsCode
  <2> QED
    BY <1>4, <2>2, <2>3
<1>6. CO!Range(tail) \subseteq 0..(f.base - 1)
  BY DEF CO!Range, IsCode
<1>7. city \in CO!CityPrefixes
  BY DEF IsCode
<1> HIDE DEF prefix, rest
<1>8. CO!ParseAs(text, f) =
        CASE prefix \notin CO!CityPrefixes -> CO!Malformed
          [] prefix \in CO!CityPrefixes /\ ~(CO!Range(rest) \subseteq 0..(f.base - 1)) -> CO!Malformed
          [] OTHER -> IF CO!CheckIsValid(prefix, rest, f)
                      THEN [problem |-> "none", city |-> prefix,
                            canonical |-> prefix \o rest, format |-> f]
                      ELSE CO!Mistyped
  BY DEF CO!ParseAs, prefix, rest
<1> QED
  BY <1>3, <1>5, <1>6, <1>7, <1>8 DEF Verdict, Parsed

\* The length tells the format.
LEMMA ParseIs ==
  ASSUME NEW city, NEW tail, NEW f, IsCode(city, tail, f), NEW raw,
         Tells(CO!Normalized(CO!Unwrapped(raw)), city, tail, f)
  PROVE  CO!Parse(raw) = Verdict(city, tail, f)
<1> DEFINE text == CO!Normalized(CO!Unwrapped(raw))
           fitting == {g \in coFormats : CO!CanonicalLength(g) = Len(text)}
<1>1. f \in coFormats /\ f.body \in Nat
  BY FormatFacts DEF IsCode
<1>2. Len(text) = CO!CanonicalLength(f)
  BY <1>1, CityFacts DEF Tells, CO!CanonicalLength
<1> HIDE DEF text
<1>3. fitting = {f}
  BY <1>1, <1>2, FormatFacts
<1>4. (CHOOSE g \in fitting : TRUE) = f
  BY <1>3
<1>5. CO!Parse(raw) = CO!ParseAs(text, f)
  BY <1>3, <1>4 DEF CO!Parse, text
<1> QED
  BY <1>5, ParseAsIs DEF text

\* A text without marks and separators, plain or in a URL.
LEMMA PlainIs ==
  ASSUME NEW city, NEW tail, NEW f, IsCode(city, tail, f), NEW text, Tells(text, city, tail, f)
  PROVE  /\ Unmarked(text) /\ CO!Normalized(text) = text
         /\ \A n \in 1..Len(text) : text[n] \notin coSeparators
<1>1. text \in Seq(Int) /\ Len(text) = f.body + 3 /\ f.body \in Nat /\ f.base \in Nat
  BY FormatFacts DEF Tells, IsCode
<1>2. ASSUME NEW n \in 1..Len(text)
      PROVE  text[n] \notin Marks /\ text[n] \notin coSeparators
  <2>1. CASE n \in 1..2
    <3>1. text[n] = city[n] \/ text[n] = 0
      BY <2>1 DEF Tells
    <3>2. city \in CO!CityPrefixes /\ n \in DOMAIN city
      BY <2>1, CityFacts DEF IsCode
    <3>3. city[n] \notin coSeparators \cup Marks
      BY <3>2, MarkFacts
    <3>4. 0 \notin coSeparators \cup Marks
      BY MarkFacts
    <3> QED
      BY <3>1, <3>3, <3>4
  <2>2. CASE n \notin 1..2
    <3>1. PICK k \in 1..(f.body + 1) : n = k + 2
      BY <1>1, <2>2
    <3>2. text[n] = tail[k] \/ text[n] \in DOMAIN f.aliases
      BY <3>1 DEF Tells
    <3>3. tail[k] \in Nat
      BY <1>1, <3>1 DEF IsCode
    <3>4. text[n] \in Nat
      BY <3>2, <3>3, FormatFacts DEF IsCode
    <3> QED
      BY <3>4, MarkFacts
  <2> QED
    BY <2>1, <2>2
<1>3. text \in Seq(Chars)
  <2>1. \A n \in 1..Len(text) : text[n] \in Chars
    BY <1>1, ElementOfSeq DEF Chars
  <2> HIDE DEF Chars
  <2> QED
    BY <1>1, <2>1
<1> QED
  BY <1>2, <1>3, NormalizedSame DEF Unmarked

LEMMA TypedIs ==
  ASSUME NEW city, NEW tail, NEW f, IsCode(city, tail, f), NEW text, Tells(text, city, tail, f),
         NEW raw \in {text, <<coScheme, 1, coSlash, 2, coSlash>> \o text,
                      <<coScheme, 1, coSlash, 2, coHash>> \o text}
  PROVE  CO!Parse(raw) = Verdict(city, tail, f)
<1>1. CO!Unwrapped(raw) = text /\ CO!Normalized(text) = text
  BY PlainIs, UnwrappedIs
<1> QED
  BY <1>1, ParseIs

\* A code tells itself.
Says(text, city, tail, f) ==
  /\ Len(text) = f.body + 3 /\ \A n \in 1..2 : text[n] = city[n]
  /\ \A n \in 1..(f.body + 1) : text[n + 2] = tail[n]

LEMMA CodeTells ==
  ASSUME NEW city, NEW tail, NEW f, IsCode(city, tail, f)
  PROVE  Tells(city \o tail, city, tail, f) /\ Says(city \o tail, city, tail, f)
<1>1. city \in Seq(Int) /\ Len(city) = 2 /\ f.body \in Nat /\ f.base \in Nat
  BY CityFacts, FormatFacts DEF IsCode
<1>2. tail \in Seq(Int) /\ Len(tail) = f.body + 1
  <2>1. tail \in [1..(f.body + 1) -> Int]
    BY <1>1 DEF IsCode
  <2>2. f.body + 1 \in Nat
    BY <1>1
  <2>3. tail \in Seq(Int)
    BY <2>1, <2>2, SeqDef
  <2> QED
    BY <2>1, <2>2, <2>3, LenProperties
<1>3. /\ city \o tail \in Seq(Int) /\ Len(city \o tail) = Len(city) + Len(tail)
      /\ \A i \in 1..(Len(city) + Len(tail)) :
           (city \o tail)[i] = IF i <= Len(city) THEN city[i] ELSE tail[i - Len(city)]
  BY <1>1, <1>2, ConcatProperties
<1>4. \A n \in 1..2 : (city \o tail)[n] = city[n]
  BY <1>1, <1>2, <1>3
<1>5. ASSUME NEW n \in 1..(f.body + 1)
      PROVE  (city \o tail)[n + 2] = tail[n]
  <2>1. n + 2 \in 1..(f.body + 3) /\ ~(n + 2 <= 2) /\ (n + 2) - 2 = n
    BY <1>1
  <2> QED
    BY <1>1, <1>2, <1>3, <2>1
<1>6. Len(city \o tail) = f.body + 3 /\ city \o tail \in Seq(Int)
  BY <1>1, <1>2, <1>3
<1> DEFINE text == city \o tail
<1> HIDE DEF text
<1> QED
  BY <1>4, <1>5, <1>6 DEF Tells, Says, text

-----------------------------------------------------------------------------
(* Slips are noticed                                                       *)

Values(city, tail) == <<coCityIndex[city]>> \o tail

Leads(t, x, s, n, V) ==
  t \in [1..(n + 1) -> V] /\ t[1] = x /\ \A m \in 1..n : t[m + 1] = s[m]

LEMMA Led ==
  ASSUME NEW V, NEW x \in V, NEW n \in Nat, NEW s \in [1..n -> V]
  PROVE  Leads(<<x>> \o s, x, s, n, V)
<1> DEFINE t == <<x>> \o s
<1>2. s \in Seq(V) /\ Len(s) = n
  <2>1. s \in Seq(V)
    BY SeqDef
  <2> QED
    BY <2>1, LenProperties
<1>3. <<x>> \in Seq(V) /\ Len(<<x>>) = 1 /\ <<x>>[1] = x
  OBVIOUS
<1>4. /\ t \in Seq(V) /\ Len(t) = Len(<<x>>) + Len(s)
      /\ \A i \in 1..(Len(<<x>>) + Len(s)) : t[i] = IF i <= Len(<<x>>) THEN <<x>>[i] ELSE s[i - Len(<<x>>)]
  BY <1>2, <1>3, ConcatProperties
<1> HIDE DEF t
<1>5. t \in Seq(V) /\ Len(t) = n + 1
  BY <1>2, <1>3, <1>4
<1>6. t[1] = x
  BY <1>2, <1>3, <1>4
<1>7. ASSUME NEW m \in 1..n
      PROVE  t[m + 1] = s[m]
  <2>1. m + 1 \in 1..(1 + n) /\ ~(m + 1 <= 1) /\ (m + 1) - 1 = m
    OBVIOUS
  <2> QED
    BY <1>2, <1>3, <1>4, <2>1
<1>8. t \in [1..(n + 1) -> V]
  BY <1>5, LenProperties
<1> QED
  BY <1>6, <1>7, <1>8 DEF Leads, t

LEMMA ValuesAre ==
  ASSUME NEW city, NEW tail, NEW f, IsCode(city, tail, f)
  PROVE  /\ f.base \in Nat /\ f.base >= 2 /\ f.body \in Nat
         /\ coCityIndex[city] \in 0..(f.base - 1)
         /\ Values(city, tail) \in [1..(f.body + 2) -> 0..(f.base - 1)]
         /\ Values(city, tail)[1] = coCityIndex[city]
         /\ \A n \in 1..(f.body + 1) : Values(city, tail)[n + 1] = tail[n]
         /\ CO!CheckIsValid(city, tail, f) <=> CO!LuhnSum(Values(city, tail), 1, f.base) % f.base = 0
<1>1. f.base \in Nat /\ f.base >= 2 /\ f.body \in Nat /\ coCityIndex[city] \in 0..(f.base - 1)
  BY FormatFacts DEF IsCode
<1>2. PICK m \in Nat : m = f.body + 1 /\ m + 1 = f.body + 2
  BY <1>1
<1>3. tail \in [1..m -> 0..(f.base - 1)]
  BY <1>2 DEF IsCode
<1>7. Leads(Values(city, tail), coCityIndex[city], tail, m, 0..(f.base - 1))
  BY <1>1, <1>3, Led DEF Values
<1>4. /\ Values(city, tail) \in [1..(m + 1) -> 0..(f.base - 1)]
      /\ Values(city, tail)[1] = coCityIndex[city]
      /\ \A n \in 1..m : Values(city, tail)[n + 1] = tail[n]
  BY <1>7 DEF Leads
<1>5. CO!CheckIsValid(city, tail, f) <=> CO!LuhnSum(Values(city, tail), 1, f.base) % f.base = 0
  BY DEF CO!CheckIsValid, Values
<1> QED
  BY <1>1, <1>2, <1>4, <1>5

\* A code as it is made.
Ending(city, body, f) == Append(body, CO!CheckValue(city, body, f))

LEMMA MadeIs ==
  ASSUME NEW city, NEW body, NEW f, CO!Generated(city, body, f)
  PROVE  /\ IsCode(city, Ending(city, body, f), f)
         /\ CO!Code(city, body, f) = city \o Ending(city, body, f)
         /\ CO!CheckIsValid(city, Ending(city, body, f), f)
<1> DEFINE b == f.base
           k == f.body
           tail == Ending(city, body, f)
           c == CO!CheckValue(city, body, f)
           front == Values(city, body)
<1>1. city \in CO!CityPrefixes /\ f \in coFormats /\ body \in [1..k -> 0..(b - 1)]
  BY DEF CO!Generated
<1>2. b \in Nat /\ b >= 2 /\ k \in Nat /\ coCityIndex[city] \in 0..(b - 1)
  BY <1>1, FormatFacts
<1>3. /\ front \in [1..(k + 1) -> 0..(b - 1)] /\ front[1] = coCityIndex[city]
      /\ \A m \in 1..k : front[m + 1] = body[m]
  <2>1. Leads(front, coCityIndex[city], body, k, 0..(b - 1))
    BY <1>1, <1>2, Led DEF Values
  <2> QED
    BY <2>1 DEF Leads
<1>4. c = (b - (CO!LuhnSum(front, 2, b) % b)) % b
  BY DEF CO!CheckValue, Values
<1>5. c \in 0..(b - 1)
  <2>1. PICK s \in Nat : s = CO!LuhnSum(front, 2, b)
    <3>1. PICK m \in Nat : m = k + 1
      BY <1>2
    <3>2. front \in [1..m -> 0..(b - 1)]
      BY <1>3, <3>1
    <3>3. CO!LuhnSum(front, 2, b) \in Nat
      <4> HIDE DEF front, b
      <4> QED
        BY <1>2, <3>2, LuhnIs
    <3> QED
      BY <3>3
  <2>5. b \in Nat \ {0}
    BY <1>2
  <2> HIDE DEF b
  <2>2. s % b \in 0..(b - 1)
    BY <2>1, <2>5, Divides
  <2>3. PICK r \in Nat : r = b - (s % b)
    BY <2>2, <2>5
  <2>4. r % b \in 0..(b - 1)
    BY <2>3, <2>5, Divides
  <2> QED
    BY <1>4, <2>1, <2>3, <2>4
<1> HIDE DEF c, front, b, k
<1>6. tail \in [1..(k + 1) -> 0..(b - 1)] /\ (\A n \in 1..k : tail[n] = body[n]) /\ tail[k + 1] = c
  <2> DEFINE V == 0..(b - 1)
  <2>1. body \in [1..k -> V] /\ c \in V
    BY <1>1, <1>5
  <2> HIDE DEF V
  <2>2. body \in Seq(V) /\ Len(body) = k
    <3>1. body \in Seq(V)
      BY <1>2, <2>1, SeqDef
    <3> QED
      BY <1>2, <2>1, <3>1, LenProperties
  <2>3. tail = Append(body, c)
    BY DEF Ending, c
  <2>4. /\ tail \in Seq(V) /\ Len(tail) = k + 1
        /\ \A n \in 1..k : tail[n] = body[n]
        /\ tail[k + 1] = c
    BY <1>2, <2>1, <2>2, <2>3, AppendProperties
  <2>5. tail \in [1..(k + 1) -> V]
    BY <2>4, LenProperties
  <2> QED
    BY <2>4, <2>5 DEF V
<1>7. IsCode(city, tail, f)
  BY <1>1, <1>6 DEF IsCode, b, k
<1> HIDE DEF tail
<1> DEFINE values == Values(city, tail)
<1>8. /\ values \in [1..(k + 2) -> 0..(b - 1)] /\ values[1] = coCityIndex[city]
      /\ \A n \in 1..(k + 1) : values[n + 1] = tail[n]
      /\ CO!CheckIsValid(city, tail, f) <=> CO!LuhnSum(values, 1, b) % b = 0
  BY <1>7, ValuesAre DEF b, k
<1> HIDE DEF values
<1>9. PICK n \in Nat : n = k + 1 /\ n + 1 = k + 2
  BY <1>2
<1>10. \A i \in 1..n : values[i] = front[i]
  <2> SUFFICES ASSUME NEW i \in 1..n
               PROVE  values[i] = front[i]
    OBVIOUS
  <2>1. CASE i = 1
    BY <1>3, <1>8, <2>1
  <2>2. CASE i # 1
    <3>1. PICK m \in 1..k : i = m + 1 /\ m \in 1..(k + 1)
      BY <1>2, <1>9, <2>2
    <3> QED
      BY <1>3, <1>6, <1>8, <3>1
  <2> QED
    BY <2>1, <2>2
<1>11. values[n + 1] = c
  <2>1. k + 1 \in 1..(k + 1)
    BY <1>2
  <2> QED
    BY <1>6, <1>8, <1>9, <2>1
<1>12. CO!LuhnSum(values, 1, b) % b = 0
  <2>1. values \in [1..(n + 1) -> 0..(b - 1)] /\ front \in [1..n -> 0..(b - 1)]
    BY <1>3, <1>8, <1>9
  <2> QED
    BY <1>2, <1>4, <1>10, <1>11, <2>1, Balanced
<1>13. CO!Code(city, body, f) = city \o tail
  BY DEF CO!Code, Ending, tail
<1> QED
  BY <1>7, <1>8, <1>12, <1>13 DEF tail

LEMMA WrongCharacter ==
  ASSUME NEW city, NEW tail, NEW f, IsCode(city, tail, f), CO!CheckIsValid(city, tail, f),
         f.base % 2 = 0, NEW wrong, IsCode(city, wrong, f), NEW n \in 1..(f.body + 1),
         wrong[n] # tail[n], \A m \in (1..(f.body + 1)) \ {n} : wrong[m] = tail[m]
  PROVE  ~CO!CheckIsValid(city, wrong, f)
<1> DEFINE b == f.base
           v == Values(city, tail)
           w == Values(city, wrong)
<1>2. /\ b \in Nat /\ b >= 2 /\ f.body \in Nat
      /\ v \in [1..(f.body + 2) -> 0..(b - 1)] /\ w \in [1..(f.body + 2) -> 0..(b - 1)]
      /\ v[1] = w[1]
      /\ \A m \in 1..(f.body + 1) : v[m + 1] = tail[m] /\ w[m + 1] = wrong[m]
      /\ CO!LuhnSum(v, 1, b) % b = 0
      /\ CO!CheckIsValid(city, wrong, f) <=> CO!LuhnSum(w, 1, b) % b = 0
  BY ValuesAre
<1> HIDE DEF b, v, w
<1>9. PICK k \in Nat : k = f.body + 2
  BY <1>2
<1>4. PICK j \in 1..k : k = f.body + 2 /\ j = n + 1
  BY <1>2, <1>9
<1>5. w[j] # v[j]
  BY <1>2, <1>4
<1>6. ASSUME NEW i \in (1..k) \ {j}
      PROVE  w[i] = v[i]
  <2>1. CASE i = 1
    BY <1>2, <2>1
  <2>2. CASE i # 1
    <3>1. PICK m \in (1..(f.body + 1)) \ {n} : i = m + 1
      <4>1. i - 1 \in (1..(f.body + 1)) \ {n} /\ i = (i - 1) + 1
        BY <1>2, <1>4, <2>2
      <4> QED
        BY <4>1
    <3> QED
      BY <1>2, <3>1
  <2> QED
    BY <2>1, <2>2
<1>7. CO!LuhnSum(w, 1, b) % b # 0
  <2>1. v \in [1..k -> 0..(b - 1)] /\ w \in [1..k -> 0..(b - 1)]
    BY <1>2, <1>4
  <2>2. b % 2 = 0 /\ \A i \in (1..k) \ {j} : w[i] = v[i]
    BY <1>6 DEF b
  <2> QED
    BY <1>2, <1>5, <2>1, <2>2, WrongOne
<1> QED
  BY <1>2, <1>7

LEMMA WrongCity ==
  ASSUME NEW city, NEW tail, NEW f, IsCode(city, tail, f), CO!CheckIsValid(city, tail, f),
         f.base % 2 = 0, NEW other \in CO!CityPrefixes, other # city
  PROVE  IsCode(other, tail, f) /\ ~CO!CheckIsValid(other, tail, f)
<1>1. IsCode(other, tail, f)
  BY DEF IsCode
<1> DEFINE b == f.base
           v == Values(city, tail)
           w == Values(other, tail)
<1>2. /\ b \in Nat /\ b >= 2 /\ f.body \in Nat
      /\ v \in [1..(f.body + 2) -> 0..(b - 1)] /\ w \in [1..(f.body + 2) -> 0..(b - 1)]
      /\ v[1] = coCityIndex[city] /\ w[1] = coCityIndex[other]
      /\ \A m \in 1..(f.body + 1) : v[m + 1] = tail[m] /\ w[m + 1] = tail[m]
      /\ CO!LuhnSum(v, 1, b) % b = 0
      /\ CO!CheckIsValid(other, tail, f) <=> CO!LuhnSum(w, 1, b) % b = 0
  BY <1>1, ValuesAre
<1> HIDE DEF b, v, w
<1>3. w[1] # v[1]
  BY <1>2, CityFacts DEF IsCode
<1>4. PICK k \in Nat : k = f.body + 2 /\ 1 \in 1..k
  BY <1>2
<1>5. ASSUME NEW i \in (1..k) \ {1}
      PROVE  w[i] = v[i]
  <2>1. PICK m \in 1..(f.body + 1) : i = m + 1
    <3>1. i - 1 \in 1..(f.body + 1) /\ i = (i - 1) + 1
      BY <1>2, <1>4
    <3> QED
      BY <3>1
  <2> QED
    BY <1>2, <2>1
<1>6. CO!LuhnSum(w, 1, b) % b # 0
  <2>1. v \in [1..k -> 0..(b - 1)] /\ w \in [1..k -> 0..(b - 1)]
    BY <1>2, <1>4
  <2>2. b % 2 = 0 /\ \A i \in (1..k) \ {1} : w[i] = v[i]
    BY <1>5 DEF b
  <2> QED
    BY <1>2, <1>3, <1>4, <2>1, <2>2, WrongOne
<1> QED
  BY <1>1, <1>2, <1>6

LEMMA WrongOrder ==
  ASSUME NEW city, NEW tail, NEW f, IsCode(city, tail, f), CO!CheckIsValid(city, tail, f),
         f.base % 2 = 0, NEW wrong, IsCode(city, wrong, f), NEW n \in 1..f.body,
         tail[n] # tail[n + 1], ~AreEnds(tail[n], tail[n + 1], f.base),
         AreSwapped(tail, wrong, f.body + 1, n)
  PROVE  ~CO!CheckIsValid(city, wrong, f)
<1>0. f.body \in Nat /\ n \in 1..(f.body + 1) /\ n + 1 \in 1..(f.body + 1)
  BY ValuesAre
<1> DEFINE b == f.base
           v == Values(city, tail)
           w == Values(city, wrong)
<1>2. /\ b \in Nat /\ b >= 2 /\ f.body \in Nat
      /\ v \in [1..(f.body + 2) -> 0..(b - 1)] /\ w \in [1..(f.body + 2) -> 0..(b - 1)]
      /\ v[1] = w[1]
      /\ \A m \in 1..(f.body + 1) : v[m + 1] = tail[m] /\ w[m + 1] = wrong[m]
      /\ CO!LuhnSum(v, 1, b) % b = 0
      /\ CO!CheckIsValid(city, wrong, f) <=> CO!LuhnSum(w, 1, b) % b = 0
  BY ValuesAre
<1> HIDE DEF b, v, w
<1>9. PICK k \in Nat : k = f.body + 2
  BY <1>2
<1>4. PICK j \in 1..(k - 1) : k = f.body + 2 /\ j = n + 1 /\ j + 1 = (n + 1) + 1
  BY <1>2, <1>9
<1>3. /\ wrong[n] = tail[n + 1] /\ wrong[n + 1] = tail[n]
      /\ \A m \in (1..(f.body + 1)) \ {n, n + 1} : wrong[m] = tail[m]
  BY DEF AreSwapped
<1>5. /\ w[j] = v[j + 1] /\ w[j + 1] = v[j] /\ v[j] # v[j + 1]
      /\ ~AreEnds(v[j], v[j + 1], b)
  BY <1>0, <1>2, <1>3, <1>4 DEF b
<1>6. ASSUME NEW i \in (1..k) \ {j, j + 1}
      PROVE  w[i] = v[i]
  <2>1. CASE i = 1
    BY <1>2, <2>1
  <2>2. CASE i # 1
    <3>1. PICK m \in (1..(f.body + 1)) \ {n, n + 1} : i = m + 1
      <4>1. i - 1 \in (1..(f.body + 1)) \ {n, n + 1} /\ i = (i - 1) + 1
        BY <1>2, <1>4, <2>2
      <4> QED
        BY <4>1
    <3> QED
      BY <1>2, <1>3, <3>1
  <2> QED
    BY <2>1, <2>2
<1>7. CO!LuhnSum(w, 1, b) % b # 0
  <2>1. v \in [1..k -> 0..(b - 1)] /\ w \in [1..k -> 0..(b - 1)]
    BY <1>2, <1>4
  <2>2. AreSwapped(v, w, k, j)
    BY <1>5, <1>6 DEF AreSwapped
  <2>3. b % 2 = 0
    BY DEF b
  <2> QED
    BY <1>2, <1>5, <2>1, <2>2, <2>3, WrongSwap
<1> QED
  BY <1>2, <1>7

\* What changes a text within the tail.
LEMMA OtherTells ==
  ASSUME NEW city, NEW wrong, NEW f, IsCode(city, wrong, f), NEW text \in Seq(Int),
         Len(text) = f.body + 3, \A m \in 1..2 : text[m] = city[m],
         \A m \in 1..(f.body + 1) : text[m + 2] = wrong[m],
         ~CO!CheckIsValid(city, wrong, f)
  PROVE  CO!Parse(text) = CO!Mistyped
<1>1. Tells(text, city, wrong, f)
  BY DEF Tells
<1>2. CO!Parse(text) = Verdict(city, wrong, f)
  BY <1>1, TypedIs
<1> QED
  BY <1>2 DEF Verdict

LEMMA SlipsDo ==
  ASSUME NEW city, NEW body, NEW f, CO!Generated(city, body, f)
  PROVE  CO!SlipsAreCaught(city, body, f)
<1> DEFINE code == CO!Code(city, body, f)
           tail == Ending(city, body, f)
           b == f.base
           k == f.body + 1
<1>1. IsCode(city, tail, f) /\ code = city \o tail /\ CO!CheckIsValid(city, tail, f)
  BY MadeIs
<1>2. f.body \in Nat /\ b \in Nat /\ k \in Nat
  BY <1>1, ValuesAre
<1>3. tail \in [1..k -> 0..(b - 1)] /\ city \in CO!CityPrefixes /\ f \in coFormats
  BY <1>1 DEF IsCode
<1> HIDE DEF code, tail
<1>4. /\ code \in Seq(Int) /\ Len(code) = f.body + 3 /\ DOMAIN code = 1..(f.body + 3)
      /\ \A m \in 1..2 : code[m] = city[m]
      /\ \A m \in 1..k : code[m + 2] = tail[m]
  <2>1. /\ code \in Seq(Int) /\ Len(code) = f.body + 3
        /\ \A m \in 1..2 : code[m] = city[m]
        /\ \A m \in 1..k : code[m + 2] = tail[m]
    <3>1. PICK s : s = city \o tail
      OBVIOUS
    <3>2. /\ s \in Seq(Int) /\ Len(s) = f.body + 3
          /\ \A m \in 1..2 : s[m] = city[m]
          /\ \A m \in 1..(f.body + 1) : s[m + 2] = tail[m]
      <4>1. Tells(s, city, tail, f)
        BY <1>1, <3>1, CodeTells
      <4>2. Says(s, city, tail, f)
        BY <1>1, <3>1, CodeTells
      <4> QED
        BY <4>1, <4>2 DEF Tells, Says
    <3> QED
      BY <1>1, <3>1, <3>2
  <2> QED
    BY <2>1, LenProperties
<1> HIDE DEF b, k
<1>5. k = f.body + 1 /\ f.body + 3 = k + 2
  BY <1>2 DEF k
<1>6. SUFFICES ASSUME b % 2 = 0
               PROVE  /\ \A n \in 3..(k + 2), c \in 0..(b - 1) :
                           c # code[n] => CO!Parse([code EXCEPT ![n] = c]) = CO!Mistyped
                      /\ \A other \in CO!CityPrefixes \ {city} :
                           CO!Parse(other \o SubSeq(code, 3, k + 2)) = CO!Mistyped
                      /\ \A n \in (3..(k + 2)) \ {k + 2} :
                           code[n] # code[n + 1] /\ {code[n], code[n + 1]} # {0, b - 1} =>
                             CO!Parse(CO!Swapped(code, n)) = CO!Mistyped
  <2>1. CO!PrefixLength = 2 /\ Len(code) = k + 2 /\ CO!PrefixLength + 1 = 3
    BY <1>4, <1>5, CityFacts
  <2>2. CO!SlipsAreCaught(city, body, f) =
          (b % 2 = 0 =>
             /\ \A n \in (CO!PrefixLength + 1)..Len(code), c \in 0..(b - 1) :
                  c # code[n] => CO!Parse([code EXCEPT ![n] = c]) = CO!Mistyped
             /\ \A other \in CO!CityPrefixes \ {city} :
                  CO!Parse(other \o SubSeq(code, CO!PrefixLength + 1, Len(code))) = CO!Mistyped
             /\ \A n \in ((CO!PrefixLength + 1)..Len(code)) \ {Len(code)} :
                  code[n] # code[n + 1] /\ {code[n], code[n + 1]} # {0, b - 1} =>
                    CO!Parse(CO!Swapped(code, n)) = CO!Mistyped)
    BY DEF CO!SlipsAreCaught, code, b
  <2> QED
    BY <2>1, <2>2
<1>7. ASSUME NEW n \in 3..(k + 2), NEW c \in 0..(b - 1), c # code[n]
      PROVE  CO!Parse([code EXCEPT ![n] = c]) = CO!Mistyped
  <2>1. PICK j \in 1..k : n = j + 2
    <3>1. n - 2 \in 1..k /\ n = (n - 2) + 2
      BY <1>2
    <3> QED
      BY <3>1
  <2> DEFINE text == [code EXCEPT ![n] = c]
             wrong == [tail EXCEPT ![j] = c]
  <2>2. /\ wrong \in [1..k -> 0..(b - 1)] /\ wrong[j] = c
        /\ \A m \in (1..k) \ {j} : wrong[m] = tail[m]
    BY <1>3
  <2>3. /\ text \in Seq(Int) /\ Len(text) = f.body + 3
        /\ text[n] = c /\ \A m \in 1..(f.body + 3) : m # n => text[m] = code[m]
    <3>1. n \in 1..Len(code) /\ c \in Int
      BY <1>2, <1>4, <1>5
    <3> QED
      BY <1>4, <1>5, <3>1, ExceptSeq
  <2> HIDE DEF text, wrong
  <2>4. \A m \in 1..2 : text[m] = city[m]
    BY <1>2, <1>4, <2>3
  <2>5. ASSUME NEW m \in 1..k
        PROVE  text[m + 2] = wrong[m]
    <3>1. CASE m = j
      BY <2>1, <2>2, <2>3, <3>1
    <3>2. CASE m # j
      <4>1. m + 2 \in 1..(f.body + 3) /\ m + 2 # n
        BY <1>2, <1>5, <2>1, <3>2
      <4> QED
        BY <1>4, <2>2, <2>3, <3>2, <4>1
    <3> QED
      BY <3>1, <3>2
  <2>6. IsCode(city, wrong, f)
    BY <1>3, <2>2 DEF IsCode, b, k
  <2>7. ~CO!CheckIsValid(city, wrong, f)
    <3>1. wrong[j] # tail[j]
      BY <1>4, <1>7, <2>1, <2>2
    <3>2. \A m \in (1..(f.body + 1)) \ {j} : wrong[m] = tail[m]
      BY <1>5, <2>2
    <3>3. f.base % 2 = 0 /\ j \in 1..(f.body + 1)
      BY <1>5, <1>6 DEF b
    <3> QED
      BY <1>1, <2>6, <3>1, <3>2, <3>3, WrongCharacter
  <2>8. \A m \in 1..(f.body + 1) : text[m + 2] = wrong[m]
    BY <1>5, <2>5
  <2> QED
    BY <2>3, <2>4, <2>6, <2>7, <2>8, OtherTells DEF text
<1>8. ASSUME NEW other \in CO!CityPrefixes \ {city}
      PROVE  CO!Parse(other \o SubSeq(code, 3, k + 2)) = CO!Mistyped
  <2>1. IsCode(other, tail, f) /\ ~CO!CheckIsValid(other, tail, f)
    <3>1. f.base % 2 = 0
      BY <1>6 DEF b
    <3> QED
      BY <1>1, <3>1, WrongCity
  <2>2. SubSeq(code, 3, k + 2) = tail
    <3> DEFINE rest == SubSeq(code, 3, k + 2)
    <3>1. /\ rest \in Seq(Int) /\ Len(rest) = k
          /\ \A m \in 1..k : rest[m] = code[m + 2]
      BY <1>2, <1>4, <1>5
    <3>2. rest = [m \in 1..k |-> rest[m]]
      BY <3>1
    <3> HIDE DEF rest
    <3>3. tail = [m \in 1..k |-> tail[m]]
      BY <1>3
    <3>4. rest = tail
      BY <1>4, <3>1, <3>2, <3>3
    <3> QED
      BY <3>4 DEF rest
  <2>3. Tells(other \o tail, other, tail, f)
    BY <2>1, CodeTells
  <2>4. CO!Parse(other \o tail) = Verdict(other, tail, f)
    BY <2>1, <2>3, TypedIs
  <2> QED
    BY <2>1, <2>2, <2>4 DEF Verdict
<1>9. ASSUME NEW n \in (3..(k + 2)) \ {k + 2},
             code[n] # code[n + 1], {code[n], code[n + 1]} # {0, b - 1}
      PROVE  CO!Parse(CO!Swapped(code, n)) = CO!Mistyped
  <2>1. PICK j \in 1..f.body : n = j + 2 /\ n + 1 = (j + 1) + 2 /\ j \in 1..k /\ j + 1 \in 1..k
    <3>1. n - 2 \in 1..f.body /\ n = (n - 2) + 2 /\ n + 1 = ((n - 2) + 1) + 2
          /\ n - 2 \in 1..k /\ (n - 2) + 1 \in 1..k
      BY <1>2, <1>5
    <3> QED
      BY <3>1
  <2> DEFINE text == [code EXCEPT ![n] = code[n + 1], ![n + 1] = code[n]]
             wrong == [tail EXCEPT ![j] = tail[j + 1], ![j + 1] = tail[j]]
  <2>2. /\ wrong \in [1..k -> 0..(b - 1)] /\ wrong[j] = tail[j + 1] /\ wrong[j + 1] = tail[j]
        /\ \A m \in (1..k) \ {j, j + 1} : wrong[m] = tail[m]
    BY <1>3, <2>1
  <2>9. code[n] = tail[j] /\ code[n + 1] = tail[j + 1]
    BY <1>4, <2>1
  <2>10. n \in 1..Len(code) /\ n + 1 \in 1..Len(code) /\ n # n + 1
    BY <1>2, <1>4, <1>5
  <2>3. /\ text \in Seq(Int) /\ Len(text) = f.body + 3
        /\ text[n] = code[n + 1] /\ text[n + 1] = code[n]
        /\ \A m \in 1..(f.body + 3) : m # n /\ m # n + 1 => text[m] = code[m]
    <3>1. code[n] \in Int /\ code[n + 1] \in Int
      BY <1>4, <2>10, ElementOfSeq
    <3>2. PICK s : s = [code EXCEPT ![n] = code[n + 1]]
      OBVIOUS
    <3>3. s \in Seq(Int) /\ Len(s) = Len(code) /\ \A m \in 1..Len(code) : s[m] = IF m = n THEN code[n + 1] ELSE code[m]
      BY <1>4, <2>10, <3>1, <3>2, ExceptSeq
    <3>4. text = [s EXCEPT ![n + 1] = code[n]]
      BY <3>2
    <3>5. text \in Seq(Int) /\ Len(text) = Len(s) /\ \A m \in 1..Len(s) : text[m] = IF m = n + 1 THEN code[n] ELSE s[m]
      <4> HIDE DEF text
      <4> QED
        BY <2>10, <3>1, <3>3, <3>4, ExceptSeq
    <3> HIDE DEF text
    <3> QED
      BY <1>4, <2>10, <3>3, <3>5
  <2> HIDE DEF text, wrong
  <2>4. \A m \in 1..2 : text[m] = city[m]
    <3>1. \A m \in 1..2 : m \in 1..(f.body + 3) /\ m # n /\ m # n + 1
      BY <1>2
    <3> QED
      BY <1>4, <2>3, <3>1
  <2>5. ASSUME NEW m \in 1..k
        PROVE  text[m + 2] = wrong[m]
    <3>1. CASE m = j
      BY <2>1, <2>2, <2>3, <2>9, <3>1
    <3>3. CASE m = j + 1
      BY <2>1, <2>2, <2>3, <2>9, <3>3
    <3>2. CASE m # j /\ m # j + 1
      <4>1. m + 2 \in 1..(f.body + 3) /\ m + 2 # n /\ m + 2 # n + 1
        BY <1>2, <1>5, <2>1, <3>2
      <4>2. text[m + 2] = code[m + 2]
        BY <2>3, <4>1
      <4> QED
        BY <1>4, <2>2, <3>2, <4>2
    <3> QED
      BY <3>1, <3>2, <3>3
  <2>6. IsCode(city, wrong, f)
    BY <1>3, <2>2 DEF IsCode, b, k
  <2>7. ~CO!CheckIsValid(city, wrong, f)
    <3>1. tail[j] # tail[j + 1] /\ ~AreEnds(tail[j], tail[j + 1], f.base)
      BY <1>9, <2>9 DEF AreEnds, b
    <3>2. AreSwapped(tail, wrong, f.body + 1, j)
      BY <1>5, <2>2 DEF AreSwapped
    <3>3. f.base % 2 = 0
      BY <1>6 DEF b
    <3> QED
      BY <1>1, <2>6, <3>1, <3>2, <3>3, WrongOrder
  <2>8. \A m \in 1..(f.body + 1) : text[m + 2] = wrong[m]
    BY <1>5, <2>5
  <2>11. CO!Parse(text) = CO!Mistyped
    BY <2>3, <2>4, <2>6, <2>7, <2>8, OtherTells
  <2> QED
    BY <2>11 DEF text, CO!Swapped
<1> QED
  BY <1>7, <1>8, <1>9

-----------------------------------------------------------------------------
(* Every spelling of a code                                                *)

\* Where the groups of a printed code end.
Before(f, n) == Sum(f.grouping, 1..n)

LEMMA GroupsAre ==
  ASSUME NEW f \in coFormats
  PROVE  /\ Len(f.grouping) \in Nat /\ DOMAIN f.grouping = 1..Len(f.grouping)
         /\ \A n \in 1..Len(f.grouping) : f.grouping[n] \in Nat
         /\ f.body \in Nat /\ Before(f, 0) = 0 /\ Before(f, Len(f.grouping)) = f.body + 1
         /\ \A n \in 0..Len(f.grouping) : Before(f, n) \in 0..(f.body + 1)
         /\ \A n \in 1..Len(f.grouping) :
              /\ Before(f, n) = Before(f, n - 1) + f.grouping[n]
              /\ CO!SumFunction(SubSeq(f.grouping, 1, n - 1)) = Before(f, n - 1)
<1>1. f.grouping \in Seq(Nat \ {0}) /\ CO!SumFunction(f.grouping) = f.body + 1 /\ f.body \in Nat
  BY FunctionsAssumption DEF CO!FormatsAreValid
<1>2. PICK g \in Seq(Nat \ {0}) : g = f.grouping
  BY <1>1
<1> DEFINE N == Len(g)
<1>3. N \in Nat /\ DOMAIN g = 1..N /\ \A n \in 1..N : g[n] \in Nat
  BY LenProperties, ElementOfSeq
<1>4. ASSUME NEW n \in 0..N
      PROVE  IsFiniteSet(1..n) /\ Sum(g, 1..n) \in Nat
  <2>1. IsFiniteSet(1..n)
    BY FS_Interval
  <2>2. \A x \in 1..n : g[x] \in Nat
    BY <1>3
  <2> QED
    BY <2>1, <2>2, SumNat
<1>5. Sum(g, 1..N) = f.body + 1
  BY <1>1, <1>2, <1>3, CodeWords
<1>6. Sum(g, 1..0) = 0
  <2>1. 1..0 = {}
    OBVIOUS
  <2> QED
    BY <2>1, SumEmpty
<1>7. ASSUME NEW n \in 0..N
      PROVE  Sum(g, 1..n) \in 0..(f.body + 1)
  <2>1. IsFiniteSet(1..N) /\ 1..n \subseteq 1..N
    BY <1>3, FS_Interval
  <2>2. Sum(g, 1..n) <= Sum(g, 1..N)
    BY <1>3, <2>1, SumMore
  <2> QED
    BY <1>1, <1>4, <1>5, <2>2
<1>8. ASSUME NEW n \in 1..N
      PROVE  Sum(g, 1..n) = Sum(g, 1..(n - 1)) + g[n]
  <2>1. n - 1 \in 0..N /\ n \notin 1..(n - 1) /\ 1..n = (1..(n - 1)) \cup {n}
    BY <1>3
  <2>2. IsFiniteSet(1..(n - 1))
    BY <1>4, <2>1
  <2>3. \A x \in (1..(n - 1)) \cup {n} : g[x] \in Int
    BY <1>3, <2>1
  <2>4. Sum(g, (1..(n - 1)) \cup {n}) = Sum(g, 1..(n - 1)) + g[n]
    BY <2>1, <2>2, <2>3, SumAdd
  <2> QED
    BY <2>1, <2>4
<1>9. ASSUME NEW n \in 1..N
      PROVE  CO!SumFunction(SubSeq(g, 1, n - 1)) = Sum(g, 1..(n - 1))
  <2> DEFINE s == SubSeq(g, 1, n - 1)
  <2>1. DOMAIN s = 1..(n - 1) /\ \A x \in 1..(n - 1) : s[x] = g[x]
    BY <1>3
  <2> HIDE DEF s
  <2>2. CO!SumFunction(s) = Sum(s, 1..(n - 1))
    BY <2>1, CodeWords
  <2>3. n - 1 \in 0..N
    BY <1>3
  <2>4. IsFiniteSet(1..(n - 1))
    BY <1>4, <2>3
  <2>5. Sum(s, 1..(n - 1)) = Sum(g, 1..(n - 1))
    BY <2>1, <2>4, SumSame
  <2> QED
    BY <2>2, <2>5 DEF s
<1> QED
  BY <1>1, <1>2, <1>3, <1>5, <1>6, <1>7, <1>8, <1>9 DEF Before

LEMMA Respelled ==
  ASSUME NEW city, NEW tail, NEW f, IsCode(city, tail, f), CO!CheckIsValid(city, tail, f),
         NEW s, Unmarked(s), Tells(CO!Normalized(s), city, tail, f),
         NEW raw \in {s, <<coScheme, 1, coSlash, 2, coSlash>> \o s,
                      <<coScheme, 1, coSlash, 2, coHash>> \o s}
  PROVE  CO!Parse(raw) = Parsed(city, tail, f)
<1>1. CO!Unwrapped(raw) = s
  BY UnwrappedIs
<1> QED
  BY <1>1, ParseIs DEF Verdict

\* What no mark is in.
Plain == Chars \ Marks

LEMMA PlainUnmarked == \A s \in Seq(Plain) : Unmarked(s)
<1> SUFFICES ASSUME NEW s \in Seq(Plain)
             PROVE  Unmarked(s)
  OBVIOUS
<1>1. \A n \in 1..Len(s) : s[n] \in Plain
  BY ElementOfSeq
<1>2. Plain \subseteq Chars /\ \A c \in Plain : c \notin Marks
  BY DEF Plain
<1> HIDE DEF Plain, Chars
<1>3. s \in Seq(Chars)
  BY <1>1, <1>2
<1> QED
  BY <1>1, <1>2, <1>3 DEF Unmarked

\* A part of a code.
LEMMA PartIs ==
  ASSUME NEW code \in Seq(Int), Unmarked(code), \A n \in 1..Len(code) : code[n] \notin coSeparators,
         NEW a \in 1..(Len(code) + 1), NEW z \in 0..Len(code)
  PROVE  /\ SubSeq(code, a, z) \in Seq(Plain)
         /\ CO!Normalized(SubSeq(code, a, z)) = SubSeq(code, a, z)
<1> DEFINE u == SubSeq(code, a, z)
<1>1. Len(code) \in Nat /\ \A n \in 1..Len(code) : code[n] \in Plain /\ code[n] \notin coSeparators
  BY ElementOfSeq DEF Unmarked, Plain, Chars
<1> HIDE DEF Plain
<1>2. /\ u \in Seq(Plain) /\ Len(u) = IF a <= z THEN z - a + 1 ELSE 0
      /\ \A i \in 1..(z - a + 1) : u[i] = code[a + i - 1]
  <2>1. \A i \in a..z : code[i] \in Plain
    BY <1>1
  <2> QED
    BY <1>1, <2>1, SubSeqProperties
<1> HIDE DEF u
<1>3. ASSUME NEW i \in 1..Len(u)
      PROVE  u[i] \notin coSeparators
  <2>1. i \in 1..(z - a + 1) /\ a + i - 1 \in 1..Len(code)
    BY <1>1, <1>2
  <2> QED
    BY <1>1, <1>2, <2>1
<1>4. u \in Seq(Chars)
  BY <1>2, PlainUnmarked DEF Unmarked
<1>5. CO!Normalized(u) = u
  BY <1>3, <1>4, NormalizedSame
<1> QED
  BY <1>2, <1>5 DEF u

\* Printed in groups, and read again.
LEMMA PrintedIs ==
  ASSUME NEW f \in coFormats, NEW dash \in coSeparators, NEW code \in Seq(Int),
         Len(code) = f.body + 3, Unmarked(code), \A n \in 1..Len(code) : code[n] \notin coSeparators
  PROVE  Unmarked(CO!Printed(code, f, dash)) /\ CO!Normalized(CO!Printed(code, f, dash)) = code
<1> DEFINE g == f.grouping
           N == Len(g)
           end(n) == 2 + Before(f, n)
           group(n) == SubSeq(code, end(n - 1) + 1, end(n))
           groups == [n \in 1..N |-> <<dash>> \o group(n)]
           head == SubSeq(code, 1, 2)
           parts == <<head>> \o groups
<1>1. /\ N \in Nat /\ DOMAIN g = 1..N /\ (\A n \in 1..N : g[n] \in Nat) /\ f.body \in Nat
      /\ end(0) = 2 /\ end(N) = f.body + 3
      /\ \A n \in 0..N : end(n) \in 2..(f.body + 3)
      /\ \A n \in 1..N : end(n) = end(n - 1) + g[n]
                         /\ CO!PrefixLength + CO!SumFunction(SubSeq(g, 1, n - 1)) = end(n - 1)
  <2>1. CO!PrefixLength = 2
    BY CityFacts
  <2>2. /\ N \in Nat /\ DOMAIN g = 1..N /\ (\A n \in 1..N : g[n] \in Nat) /\ f.body \in Nat
        /\ Before(f, 0) = 0 /\ Before(f, N) = f.body + 1
        /\ \A n \in 0..N : Before(f, n) \in 0..(f.body + 1)
        /\ \A n \in 1..N : Before(f, n) = Before(f, n - 1) + g[n]
                           /\ CO!SumFunction(SubSeq(g, 1, n - 1)) = Before(f, n - 1)
    BY GroupsAre
  <2> HIDE DEF N, g
  <2>3. end(0) = 2 /\ end(N) = f.body + 3
    BY <2>2
  <2>4. ASSUME NEW n \in 0..N
        PROVE  end(n) \in 2..(f.body + 3)
    <3>1. PICK m \in 0..(f.body + 1) : m = Before(f, n)
      BY <2>2
    <3> QED
      BY <2>2, <3>1
  <2>5. ASSUME NEW n \in 1..N
        PROVE  /\ end(n) = end(n - 1) + g[n]
               /\ CO!PrefixLength + CO!SumFunction(SubSeq(g, 1, n - 1)) = end(n - 1)
    <3>1. n - 1 \in 0..N
      BY <2>2
    <3>2. PICK m \in 0..(f.body + 1), k \in Nat : m = Before(f, n - 1) /\ k = g[n]
      BY <2>2, <3>1
    <3>3. Before(f, n) = m + k /\ CO!SumFunction(SubSeq(g, 1, n - 1)) = m
      BY <2>2, <3>2
    <3> QED
      BY <2>1, <3>2, <3>3
  <2> HIDE DEF end
  <2> QED
    BY <2>2, <2>3, <2>4, <2>5
<1>2. CO!Printed(code, f, dash) = FlattenSeq(parts)
  <2>1. ASSUME NEW n \in DOMAIN g
        PROVE  SubSeq(code, (CO!PrefixLength + CO!SumFunction(SubSeq(g, 1, n - 1))) + 1,
                      (CO!PrefixLength + CO!SumFunction(SubSeq(g, 1, n - 1))) + g[n]) = group(n)
    BY <1>1
  <2>2. [n \in DOMAIN g |-> <<dash>> \o
           SubSeq(code, (CO!PrefixLength + CO!SumFunction(SubSeq(g, 1, n - 1))) + 1,
                  (CO!PrefixLength + CO!SumFunction(SubSeq(g, 1, n - 1))) + g[n])] = groups
    <3> HIDE DEF group, g
    <3> QED
      BY <1>1, <2>1
  <2>3. CO!PrefixLength = 2
    BY CityFacts
  <2>4. CO!Printed(code, f, dash) =
          CO!FlattenSeq(<<SubSeq(code, 1, CO!PrefixLength)>> \o
            [n \in DOMAIN g |-> <<dash>> \o
              SubSeq(code, (CO!PrefixLength + CO!SumFunction(SubSeq(g, 1, n - 1))) + 1,
                     (CO!PrefixLength + CO!SumFunction(SubSeq(g, 1, n - 1))) + g[n])])
    BY DEF CO!Printed
  <2> HIDE DEF groups, g
  <2> QED
    BY <2>2, <2>3, <2>4, CodeWords
<1> HIDE DEF g, N, end
<1>3. ASSUME NEW n \in 1..N
      PROVE  group(n) \in Seq(Plain) /\ CO!Normalized(group(n)) = group(n)
  <2>1. n - 1 \in 0..N /\ n \in 0..N
    BY <1>1
  <2>2. end(n - 1) + 1 \in 1..(Len(code) + 1) /\ end(n) \in 0..Len(code)
    <3>1. end(n - 1) \in 2..(f.body + 3) /\ end(n) \in 2..(f.body + 3)
      BY <1>1, <2>1
    <3>2. PICK l \in Nat : l = f.body + 3 /\ l = Len(code)
      BY <1>1
    <3> QED
      BY <3>1, <3>2
  <2> QED
    BY <2>2, PartIs
<1>4. head \in Seq(Plain) /\ CO!Normalized(head) = head
  <2>1. 1 \in 1..(Len(code) + 1) /\ 2 \in 0..Len(code)
    BY <1>1
  <2> QED
    BY <2>1, PartIs
<1>5. <<dash>> \in Seq(Plain) /\ CO!Normalized(<<dash>>) = <<>>
  <2>1. dash \in Plain
    BY MarkFacts DEF Plain, Chars
  <2>2. <<dash>> \in Seq(Plain)
    <3> HIDE DEF Plain
    <3> QED
      BY <2>1
  <2> QED
    BY <2>2, NormalizedDash
<1> HIDE DEF group, head
<1>6. ASSUME NEW u \in Seq(Plain)
      PROVE  u \in Seq(Chars)
  BY PlainUnmarked DEF Unmarked
<1>7. ASSUME NEW n \in 1..N
      PROVE  groups[n] \in Seq(Plain) /\ CO!Normalized(groups[n]) = group(n)
  <2>1. groups[n] = <<dash>> \o group(n)
    OBVIOUS
  <2>2. <<dash>> \o group(n) \in Seq(Plain)
    BY <1>3, <1>5, ConcatProperties
  <2>3. CO!Normalized(<<dash>> \o group(n)) = <<>> \o group(n)
    <3>1. <<dash>> \in Seq(Chars) /\ group(n) \in Seq(Chars)
      BY <1>3, <1>5, <1>6
    <3> QED
      BY <1>3, <1>5, <3>1, NormalizedConcat
  <2>4. <<>> \o group(n) = group(n)
    BY <1>3, ConcatEmptySeq
  <2> QED
    BY <2>1, <2>2, <2>3, <2>4
<1>8. /\ parts \in Seq(Seq(Plain)) /\ Len(parts) = N + 1 /\ parts[1] = head
      /\ \A n \in 1..N : parts[n + 1] = groups[n]
  <2> DEFINE Y == Seq(Plain)
  <2>1. head \in Y /\ groups \in [1..N -> Y]
    BY <1>4, <1>7
  <2> HIDE DEF Y, groups
  <2>2. Leads(<<head>> \o groups, head, groups, N, Y)
    BY <1>1, <2>1, Led
  <2>3. /\ parts \in [1..(N + 1) -> Y] /\ parts[1] = head
        /\ \A n \in 1..N : parts[n + 1] = groups[n]
    BY <2>2 DEF Leads
  <2> HIDE DEF parts
  <2>4. N + 1 \in Nat
    BY <1>1
  <2>5. parts \in Seq(Y)
    BY <2>3, <2>4, SeqDef
  <2> QED
    BY <2>3, <2>4, <2>5, LenProperties DEF Y
<1> HIDE DEF parts
<1>9. Unmarked(FlattenSeq(parts))
  <2>1. FlattenSeq(parts) \in Seq(Plain)
    BY <1>8, FlattenType
  <2> QED
    BY <2>1, PlainUnmarked
<1>10. PICK pr \in [0..(N + 1) -> Seq(Plain)] :
         Concatenates(pr, parts, N + 1) /\ FlattenSeq(parts) = pr[N + 1]
  <2>1. Flattens(parts, N + 1, Seq(Plain))
    <3>1. Flattens(parts, Len(parts), Seq(Plain))
      BY <1>8, SomeFlatten
    <3> QED
      BY <1>8, <3>1
  <2> QED
    BY <2>1 DEF Flattens
<1>11. pr[0] = <<>> /\ \A i \in 1..(N + 1) : pr[i] = pr[i - 1] \o parts[i]
  BY <1>10 DEF Concatenates
<1> DEFINE F == [i \in 0..N |-> CO!Normalized(pr[i + 1])]
           G == [i \in 0..N |-> SubSeq(code, 1, end(i))]
<1>12. F[0] = G[0]
  <2>1. F[0] = CO!Normalized(pr[1]) /\ G[0] = SubSeq(code, 1, end(0))
    BY <1>1
  <2>2. pr[1] = pr[0] \o parts[1]
    <3>1. 1 \in 1..(N + 1) /\ 1 - 1 = 0
      BY <1>1
    <3> QED
      BY <1>11, <3>1
  <2>3. <<>> \o head = head
    BY <1>4, ConcatEmptySeq
  <2>4. G[0] = head
    BY <1>1, <2>1 DEF head
  <2> HIDE DEF F, G
  <2> QED
    BY <1>4, <1>8, <1>11, <2>1, <2>2, <2>3, <2>4
<1>13. ASSUME NEW i \in 1..N, F[i - 1] = G[i - 1]
       PROVE  F[i] = G[i]
  <2>1. i \in 1..(N + 1) /\ i + 1 \in 1..(N + 1) /\ i \in 0..(N + 1) /\ (i + 1) - 1 = i
        /\ i - 1 \in 0..N /\ i \in 0..N /\ (i - 1) + 1 = i
    BY <1>1
  <2>2. F[i] = CO!Normalized(pr[i + 1]) /\ F[i - 1] = CO!Normalized(pr[i])
        /\ G[i] = SubSeq(code, 1, end(i)) /\ G[i - 1] = SubSeq(code, 1, end(i - 1))
    BY <2>1
  <2> HIDE DEF F, G, groups
  <2>3. pr[i + 1] = pr[i] \o groups[i]
    BY <1>8, <1>11, <2>1
  <2>4. CO!Normalized(pr[i + 1]) = CO!Normalized(pr[i]) \o group(i)
    <3>1. pr[i] \in Seq(Chars) /\ groups[i] \in Seq(Chars)
      BY <1>6, <1>7, <2>1
    <3>2. CO!Normalized(pr[i] \o groups[i]) = CO!Normalized(pr[i]) \o CO!Normalized(groups[i])
      BY <3>1, NormalizedConcat
    <3> QED
      BY <1>7, <2>3, <3>2
  <2>5. SubSeq(code, 1, end(i - 1)) \o SubSeq(code, end(i - 1) + 1, end(i)) = SubSeq(code, 1, end(i))
    <3>1. PICK m \in 2..(f.body + 3), z \in 2..(f.body + 3) :
            m = end(i - 1) /\ z = end(i) /\ m <= z
      <4>1. end(i - 1) \in 2..(f.body + 3) /\ end(i) \in 2..(f.body + 3)
        BY <1>1, <2>1
      <4>2. end(i) = end(i - 1) + g[i] /\ g[i] \in Nat
        BY <1>1
      <4>3. PICK m \in 2..(f.body + 3), z \in 2..(f.body + 3), k \in Nat :
              m = end(i - 1) /\ z = end(i) /\ k = g[i]
        BY <4>1, <4>2
      <4>4. z = m + k
        BY <4>2, <4>3
      <4>5. m <= z
        BY <4>4
      <4> QED
        BY <4>3, <4>5
    <3>2. SubSeq(code, 1, m) \o SubSeq(code, m + 1, z) = SubSeq(code, 1, z)
      <4>1. 1 \in 1..(Len(code) + 1) /\ m \in (1 - 1)..Len(code) /\ z \in m..Len(code)
        <5>1. PICK l \in Nat : l = f.body + 3 /\ l = Len(code)
          BY <1>1
        <5> QED
          BY <3>1, <5>1
      <4> QED
        BY <4>1, ConcatAdjacentSubSeq
    <3> QED
      BY <3>1, <3>2
  <2> QED
    BY <1>13, <2>2, <2>4, <2>5 DEF group
<1>14. F[N] = G[N]
  <2> HIDE DEF F, G
  <2>1. \A i \in 1..N : F[i - 1] = G[i - 1] => F[i] = G[i]
    BY <1>13
  <2>2. Agree(F, G, N)
    BY <1>1, <1>12, <2>1, StepsAgree
  <2>3. N \in 0..N
    BY <1>1
  <2> QED
    BY <2>2, <2>3 DEF Agree
<1>15. CO!Normalized(FlattenSeq(parts)) = code
  <2>1. F[N] = CO!Normalized(pr[N + 1]) /\ G[N] = SubSeq(code, 1, end(N))
    BY <1>1
  <2>2. SubSeq(code, 1, end(N)) = code
    BY <1>1, SubSeqFull
  <2> HIDE DEF F, G
  <2> QED
    BY <1>10, <1>14, <2>1, <2>2
<1> QED
  BY <1>2, <1>9, <1>15

\* Look-alikes in the tail, and 0 for O in the prefix.
LookAlike(c, f) ==
  IF \E a \in DOMAIN f.aliases : f.aliases[a] = c
  THEN CHOOSE a \in DOMAIN f.aliases : f.aliases[a] = c ELSE c
Misread(code, f) ==
  [n \in DOMAIN code |->
     IF n > CO!PrefixLength THEN LookAlike(code[n], f)
     ELSE IF code[n] = coLetterO THEN 0 ELSE code[n]]

LEMMA MisreadTells ==
  ASSUME NEW city, NEW tail, NEW f, IsCode(city, tail, f), NEW code \in Seq(Int),
         Says(code, city, tail, f)
  PROVE  Tells(Misread(code, f), city, tail, f)
<1> DEFINE text == Misread(code, f)
<1>1. /\ f.body \in Nat /\ Len(code) = f.body + 3 /\ DOMAIN code = 1..(f.body + 3)
      /\ CO!PrefixLength = 2 /\ \A n \in 1..(f.body + 3) : code[n] \in Int
  <2>1. Len(code) = f.body + 3 /\ f.body \in Nat
    BY ValuesAre DEF Says
  <2> QED
    BY <2>1, CityFacts, LenProperties, ElementOfSeq
<1>2. \A c : LookAlike(c, f) = c \/ (/\ LookAlike(c, f) \in DOMAIN f.aliases
                                    /\ f.aliases[LookAlike(c, f)] = c)
  BY DEF LookAlike
<1>3. \A n \in 1..(f.body + 3) :
        text[n] = IF n > 2 THEN LookAlike(code[n], f) ELSE IF code[n] = coLetterO THEN 0 ELSE code[n]
  BY <1>1 DEF Misread
<1>4. DOMAIN text = 1..(f.body + 3)
  BY <1>1 DEF Misread
<1>5. ASSUME NEW n \in 1..(f.body + 3)
      PROVE  text[n] \in Int
  <2>1. \A c \in DOMAIN f.aliases : c \in Nat
    BY FormatFacts DEF IsCode
  <2>2. code[n] \in Int
    BY <1>1
  <2> HIDE DEF text
  <2> QED
    BY <1>2, <1>3, <2>1, <2>2
<1>6. text \in Seq(Int) /\ Len(text) = f.body + 3
  <2>1. text = [n \in 1..(f.body + 3) |-> text[n]]
    BY <1>1 DEF Misread
  <2>2. PICK l \in Nat : l = f.body + 3
    BY <1>1
  <2> HIDE DEF text
  <2>3. text \in [1..l -> Int]
    BY <1>5, <2>1, <2>2
  <2>4. text \in Seq(Int)
    BY <2>2, <2>3, SeqDef
  <2> QED
    BY <2>2, <2>3, <2>4, LenProperties
<1> HIDE DEF text
<1>7. ASSUME NEW n \in 1..2
      PROVE  text[n] = city[n] \/ (text[n] = 0 /\ city[n] = coLetterO)
  <2>1. code[n] = city[n] /\ n \in 1..(f.body + 3) /\ ~(n > 2)
    BY <1>1 DEF Says
  <2> QED
    BY <1>3, <2>1
<1>8. ASSUME NEW n \in 1..(f.body + 1)
      PROVE  \/ text[n + 2] = tail[n]
             \/ text[n + 2] \in DOMAIN f.aliases /\ f.aliases[text[n + 2]] = tail[n]
  <2>1. code[n + 2] = tail[n] /\ n + 2 \in 1..(f.body + 3) /\ n + 2 > 2
    BY <1>1 DEF Says
  <2>2. text[n + 2] = LookAlike(tail[n], f)
    BY <1>3, <2>1
  <2> QED
    BY <1>2, <2>2
<1> QED
  BY <1>6, <1>7, <1>8 DEF Tells, text

LEMMA CodesDo ==
  ASSUME NEW city, NEW body, NEW f, CO!Generated(city, body, f)
  PROVE  CO!SpellingsAgree(city, body, f)
<1> DEFINE code == CO!Code(city, body, f)
           tail == Ending(city, body, f)
           parsed == [problem |-> "none", city |-> city, canonical |-> code, format |-> f]
<1>1. IsCode(city, tail, f) /\ code = city \o tail /\ CO!CheckIsValid(city, tail, f)
  BY MadeIs
<1>2. Tells(code, city, tail, f) /\ Says(code, city, tail, f)
  BY <1>1, CodeTells
<1>3. parsed = Parsed(city, tail, f) /\ f \in coFormats
  BY <1>1 DEF Parsed, IsCode
<1>4. code \in Seq(Int) /\ Len(code) = f.body + 3
  BY <1>2 DEF Tells
<1>5. CO!SpellingsAgree(city, body, f) =
        \A spelling \in {code, Misread(code, f)} \cup {CO!Printed(code, f, dash) : dash \in coSeparators} :
          /\ CO!Parse(spelling) = parsed
          /\ CO!Parse(<<coScheme, 1, coSlash, 2, coSlash>> \o spelling) = parsed
          /\ CO!Parse(<<coScheme, 1, coSlash, 2, coHash>> \o spelling) = parsed
  BY DEF CO!SpellingsAgree, Misread, LookAlike
<1> HIDE DEF code, tail, parsed
<1>6. Unmarked(code) /\ CO!Normalized(code) = code /\ \A n \in 1..Len(code) : code[n] \notin coSeparators
  BY <1>1, <1>2, PlainIs
<1>7. ASSUME NEW s \in {code, Misread(code, f)} \cup {CO!Printed(code, f, dash) : dash \in coSeparators}
      PROVE  Unmarked(s) /\ Tells(CO!Normalized(s), city, tail, f)
  <2>1. CASE s = code
    BY <1>2, <1>6, <2>1
  <2>2. CASE s = Misread(code, f)
    <3>1. Tells(s, city, tail, f)
      BY <1>1, <1>2, <1>4, <2>2, MisreadTells
    <3> QED
      BY <1>1, <3>1, PlainIs
  <2>3. ASSUME NEW dash \in coSeparators, s = CO!Printed(code, f, dash)
        PROVE  Unmarked(s) /\ Tells(CO!Normalized(s), city, tail, f)
    <3>1. Unmarked(CO!Printed(code, f, dash)) /\ CO!Normalized(CO!Printed(code, f, dash)) = code
      BY <1>3, <1>4, <1>6, PrintedIs
    <3> QED
      BY <1>2, <2>3, <3>1
  <2> QED
    BY <2>1, <2>2, <2>3
<1>8. ASSUME NEW s, Unmarked(s), Tells(CO!Normalized(s), city, tail, f)
      PROVE  /\ CO!Parse(s) = parsed
             /\ CO!Parse(<<coScheme, 1, coSlash, 2, coSlash>> \o s) = parsed
             /\ CO!Parse(<<coScheme, 1, coSlash, 2, coHash>> \o s) = parsed
  <2>1. \A raw \in {s, <<coScheme, 1, coSlash, 2, coSlash>> \o s,
                    <<coScheme, 1, coSlash, 2, coHash>> \o s} :
          CO!Parse(raw) = Parsed(city, tail, f)
    BY <1>1, <1>8, Respelled
  <2> QED
    BY <1>3, <2>1
<1> QED
  BY <1>5, <1>7, <1>8

-----------------------------------------------------------------------------
(* All that is asked                                                       *)

\* Every code that generate_code can make, in every format: docs/CODES.md,
\* section 4, says which slips are noticed, and parse_code must accept what
\* format_printed, a scanner or a reader make of it.
THEOREM CodesAreExact ==
  \A city, body, f : CO!Generated(city, body, f) =>
    CO!SlipsAreCaught(city, body, f) /\ CO!SpellingsAgree(city, body, f)
BY SlipsDo, CodesDo

\* Whatever is typed for a phone number: every way to write a number that
\* app/domain/phone.py accepts has one identifier, and Persian digits and what people
\* put between the digits change nothing.
THEOREM NumbersAreOne ==
  \A raw \in Seq(Int) :
    PH!SpellingsAreOne(raw) /\ \A filler \in Int \ PH!Meant : PH!KeyboardsAgree(raw, filler)
BY KeyboardsDo, SpellingsDo

\* Whatever runs are stored: the place that a player is told by his own query
\* is where the board has him (repositories.py: top and rank_of).
THEOREM PlacesAreExact ==
  \A runs, since : BO!AreRuns(runs) => BO!PlacesAgree(runs, since)
BY PlacesDo

\* Whatever a legal document holds, its page says every word of it in order
\* (app/api/legal.py).
THEOREM PagesAreComplete == \A lines \in Seq(LP!Lines) : LP!NothingIsLost(lines)
BY PagesDo

\* Every weighted draw: a ticket more is a value of the seed's hash more, and
\* the winners are as many as asked for or as there are, nobody twice
\* (app/domain/draw.py).
THEOREM DrawsAreFair ==
  \A w, count, values : DR!Drawable(w, count, values) =>
    DR!ChancesAreProportional(w) /\ DR!WinnersAreDistinct(w, count, values)
<1> SUFFICES ASSUME NEW w, NEW count, NEW values, DR!Drawable(w, count, values)
             PROVE  DR!ChancesAreProportional(w) /\ DR!WinnersAreDistinct(w, count, values)
  OBVIOUS
<1>1. w \in Seq(Nat)
  BY DEF DR!Drawable
<1>2. Len(w) \in Nat /\ w \in [1..Len(w) -> Nat]
  BY <1>1, LenProperties
<1>3. DR!ChancesAreProportional(w)
  BY <1>2, ChancesDo
<1> QED
  BY <1>3, WinnersDo

\* Whatever the functions may be asked, for every setting: all of it together.
THEOREM AnswersAreExact == \A q : Askable(q) => Exact(q)
<1> SUFFICES ASSUME NEW q, Askable(q)
             PROVE  Exact(q)
  OBVIOUS
<1>1. ASSUME q.about = "code"
      PROVE  CO!SlipsAreCaught(q.city, q.body, q.format) /\ CO!SpellingsAgree(q.city, q.body, q.format)
  <2>1. CO!Generated(q.city, q.body, q.format)
    BY <1>1 DEF Askable
  <2> QED
    BY <2>1, CodesAreExact
<1>2. ASSUME q.about = "split"
      PROVE  SP!SplitIsFair(q.k, q.weights)
  <2>1. q.k \in Nat /\ q.weights \in [SP!Flavors -> Int] /\ SP!ValidWeights(q.weights)
    BY <1>2 DEF Askable
  <2> QED
    BY <2>1, SplitsAreFair
<1>3. ASSUME q.about = "draw"
      PROVE  /\ DR!ChancesAreProportional(q.weights)
             /\ DR!WinnersAreDistinct(q.weights, q.count, q.values)
  <2>1. DR!Drawable(q.weights, q.count, q.values)
    BY <1>3 DEF Askable
  <2> QED
    BY <2>1, DrawsAreFair
<1>4. ASSUME q.about = "board"
      PROVE  BO!PlacesAgree(q.runs, q.since)
  <2>1. BO!AreRuns(q.runs)
    BY <1>4 DEF Askable
  <2> QED
    BY <2>1, PlacesAreExact
<1>5. ASSUME q.about = "page"
      PROVE  LP!NothingIsLost(q.lines)
  <2>1. q.lines \in Seq(LP!Lines)
    BY <1>5 DEF Askable
  <2> QED
    BY <2>1, PagesAreComplete
<1>6. /\ q.about = "request" => q.r \in RP!CodeRequests
      /\ q.about = "redeem" => q.r \in RP!Scans
      /\ q.about = "finish" => q.r \in RP!FinishQuestions
      /\ q.about = "team" => q.r \in RP!TeamChoices
      /\ q.about = "claim" => q.r \in RP!Claims
  BY DEF Askable
<1>7. ASSUME q.about = "phone"
      PROVE  PH!SpellingsAreOne(q.raw) /\ PH!KeyboardsAgree(q.raw, q.filler)
  <2>1. q.raw \in Seq(Int) /\ q.filler \in Int \ PH!Meant
    BY <1>7 DEF Askable
  <2> QED
    BY <2>1, NumbersAreOne
<1>8. SE!CookiesAreKept(q.s) /\ SE!ProductionIsStrict(q.s) /\ SE!TestNumbersAreAskedFor(q.s)
  BY SettingsAreSafe
<1>9. ASSUME q.about = "server"
       PROVE  SC!VerdictIsSound(q.s, q.cut) /\ SC!HealthyPasses(q.s, q.cut)
  <2>1. q.cut \in 0..Len(SC!Sections)
    BY <1>9 DEF Askable
  <2> QED
    BY <2>1, VerdictsAreSound
<1>10. /\ q.about = "request" => RP!AccountsLookAlike(q.r) /\ RP!WaitingForACodeHelps(q.r)
       /\ q.about = "redeem" => RP!CodesLookAlike(q.r) /\ RP!WaitingToRedeemHelps(q.r)
       /\ q.about = "finish" => RP!RunsLookAlike(q.r)
       /\ q.about = "team" => RP!TeamPageAgrees(q.r)
       /\ q.about = "claim" => RP!ListAgrees(q.r)
  BY <1>6, RefusalsAgree
<1> QED
  BY <1>1, <1>2, <1>3, <1>4, <1>5, <1>7, <1>8, <1>9, <1>10 DEF Exact
=============================================================================
