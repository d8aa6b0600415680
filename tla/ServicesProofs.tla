--------------------------- MODULE ServicesProofs ---------------------------
(***************************************************************************)
(* Theorems about the services that keep no codes of their own, for any    *)
(* number of processes, requests and commands at once, every setting and   *)
(* every length of the clock: the middleware, the operators' scripts, the  *)
(* media, what may boot, the leaderboards, the list of users, accounts,    *)
(* the smoke script; and about their composition with PrintRuns and with   *)
(* the pure functions.                                                     *)
(*                                                                         *)
(* Each section takes one component from Services: its steps are steps of  *)
(* the component's own specification (the lemma named after it), its       *)
(* inductive invariant follows, and what Services states of it from that.  *)
(***************************************************************************)
EXTENDS SequencesExt, PrintRunsProofs, FunctionsProofs

LEMMA OneCardinality ==
  \A T : W!Cardinality(T) = Cardinality(T)
  BY DEF W!Cardinality, Cardinality

-----------------------------------------------------------------------------
(* The middleware                                                          *)

LEMMA MiddlewareRuns == Spec => W!Spec
<1>1. Init => W!Init
  BY DEF Init
<1>2. [Next]_vars => [W!Next]_(W!vars)
  BY DEF Next, Ask, components, vars, W!vars, miVars
<1> QED
  BY <1>1, <1>2, PTL DEF Spec, W!Spec

LEMMA LimiterNumbers ==
  miLimit \in Nat \ {0} /\ miWindow \in Nat \ {0} /\ miMaxMoment \in Nat
  BY ServicesAssumption DEF W!MiddlewareAssumption

\* What one client's entry in the limiter is: the youngest of the moments at
\* which it passed, with nothing left out that is still in the window.
Aligned(kept, past) ==
  /\ \A m, n \in DOMAIN past : m < n => past[m] <= past[n]
  /\ Len(kept) <= Len(past)
  /\ \A n \in 1..Len(kept) : kept[n] = past[Len(past) - Len(kept) + n]

Remembered(kept, past, moment) ==
  /\ kept \in Seq(0..moment) /\ past \in Seq(0..moment)
  /\ Aligned(kept, past)
  /\ \A n \in 1..(Len(past) - Len(kept)) : moment - past[n] >= miWindow

Spans(past) ==
  \A n \in DOMAIN past :
    LET near == {m \in DOMAIN past : past[m] >= past[n] /\ past[m] - past[n] < miWindow}
    IN IsFiniteSet(near) /\ Cardinality(near) <= miLimit

LimiterInv ==
  /\ miNow \in 0..miMaxMoment
  /\ DOMAIN miTimes = Actors /\ DOMAIN miPassed = Actors
  /\ \A c \in Actors : /\ Remembered(miTimes[c], miPassed[c], miNow)
                       /\ Len(miTimes[c]) <= miLimit
                       /\ Spans(miPassed[c])

\* What is dropped from the left has left the window, what is kept has not.
LEMMA DroppedFromTheLeft ==
  ASSUME NEW c \in Actors, miTimes[c] \in Seq(0..miNow), miNow \in Nat
  PROVE  /\ W!Gone(c) \in 0..Len(miTimes[c])
         /\ \A m \in 1..W!Gone(c) : miNow - miTimes[c][m] >= miWindow
         /\ W!Gone(c) < Len(miTimes[c]) => miNow - miTimes[c][W!Gone(c) + 1] < miWindow
<1> DEFINE Outside == {n \in 0..Len(miTimes[c]) : \A m \in 1..n : miNow - miTimes[c][m] >= miWindow}
<1>1. Outside \subseteq 0..Len(miTimes[c]) /\ 0 \in Outside /\ Len(miTimes[c]) \in Nat
  OBVIOUS
<1>2. PICK top \in Outside : \A n \in Outside : n <= top
  <2> HIDE DEF Outside
  <2> QED
    BY <1>1, GreatestNatural
<1>3. W!Gone(c) \in Outside /\ \A n \in Outside : W!Gone(c) >= n
  BY <1>2 DEF W!Gone, W!Max
<1>4. ASSUME W!Gone(c) < Len(miTimes[c]), miNow - miTimes[c][W!Gone(c) + 1] >= miWindow
      PROVE  FALSE
  <2>1. W!Gone(c) + 1 \in Outside
    BY <1>3, <1>4
  <2>2. W!Gone(c) \in Int
    BY <1>1, <1>3
  <2> HIDE DEF Outside
  <2> QED
    BY <1>3, <2>1, <2>2
<1>5. ASSUME W!Gone(c) < Len(miTimes[c])
      PROVE  miNow - miTimes[c][W!Gone(c) + 1] < miWindow
  <2>1. PICK x : x = miTimes[c][W!Gone(c) + 1]
    OBVIOUS
  <2>2. W!Gone(c) + 1 \in 1..Len(miTimes[c])
    BY <1>1, <1>3, <1>5
  <2>3. x \in Int /\ miNow \in Int /\ miWindow \in Int
    BY <2>1, <2>2, LimiterNumbers
  <2>4. ~(miNow - x >= miWindow)
    BY <1>4, <1>5, <2>1
  <2> QED
    BY <2>1, <2>3, <2>4
<1>6. W!Gone(c) \in 0..Len(miTimes[c]) /\ \A m \in 1..W!Gone(c) : miNow - miTimes[c][m] >= miWindow
  BY <1>3
<1> QED
  BY <1>5, <1>6

LEMMA KeptIsRemembered ==
  ASSUME NEW c \in Actors, miNow \in Nat, Remembered(miTimes[c], miPassed[c], miNow)
  PROVE  /\ Remembered(W!Kept(c), miPassed[c], miNow)
         /\ Len(W!Kept(c)) <= Len(miTimes[c])
         /\ \A n \in 1..Len(W!Kept(c)) : miNow - W!Kept(c)[n] < miWindow
<1> DEFINE kept == miTimes[c]
           past == miPassed[c]
           gone == W!Gone(c)
<1>1. /\ kept \in Seq(0..miNow) /\ past \in Seq(0..miNow)
      /\ \A m, n \in DOMAIN past : m < n => past[m] <= past[n]
      /\ Len(kept) <= Len(past)
      /\ \A n \in 1..Len(kept) : kept[n] = past[Len(past) - Len(kept) + n]
      /\ \A n \in 1..(Len(past) - Len(kept)) : miNow - past[n] >= miWindow
  BY DEF Remembered, Aligned
<1>2. /\ gone \in 0..Len(kept)
      /\ \A m \in 1..gone : miNow - kept[m] >= miWindow
      /\ gone < Len(kept) => miNow - kept[gone + 1] < miWindow
  BY <1>1, DroppedFromTheLeft
<1>3. PICK now : now = W!Kept(c)
  OBVIOUS
<1> HIDE DEF kept, past, gone
<1>4. now = SubSeq(kept, gone + 1, Len(kept))
  BY <1>3 DEF W!Kept, kept, gone
<1>5. /\ now \in Seq(0..miNow) /\ Len(now) = Len(kept) - gone
      /\ \A n \in 1..Len(now) : now[n] = kept[gone + n]
      /\ DOMAIN past = 1..Len(past) /\ Len(past) \in Nat /\ Len(kept) \in Nat
  <2>1. /\ Len(past) \in Nat /\ Len(kept) \in Nat /\ DOMAIN past = 1..Len(past)
        /\ gone + 1 \in 1..(Len(kept) + 1) /\ Len(kept) \in gone..Len(kept)
    BY <1>1, <1>2
  <2>2. /\ now \in Seq(0..miNow)
        /\ Len(now) = IF gone + 1 <= Len(kept) THEN Len(kept) - (gone + 1) + 1 ELSE 0
        /\ \A n \in 1..(Len(kept) - (gone + 1) + 1) : now[n] = kept[gone + 1 + n - 1]
    <3>1. \A i \in (gone + 1)..Len(kept) : kept[i] \in 0..miNow
      <4>1. \A i \in (gone + 1)..Len(kept) : i \in 1..Len(kept)
        BY <1>2, <2>1
      <4> QED
        BY <1>1, <4>1
    <3>2. gone + 1 \in Int /\ Len(kept) \in Int
      BY <2>1
    <3> QED
      BY <1>4, <3>1, <3>2, SubSeqProperties
  <2>3. Len(now) = Len(kept) - gone /\ Len(kept) - (gone + 1) + 1 = Len(now)
    BY <1>2, <2>1, <2>2
  <2>4. \A n \in 1..Len(now) : now[n] = kept[gone + n]
    <3> SUFFICES ASSUME NEW n \in 1..Len(now) PROVE now[n] = kept[gone + n]
      OBVIOUS
    <3>1. gone + 1 + n - 1 = gone + n
      BY <1>2, <2>1, <2>3
    <3> QED
      BY <2>2, <3>1
  <2> QED
    BY <2>1, <2>2, <2>3, <2>4
<1>6. /\ gone \in 0..Len(kept) /\ Len(now) = Len(kept) - gone /\ Len(kept) <= Len(past)
       /\ Len(past) \in Nat /\ Len(kept) \in Nat
  BY <1>1, <1>2, <1>5
<1>7. \A n \in 1..Len(now) : now[n] = past[Len(past) - Len(now) + n]
  <2> SUFFICES ASSUME NEW n \in 1..Len(now)
               PROVE  now[n] = past[Len(past) - Len(now) + n]
    OBVIOUS
  <2>1. gone + n \in 1..Len(kept) /\ Len(past) - Len(kept) + (gone + n) = Len(past) - Len(now) + n
    BY <1>1, <1>2, <1>5
  <2> QED
    BY <1>1, <1>5, <2>1
<1>8. \A n \in 1..(Len(past) - Len(now)) : miNow - past[n] >= miWindow
  <2> SUFFICES ASSUME NEW n \in 1..(Len(past) - Len(now)), n > Len(past) - Len(kept)
               PROVE  miNow - past[n] >= miWindow
    BY <1>1
  <2> DEFINE m == n - (Len(past) - Len(kept))
  <2>1. m \in 1..gone /\ m \in 1..Len(kept) /\ Len(past) - Len(kept) + m = n
    BY <1>6
  <2> HIDE DEF m
  <2>2. kept[m] = past[n]
    BY <1>1, <2>1
  <2> QED
    BY <1>2, <2>1, <2>2
<1>9. \A n \in 1..Len(now) : miNow - now[n] < miWindow
  <2> SUFFICES ASSUME NEW n \in 1..Len(now) PROVE miNow - now[n] < miWindow
    OBVIOUS
  <2>1. 1 \in 1..Len(now) /\ gone < Len(kept)
    BY <1>1, <1>2, <1>5, SMTT(30)
  <2>2. miNow - now[1] < miWindow
    BY <1>2, <1>5, <2>1
  <2> DEFINE i == Len(past) - Len(now) + 1
             j == Len(past) - Len(now) + n
  <2>3. i \in DOMAIN past /\ j \in DOMAIN past /\ i <= j
    BY <1>5, <1>6
  <2>4. now[1] = past[i] /\ now[n] = past[j]
    BY <1>7, <2>1
  <2>5. i < j => past[i] <= past[j]
    BY <1>1, <2>3
  <2> HIDE DEF i, j
  <2>6. now[1] <= now[n]
    BY <1>1, <1>5, <2>1, <2>3, <2>4, <2>5
  <2>7. now[1] \in Int /\ now[n] \in Int /\ miNow \in Int /\ miWindow \in Int
    BY <1>5, <2>1, LimiterNumbers
  <2> QED
    BY <2>2, <2>6, <2>7
<1>10. Len(now) <= Len(kept) /\ Len(now) <= Len(past)
  <2>1. Len(kept) <= Len(past) /\ gone >= 0
    BY <1>1, <1>2
  <2> QED
    BY <1>2, <1>5, <2>1
<1>11. Remembered(now, past, miNow)
  BY <1>1, <1>5, <1>7, <1>8, <1>10 DEF Remembered, Aligned
<1> QED
  BY <1>3, <1>9, <1>10, <1>11 DEF kept, past

\* One more moment: it is remembered, and what it shares a window with is
\* what was kept.
LEMMA PassingIsRemembered ==
  ASSUME NEW t \in Nat, NEW kept, NEW past, Remembered(kept, past, t), Spans(past),
         Len(kept) < miLimit
  PROVE  Remembered(Append(kept, t), Append(past, t), t) /\ Spans(Append(past, t))
<1>1. /\ kept \in Seq(0..t) /\ past \in Seq(0..t)
      /\ \A m, n \in DOMAIN past : m < n => past[m] <= past[n]
      /\ Len(kept) <= Len(past)
      /\ \A n \in 1..Len(kept) : kept[n] = past[Len(past) - Len(kept) + n]
      /\ \A n \in 1..(Len(past) - Len(kept)) : t - past[n] >= miWindow
  BY DEF Remembered, Aligned
<1>2. PICK keptNow, pastNow : keptNow = Append(kept, t) /\ pastNow = Append(past, t)
  OBVIOUS
<1>3. /\ keptNow \in Seq(0..t) /\ Len(keptNow) = Len(kept) + 1 /\ keptNow[Len(keptNow)] = t
      /\ \A n \in 1..Len(kept) : keptNow[n] = kept[n]
      /\ pastNow \in Seq(0..t) /\ Len(pastNow) = Len(past) + 1 /\ pastNow[Len(pastNow)] = t
      /\ \A n \in 1..Len(past) : pastNow[n] = past[n] /\ past[n] \in 0..t
      /\ DOMAIN pastNow = 1..Len(pastNow) /\ DOMAIN past = 1..Len(past)
  BY <1>1, <1>2
<1>4. Len(kept) \in Nat /\ Len(past) \in Nat /\ miLimit \in Nat /\ miWindow \in Nat \ {0}
  BY <1>1, LimiterNumbers
<1>5. \A m, n \in DOMAIN pastNow : m < n => pastNow[m] <= pastNow[n]
  <2> SUFFICES ASSUME NEW m \in 1..Len(pastNow), NEW n \in 1..Len(pastNow), m < n PROVE pastNow[m] <= pastNow[n]
    BY <1>3
  <2>1. m \in 1..Len(past) /\ pastNow[m] = past[m] /\ past[m] \in 0..t
    BY <1>3, <1>4, SMTT(30)
  <2>2. CASE n = Len(pastNow)
    BY <1>3, <2>1, <2>2
  <2>3. CASE n # Len(pastNow)
    <3>1. n \in 1..(Len(past) + 1) /\ n # Len(past) + 1
      BY <1>3, <2>3
    <3>2. n \in 1..Len(past)
      BY <1>4, <3>1
    <3> QED
      BY <1>1, <1>3, <2>1, <3>2
  <2> QED
    BY <2>2, <2>3
<1>6. \A n \in 1..Len(keptNow) : keptNow[n] = pastNow[Len(pastNow) - Len(keptNow) + n]
  <2> SUFFICES ASSUME NEW n \in 1..Len(keptNow) PROVE keptNow[n] = pastNow[Len(pastNow) - Len(keptNow) + n]
    OBVIOUS
  <2>1. CASE n = Len(keptNow)
    BY <1>3, <1>4, <2>1
  <2>2. CASE n # Len(keptNow)
    <3>1. n \in 1..Len(kept)
      BY <1>3, <1>4, <2>2
    <3>2. /\ Len(past) - Len(kept) + n \in 1..Len(past)
          /\ Len(pastNow) - Len(keptNow) + n = Len(past) - Len(kept) + n
      BY <1>1, <1>3, <1>4, <3>1
    <3> QED
      BY <1>1, <1>3, <3>1, <3>2
  <2> QED
    BY <2>1, <2>2
<1>7. \A n \in 1..(Len(pastNow) - Len(keptNow)) : t - pastNow[n] >= miWindow
  <2> SUFFICES ASSUME NEW n \in 1..(Len(pastNow) - Len(keptNow)) PROVE t - pastNow[n] >= miWindow
    OBVIOUS
  <2>1. n \in 1..(Len(past) - Len(kept)) /\ n \in 1..Len(past)
    BY <1>1, <1>3, <1>4, SMTT(30)
  <2> QED
    BY <1>1, <1>3, <2>1
<1>8. Remembered(keptNow, pastNow, t)
  BY <1>1, <1>3, <1>4, <1>5, <1>6, <1>7 DEF Remembered, Aligned
<1>9. Spans(pastNow)
  <2> SUFFICES ASSUME NEW n \in DOMAIN pastNow,
                      NEW near, near = {m \in DOMAIN pastNow : pastNow[m] >= pastNow[n] /\ pastNow[m] - pastNow[n] < miWindow}
               PROVE  IsFiniteSet(near) /\ Cardinality(near) <= miLimit
    BY DEF Spans
  <2>1. \A m \in DOMAIN pastNow : pastNow[m] \in 0..t
    BY <1>3, SMTT(30)
  <2>2. CASE t - pastNow[n] < miWindow
    <3>1. near \subseteq (Len(past) - Len(kept) + 1)..Len(pastNow)
      <4> SUFFICES ASSUME NEW m \in near, m <= Len(past) - Len(kept) PROVE FALSE
        BY <1>3, <1>4
      <4>1. m \in 1..(Len(past) - Len(kept)) /\ pastNow[m] = past[m]
        BY <1>1, <1>3, <1>4
      <4>2. t - pastNow[m] >= miWindow
        BY <1>1, <4>1
      <4>3. pastNow[m] >= pastNow[n] /\ m \in DOMAIN pastNow
        OBVIOUS
      <4> QED
        BY <1>4, <2>1, <2>2, <4>2, <4>3
    <3>2. /\ IsFiniteSet((Len(past) - Len(kept) + 1)..Len(pastNow))
          /\ Cardinality((Len(past) - Len(kept) + 1)..Len(pastNow)) <= miLimit
      <4>1. /\ Len(past) - Len(kept) + 1 \in Int /\ Len(pastNow) \in Int
            /\ ~(Len(past) - Len(kept) + 1 > Len(pastNow))
            /\ Len(pastNow) - (Len(past) - Len(kept) + 1) + 1 = Len(kept) + 1
        BY <1>1, <1>3, <1>4
      <4>2. Cardinality((Len(past) - Len(kept) + 1)..Len(pastNow)) = Len(kept) + 1
        BY <4>1, FS_Interval
      <4> QED
        BY <1>4, <4>1, <4>2, FS_Interval
    <3>3. /\ IsFiniteSet(near)
          /\ Cardinality(near) <= Cardinality((Len(past) - Len(kept) + 1)..Len(pastNow))
      BY <3>1, <3>2, FS_Subset
    <3> QED
      BY <1>4, <3>2, <3>3, FS_CardinalityType
  <2>3. CASE ~(t - pastNow[n] < miWindow)
    <3>1. n \in DOMAIN past /\ pastNow[n] = past[n]
      BY <1>3, <1>4, <2>3
    <3>2. near = {m \in DOMAIN past : past[m] >= past[n] /\ past[m] - past[n] < miWindow}
      <4>1. \A m \in DOMAIN pastNow : m = Len(pastNow) \/ (m \in DOMAIN past /\ pastNow[m] = past[m])
        BY <1>3, <1>4
      <4>2. Len(pastNow) \notin near
        BY <1>3, <2>3
      <4>3. \A m \in DOMAIN past : m \in DOMAIN pastNow /\ pastNow[m] = past[m]
        BY <1>3, <1>4
      <4> QED
        BY <3>1, <4>1, <4>2, <4>3
    <3> QED
      BY <3>1, <3>2 DEF Spans
  <2> QED
    BY <2>2, <2>3
<1> QED
  BY <1>2, <1>8, <1>9

LEMMA LimiterInit == W!Init => LimiterInv
<1> SUFFICES ASSUME W!Init PROVE LimiterInv
  OBVIOUS
<1>1. \A c \in Actors : miTimes[c] = <<>> /\ miPassed[c] = <<>>
  BY DEF W!Init
<1>2. Remembered(<<>>, <<>>, miNow) /\ Spans(<<>>)
  BY DEF Remembered, Aligned, Spans
<1> QED
  BY <1>1, <1>2, LimiterNumbers DEF W!Init, LimiterInv

LEMMA LimiterNext == LimiterInv /\ [W!Next]_(W!vars) => LimiterInv'
<1> SUFFICES ASSUME LimiterInv, [W!Next]_(W!vars) PROVE LimiterInv'
  OBVIOUS
<1>1. /\ miNow \in Nat /\ miNow <= miMaxMoment
      /\ DOMAIN miTimes = Actors /\ DOMAIN miPassed = Actors
      /\ \A c \in Actors : /\ Remembered(miTimes[c], miPassed[c], miNow)
                           /\ Len(miTimes[c]) <= miLimit
                           /\ Spans(miPassed[c])
  BY LimiterNumbers DEF LimiterInv
<1>2. CASE UNCHANGED W!vars
  BY <1>2 DEF W!vars, LimiterInv
<1>3. CASE W!Tick
  <2>1. miNow' = miNow + 1 /\ miNow' \in 0..miMaxMoment /\ UNCHANGED <<miTimes, miPassed>>
    BY <1>1, <1>3, LimiterNumbers DEF W!Tick
  <2>2. \A kept, past : Remembered(kept, past, miNow) => Remembered(kept, past, miNow + 1)
    <3> SUFFICES ASSUME NEW kept, NEW past, Remembered(kept, past, miNow)
                 PROVE  Remembered(kept, past, miNow + 1)
      OBVIOUS
    <3>1. kept \in Seq(0..(miNow + 1)) /\ past \in Seq(0..(miNow + 1))
      BY <1>1 DEF Remembered, Aligned
    <3>2. \A n \in 1..(Len(past) - Len(kept)) : (miNow + 1) - past[n] >= miWindow
      <4> SUFFICES ASSUME NEW n \in 1..(Len(past) - Len(kept))
                   PROVE  (miNow + 1) - past[n] >= miWindow
        OBVIOUS
      <4>1. Len(past) \in Nat /\ Len(kept) \in Nat /\ Len(kept) <= Len(past)
        BY DEF Remembered, Aligned
      <4>2. n \in 1..Len(past)
        BY <4>1
      <4>3. past[n] \in 0..miNow
        BY <1>1, <4>2 DEF Remembered, Aligned
      <4>4. past[n] \in Int /\ miNow - past[n] >= miWindow
        BY <1>1, <4>3 DEF Remembered, Aligned
      <4> QED
        BY <1>1, <4>4, LimiterNumbers
    <3>3. Aligned(kept, past)
      BY DEF Remembered
    <3> QED
      BY <3>1, <3>2, <3>3 DEF Remembered
  <2> QED
    BY <1>1, <2>1, <2>2 DEF LimiterInv
<1>4. CASE W!Restart
  <2>1. \A c \in Actors : miTimes'[c] = <<>> /\ miPassed'[c] = <<>>
    BY <1>4 DEF W!Restart
  <2>2. Remembered(<<>>, <<>>, miNow') /\ Spans(<<>>)
    BY DEF Remembered, Aligned, Spans
  <2> QED
    BY <1>1, <1>4, <2>1, <2>2, LimiterNumbers DEF W!Restart, LimiterInv
<1>5. ASSUME NEW c \in Actors, NEW r \in miRequests, W!Receive(c, r) PROVE LimiterInv'
  <2>1. PICK kept : kept = W!Kept(c)
    OBVIOUS
  <2>2. Remembered(kept, miPassed[c], miNow) /\ Len(kept) <= Len(miTimes[c])
    BY <1>1, <2>1, KeptIsRemembered
  <2>3. kept \in Seq(0..miNow) /\ miTimes[c] \in Seq(0..miNow)
    BY <1>1, <2>2 DEF Remembered
  <2>4. Len(kept) \in Nat /\ Len(miTimes[c]) \in Nat
    BY <2>3
  <2>5. W!Limited(c) <=> Len(kept) >= miLimit
    BY <2>1 DEF W!Limited
  <2>6. /\ miNow' = miNow
        /\ \/ UNCHANGED <<miTimes, miPassed>>
           \/ /\ W!Limited(c)
              /\ miTimes' = [miTimes EXCEPT ![c] = kept] /\ UNCHANGED miPassed
           \/ /\ ~W!Limited(c)
              /\ miTimes' = [miTimes EXCEPT ![c] = Append(kept, miNow)]
              /\ miPassed' = [miPassed EXCEPT ![c] = Append(@, miNow)]
    BY <1>5, <2>1 DEF W!Receive
  <2>7. CASE UNCHANGED <<miTimes, miPassed>>
    BY <1>1, <2>6, <2>7 DEF LimiterInv
  <2>8. CASE /\ W!Limited(c)
             /\ miTimes' = [miTimes EXCEPT ![c] = kept] /\ UNCHANGED miPassed
    <3>1. Len(kept) <= miLimit
      BY <1>1, <2>2, <2>4, LimiterNumbers
    <3> QED
      BY <1>1, <2>2, <2>6, <2>8, <3>1 DEF LimiterInv
  <2>9. CASE /\ ~W!Limited(c)
             /\ miTimes' = [miTimes EXCEPT ![c] = Append(kept, miNow)]
             /\ miPassed' = [miPassed EXCEPT ![c] = Append(@, miNow)]
    <3>1. Len(kept) < miLimit
      BY <2>4, <2>5, <2>9, LimiterNumbers
    <3>2. /\ Remembered(Append(kept, miNow), Append(miPassed[c], miNow), miNow)
          /\ Spans(Append(miPassed[c], miNow))
      BY <1>1, <2>2, <3>1, PassingIsRemembered
    <3>3. Len(Append(kept, miNow)) <= miLimit
      BY <2>3, <2>4, <3>1, LimiterNumbers
    <3> QED
      BY <1>1, <2>6, <2>9, <3>2, <3>3 DEF LimiterInv
  <2> QED
    BY <2>6, <2>7, <2>8, <2>9
<1> QED
  BY <1>2, <1>3, <1>4, <1>5 DEF W!Next

LEMMA LimiterAlways == Spec => []LimiterInv
  BY MiddlewareRuns, LimiterInit, LimiterNext, PTL DEF W!Spec

\* The limiter's promise (RateLimitMiddleware): within any span shorter than
\* the window no client passes it more often than the limit.
THEOREM WindowIsBound == Spec => []WindowBound
<1>1. LimiterInv => WindowBound
  <2> SUFFICES ASSUME LimiterInv, NEW c \in Actors, NEW n \in DOMAIN miPassed[c]
               PROVE  Cardinality({m \in DOMAIN miPassed[c] :
                                     miPassed[c][m] >= miPassed[c][n]
                                     /\ miPassed[c][m] - miPassed[c][n] < miWindow}) <= miLimit
    BY OneCardinality, Zenon DEF WindowBound, W!WindowBound
  <2>1. Spans(miPassed[c])
    BY DEF LimiterInv
  <2> QED
    BY <2>1, Zenon DEF Spans
<1> QED
  BY <1>1, LimiterAlways, PTL

-----------------------------------------------------------------------------
(* The chain of middleware                                                 *)

\* Only the limiter, the guard and the innermost layer answer by themselves,
\* and logging and CORS are around all three.
LEMMA AnswererIsInside ==
  ASSUME NEW c, NEW r
  PROVE  /\ W!Answerer(c, r) \in 3..5
         /\ \A m \in 1..(W!Answerer(c, r) - 1) : ~W!Stops(W!Chain[m], c, r)
<1> DEFINE First(n) == /\ W!Stops(W!Chain[n], c, r)
                   /\ \A m \in 1..(n - 1) : ~W!Stops(W!Chain[m], c, r)
<1>1. /\ DOMAIN W!Chain = 1..5 /\ W!Chain[1] = "logging" /\ W!Chain[2] = "cors"
      /\ W!Chain[3] = "limit" /\ W!Chain[4] = "csrf" /\ W!Chain[5] = "envelope"
  BY DEF W!Chain
<1>2. ~W!Stops("logging", c, r) /\ ~W!Stops("cors", c, r) /\ W!Stops("envelope", c, r)
  BY DEF W!Stops
<1>3. \A n \in 1..5 : First(n) => n \in 3..5
  BY <1>1, <1>2
<1>4. \E n \in 1..5 : First(n)
  <2>1. CASE W!Stops("limit", c, r)
    <3>1. First(3)
      BY <1>1, <1>2, <2>1
    <3> QED
      BY <3>1
  <2>2. CASE ~W!Stops("limit", c, r) /\ W!Stops("csrf", c, r)
    <3>1. First(4)
      BY <1>1, <1>2, <2>2
    <3> QED
      BY <3>1
  <2>3. CASE ~W!Stops("limit", c, r) /\ ~W!Stops("csrf", c, r)
    <3>1. First(5)
      BY <1>1, <1>2, <2>3
    <3> QED
      BY <3>1
  <2> QED
    BY <2>1, <2>2, <2>3
<1>5. W!Answerer(c, r) = CHOOSE n \in 1..5 : First(n)
  BY <1>1 DEF W!Answerer
<1> HIDE DEF First
<1>6. W!Answerer(c, r) \in 1..5 /\ First(W!Answerer(c, r))
  BY <1>4, <1>5
<1> QED
  BY <1>3, <1>6 DEF First

ChainInv ==
  /\ W!ChainHolds
  /\ miAnswer.status \in {0, 200, 403, 429, 500}

LEMMA ChainInit == W!Init => ChainInv
  BY DEF W!Init, W!NoAnswer, W!Foreign, ChainInv, W!ChainHolds

LEMMA ChainNext == LimiterInv /\ ChainInv /\ [W!Next]_(W!vars) => ChainInv'
<1> SUFFICES ASSUME LimiterInv, ChainInv, [W!Next]_(W!vars) PROVE ChainInv'
  OBVIOUS
<1>1. CASE UNCHANGED W!vars
  BY <1>1 DEF W!vars, ChainInv, W!ChainHolds, W!Foreign, W!Exempt
<1>2. CASE W!Tick
  BY <1>2 DEF W!Tick, ChainInv, W!ChainHolds, W!Foreign, W!Exempt
<1>3. CASE W!Restart
  BY <1>3 DEF W!Restart, W!NoAnswer, W!Foreign, ChainInv, W!ChainHolds
<1>4. ASSUME NEW c \in Actors, NEW r \in miRequests, W!Receive(c, r) PROVE ChainInv'
  <2>1. PICK n \in 3..5 : n = W!Answerer(c, r)
    BY AnswererIsInside
  <2>2. PICK status \in W!Statuses(W!Chain[n]) :
          miAnswer' = [status |-> status, request |-> r, headers |-> W!Headers(n, r)]
    BY <1>4, <2>1 DEF W!Receive
  <2>3. /\ W!Chain[1] = "logging" /\ W!Chain[2] = "cors" /\ W!Chain[3] = "limit"
        /\ W!Chain[4] = "csrf" /\ W!Chain[5] = "envelope"
    BY DEF W!Chain
  <2>4. "x-request-id" \in W!Headers(n, r)
    <3>1. 1 \in {m \in 1..(n - 1) : W!Chain[m] = "logging"}
      BY <2>3
    <3> QED
      BY <3>1 DEF W!Headers
  <2>5. W!Foreign(r) => "access-control" \in W!Headers(n, r)
    <3> SUFFICES ASSUME W!Foreign(r) PROVE "access-control" \in W!Headers(n, r)
      OBVIOUS
    <3>1. 2 \in {m \in 1..(n - 1) : W!Chain[m] = "cors" /\ W!Foreign(r)}
      BY <2>3
    <3> QED
      BY <3>1 DEF W!Headers
  <2>6. status \in {200, 403, 429, 500} /\ (status = 403 => n = 4)
    BY <2>2, <2>3 DEF W!Statuses
  <2>7. status = 403 /\ ~W!Exempt(r) => miPassed'[c] # <<>>
    <3> SUFFICES ASSUME n = 4, ~W!Exempt(r) PROVE miPassed'[c] # <<>>
      BY <2>6
    <3>1. \E m \in 1..n : W!Chain[m] = "limit"
      BY <2>3
    <3>2. ~W!Limited(c)
      <4>1. \A m \in 1..(n - 1) : ~W!Stops(W!Chain[m], c, r)
        BY <2>1, AnswererIsInside
      <4>2. ~W!Stops("limit", c, r)
        BY <2>3, <4>1
      <4> QED
        BY <4>2 DEF W!Stops
    <3>3. miPassed' = [miPassed EXCEPT ![c] = Append(@, miNow)]
      BY <1>4, <2>1, <3>1, <3>2 DEF W!Receive
    <3>4. miPassed'[c] = Append(miPassed[c], miNow) /\ miPassed[c] \in Seq(0..miNow)
      BY <3>3 DEF LimiterInv, Remembered
    <3>5. miNow \in 0..miNow
      BY LimiterNumbers DEF LimiterInv
    <3> QED
      BY <3>4, <3>5
  <2> QED
    BY <2>2, <2>4, <2>5, <2>6, <2>7 DEF ChainInv, W!ChainHolds, W!Foreign, W!Exempt
<1> QED
  BY <1>1, <1>2, <1>3, <1>4 DEF W!Next

LEMMA ChainAlways == Spec => []ChainInv
  BY MiddlewareRuns, LimiterAlways, ChainInit, ChainNext, PTL DEF W!Spec

LEMMA MiddlewareTypes == LimiterInv /\ ChainInv => W!TypeOK
  BY DEF LimiterInv, ChainInv, Remembered, W!TypeOK

-----------------------------------------------------------------------------
(* Backups                                                                 *)

LEMMA BackupsRun == Spec => K!Spec
<1>1. Init => K!Init
  BY DEF Init
<1>2. [Next]_vars => [K!Next]_(K!vars)
  BY DEF Next, Ask, components, vars, K!vars, baVars
<1> QED
  BY <1>1, <1>2, PTL DEF Spec, K!Spec

\* Days, in moments.
AllDays == baKeepDaysAll * baPerDay
EachDay == baKeepDays * baPerDay

LEMMA BackupNumbers ==
  /\ baPerDay \in Nat \ {0} /\ AllDays \in Nat /\ EachDay \in Nat /\ baMaxMoment \in Nat
  /\ baKeepDaysAll + baKeepDays > 0 => baPerDay <= AllDays \/ baPerDay <= EachDay
<1>1. baPerDay \in Nat \ {0} /\ baKeepDaysAll \in Nat /\ baKeepDays \in Nat /\ baMaxMoment \in Nat
  BY ServicesAssumption DEF K!BackupsAssumption
<1>2. \A n \in Nat : n * baPerDay \in Nat /\ (n > 0 => baPerDay <= n * baPerDay)
  BY <1>1, SMT
<1> QED
  BY <1>1, <1>2 DEF AllDays, EachDay

\* A dump that prune may delete has left the days of which every dump is
\* kept, and those of which the newest is, or a newer one was pulled that day.
Expendable(t) ==
  /\ baNow - t > AllDays
  /\ \/ baNow - t > EachDay
     \/ \E d \in baPulled : K!Day(d) = K!Day(t) /\ d > t

BackupsInv ==
  /\ baNow \in 0..baMaxMoment
  /\ baDumps \subseteq baPulled /\ baVerified \subseteq baPulled /\ baPulled \subseteq 0..baNow
  /\ baJob \in [at : {"idle", "pulling", "named", "pruning"}, stamp : Nat, doomed : SUBSET baDumps]
  /\ baJob.at # "idle" => /\ baJob.stamp \in 0..baNow /\ baNow - baJob.stamp <= baPerDay
                          /\ \A d \in baPulled : d <= baJob.stamp
  /\ baJob.at = "named" => baJob.stamp \in baDumps
  /\ baJob.at = "pruning" =>
       /\ baJob.stamp \in baVerified
       /\ baKeepDaysAll + baKeepDays > 0 => baJob.stamp \in baDumps \ baJob.doomed
  /\ baJob.at # "pruning" => baJob.doomed = {}
  /\ \A t \in baJob.doomed : Expendable(t)
  /\ \A t \in baPulled : Expendable(t) \/ t \in baDumps
  /\ baKeepDaysAll + baKeepDays > 0 /\ baVerified # {} => baVerified \cap baDumps # {}

LEMMA BackupsInit == K!Init => BackupsInv
  BY BackupNumbers DEF K!Init, K!Resting, BackupsInv, Expendable

LEMMA BackupsNext == BackupsInv /\ [K!Next]_(K!vars) => BackupsInv'
<1> SUFFICES ASSUME BackupsInv, [K!Next]_(K!vars) PROVE BackupsInv'
  OBVIOUS
<1> USE BackupNumbers DEF BackupsInv
<1>1. CASE UNCHANGED K!vars
  BY <1>1 DEF K!vars, Expendable
<1>2. CASE K!Tick
  <2>1. \A t \in baPulled : Expendable(t) => Expendable(t)'
    BY <1>2 DEF K!Tick, Expendable
  <2> QED
    BY <1>2, <2>1 DEF K!Tick, K!Age
<1>3. CASE K!Begin
  <2>1. /\ baJob' = [at |-> "pulling", stamp |-> baNow, doomed |-> {}]
        /\ UNCHANGED <<baNow, baDumps, baPulled, baVerified>> /\ baJob.at = "idle"
    BY <1>3 DEF K!Begin, K!Resting
  <2>2. \A d \in baPulled : d <= baNow
    OBVIOUS
  <2>3. \A d \in baPulled : Expendable(d)' <=> Expendable(d)
    BY <2>1 DEF Expendable
  <2> QED
    BY <2>1, <2>2, <2>3
<1>4. CASE K!Name
  <2>1. CASE baJob' = K!Resting /\ UNCHANGED <<baNow, baDumps, baPulled, baVerified>>
    BY <2>1 DEF K!Resting, Expendable
  <2>2. CASE /\ baDumps' = baDumps \cup {baJob.stamp} /\ baPulled' = baPulled \cup {baJob.stamp}
             /\ baJob' = [baJob EXCEPT !.at = "named"] /\ UNCHANGED <<baNow, baVerified>>
    <3>1. \A t \in baPulled : Expendable(t) => Expendable(t)'
      BY <2>2 DEF Expendable
    <3> QED
      BY <1>4, <2>2, <3>1 DEF K!Name
  <2> QED
    BY <1>4, <2>1, <2>2 DEF K!Name, K!Go
<1>5. CASE K!Verify
  <2>1. CASE baJob' = K!Resting /\ UNCHANGED <<baNow, baDumps, baPulled, baVerified>>
    BY <2>1 DEF K!Resting, Expendable
  <2>2. CASE /\ baVerified' = baVerified \cup {baJob.stamp}
             /\ baJob' = [baJob EXCEPT !.at = "pruning", !.doomed = {t \in baDumps : ~K!Kept(t)}]
             /\ UNCHANGED <<baNow, baDumps, baPulled>>
    <3>1. \A t \in baPulled : Expendable(t)' <=> Expendable(t)
      BY <2>2 DEF Expendable
    <3>2. \A t \in baDumps : ~K!Kept(t) => Expendable(t)
      BY DEF K!Kept, K!NewestOfDay, K!Age, Expendable, AllDays, EachDay
    <3>3. baKeepDaysAll + baKeepDays > 0 => K!Kept(baJob.stamp)
      BY <1>5 DEF K!Verify, K!Kept, K!NewestOfDay, K!Age, AllDays, EachDay
    <3> QED
      BY <1>5, <2>2, <3>1, <3>2, <3>3 DEF K!Verify
  <2> QED
    BY <1>5, <2>1, <2>2 DEF K!Verify
<1>6. CASE K!Prune
  <2>1. CASE baJob.doomed = {}
    BY <1>6, <2>1 DEF K!Prune, K!Resting, Expendable
  <2>2. CASE baJob.doomed # {}
    <3>1. PICK t : t = K!Max(baJob.doomed)
      OBVIOUS
    <3>2. t \in baJob.doomed
      <4>1. baJob.doomed \subseteq 0..baNow
        OBVIOUS
      <4>2. PICK n \in baJob.doomed : \A m \in baJob.doomed : m <= n
        BY <2>2, <4>1, GreatestNatural
      <4> QED
        BY <3>1, <4>1, <4>2 DEF K!Max
    <3>3. /\ baDumps' = baDumps \ {t} /\ baJob' = [baJob EXCEPT !.doomed = @ \ {t}]
          /\ baJob.at = "pruning" /\ UNCHANGED <<baNow, baPulled, baVerified>>
      BY <1>6, <2>2, <3>1 DEF K!Prune
    <3>4. \A d \in baPulled : Expendable(d)' <=> Expendable(d)
      BY <3>3 DEF Expendable
    <3>5. /\ baJob'.at = "pruning" /\ baJob'.stamp = baJob.stamp
          /\ baJob'.doomed = baJob.doomed \ {t}
      BY <3>3
    <3>6. baJob' \in [at : {"idle", "pulling", "named", "pruning"}, stamp : Nat,
                      doomed : SUBSET baDumps']
      BY <3>3
    <3>7. baKeepDaysAll + baKeepDays > 0 => baJob.stamp \in baVerified \cap (baDumps' \ baJob'.doomed)
      BY <3>2, <3>3, <3>5
    <3> QED
      BY <3>2, <3>3, <3>4, <3>5, <3>6, <3>7
  <2> QED
    BY <2>1, <2>2
<1>7. CASE K!Kill
  BY <1>7 DEF K!Kill, K!Resting, Expendable
<1> QED
  BY <1>1, <1>2, <1>3, <1>4, <1>5, <1>6, <1>7 DEF K!Next

LEMMA BackupsAlways == Spec => []BackupsInv
  BY BackupsRun, BackupsInit, BackupsNext, PTL DEF K!Spec

LEMMA BackupsSound == BackupsInv => K!BackupsAreKept /\ K!TypeOK
<1> SUFFICES ASSUME BackupsInv PROVE K!BackupsAreKept /\ K!TypeOK
  OBVIOUS
<1>1. K!TypeOK
  BY DEF BackupsInv, K!TypeOK
<1>2. K!BackupsAreKept
  BY BackupNumbers DEF BackupsInv, Expendable, AllDays, EachDay, K!BackupsAreKept, K!Age
<1> QED
  BY <1>1, <1>2

-----------------------------------------------------------------------------
(* The reset of test users                                                 *)

LEMMA ResetRuns == Spec => R!Spec
<1>1. Init => R!Init
  BY DEF Init
<1>2. [Next]_vars => [R!Next]_(R!vars)
  BY DEF Next, Ask, components, vars, R!vars, reVars
<1> QED
  BY <1>1, <1>2, PTL DEF Spec, R!Spec

\* Who has a wallet or is about to get one is not among the deleted.
ResetInv ==
  /\ reUsers \subseteq rePlayers /\ reRedeemers \subseteq reWallets
  /\ reWallets \cup reOpen \subseteq reUsers \ reScript.deleted
  /\ reScript \in [at : {"codes", "accounts", "keepers", "delete", "count", "done", "refused"},
                   keepers : SUBSET rePlayers, deleted : SUBSET rePlayers]
  /\ reScript.at # "count" => reScript.deleted = {}

LEMMA ResetInit == R!Init => ResetInv
  BY DEF R!Init, ResetInv

LEMMA ResetNext == ResetInv /\ [R!Next]_(R!vars) => ResetInv'
<1> SUFFICES ASSUME ResetInv, [R!Next]_(R!vars) PROVE ResetInv'
  OBVIOUS
<1> USE DEF ResetInv, R!Deleted
<1>1. CASE UNCHANGED R!vars
  BY <1>1 DEF R!vars
<1>2. ASSUME NEW p \in rePlayers, R!SignUp(p) PROVE ResetInv'
  BY <1>2 DEF R!SignUp
<1>3. ASSUME NEW p \in rePlayers, R!OpenWallet(p) PROVE ResetInv'
  BY <1>3 DEF R!OpenWallet
<1>4. ASSUME NEW p \in rePlayers, R!Redeem(p) PROVE ResetInv'
  BY <1>4 DEF R!Redeem
<1>5. CASE R!CheckCodes
  BY <1>5 DEF R!CheckCodes, R!Go, R!Refuse
<1>6. CASE R!CheckAccounts
  BY <1>6 DEF R!CheckAccounts, R!Go, R!Refuse
<1>7. CASE R!ResolveKeepers
  <2>1. reKeep \in SUBSET rePlayers
    BY ServicesAssumption DEF R!ResetAssumption
  <2>2. \/ reScript' = [at |-> "delete", keepers |-> reKeep, deleted |-> reScript.deleted]
        \/ reScript' = [at |-> "refused", keepers |-> {}, deleted |-> {}]
    BY <1>7 DEF R!ResolveKeepers, R!Refuse
  <2>3. reScript.deleted = {} /\ UNCHANGED <<reUsers, reWallets, reRedeemers, reOpen>>
    BY <1>7 DEF R!ResolveKeepers
  <2> QED
    BY <2>1, <2>2, <2>3
<1>8. CASE R!Delete
  <2>1. \/ reScript' = [at |-> "refused", keepers |-> {}, deleted |-> {}]
        \/ /\ reScript' = [at |-> "count", keepers |-> reScript.keepers,
                            deleted |-> reUsers \ reScript.keepers]
           /\ (reUsers \ reScript.keepers) \cap (reWallets \cup reOpen) = {}
    BY <1>8 DEF R!Delete, R!Refuse, R!Restricted
  <2>2. UNCHANGED <<reUsers, reWallets, reRedeemers, reOpen>>
    BY <1>8 DEF R!Delete
  <2>3. reUsers \ reScript.keepers \in SUBSET rePlayers
    OBVIOUS
  <2>4. reWallets \cup reOpen \subseteq reUsers \ reScript'.deleted
    BY <2>1
  <2>5. /\ reScript' \in [at : {"codes", "accounts", "keepers", "delete", "count", "done", "refused"},
                          keepers : SUBSET rePlayers, deleted : SUBSET rePlayers]
        /\ reScript'.at # "count" => reScript'.deleted = {}
    BY <2>1, <2>3
  <2> QED
    BY <2>2, <2>4, <2>5
<1>9. CASE R!Count
  BY <1>9 DEF R!Count, R!Refuse
<1> QED
  BY <1>1, <1>2, <1>3, <1>4, <1>5, <1>6, <1>7, <1>8, <1>9 DEF R!Next

LEMMA ResetAlways == Spec => []ResetInv
  BY ResetRuns, ResetInit, ResetNext, PTL DEF R!Spec

LEMMA ResetSound == ResetInv => R!RedeemersSurvive /\ R!TypeOK
  BY DEF ResetInv, R!RedeemersSurvive, R!Deleted, R!TypeOK

\* The operators' scripts (backup_pull.py, reset_test_users.py): retention
\* keeps every dump it says, the newest of each day and one that has proved to
\* restore; a reset deletes nobody who has redeemed, has a wallet or is about
\* to get one.
THEOREM OperatorsAreSafe == Spec => []OperatorsLoseNothing
<1>1. BackupsInv /\ ResetInv => OperatorsLoseNothing
  BY BackupsSound, ResetSound DEF OperatorsLoseNothing
<1> QED
  BY <1>1, BackupsAlways, ResetAlways, PTL

-----------------------------------------------------------------------------
(* Media                                                                   *)

LEMMA MediaRuns == Spec => M!Spec
<1>1. Init => M!Init
  BY DEF Init
<1>2. [Next]_vars => [M!Next]_(M!vars)
  BY DEF Next, Ask, components, vars, M!vars, meVars
<1> QED
  BY <1>1, <1>2, PTL DEF Spec, M!Spec

\* An upload that is at "put" has passed the checks; a file's row is the one
\* its magic asks for, so that whoever reads it back finds the same.
MediaInv ==
  /\ meUploads \in [Actors -> [at : {"idle", "put", "get", "EMPTY", "TOO_LARGE", "UNSUPPORTED_TYPE"},
                              file : meFiles \cup {None}]]
  /\ \A u \in Actors : meUploads[u].at \in {"put", "get"} =>
       meUploads[u].file \in meFiles /\ meUploads[u].file.magic \in M!Types
  /\ \A a \in meAssets : a.file \in meFiles /\ a.type \in M!Types
  /\ M!UrlsStand

LEMMA MediaInit == M!Init => MediaInv
  BY DEF M!Init, M!Idle, M!UrlsStand, MediaInv

LEMMA MediaNext == MediaInv /\ [M!Next]_(M!vars) => MediaInv'
<1> SUFFICES ASSUME MediaInv, [M!Next]_(M!vars) PROVE MediaInv'
  OBVIOUS
<1> USE DEF MediaInv, M!UrlsStand, M!Served
<1>1. CASE UNCHANGED M!vars
  BY <1>1 DEF M!vars
<1>2. ASSUME NEW u \in Actors, NEW f \in meFiles, M!Begin(u, f) PROVE MediaInv'
  <2>1. M!Refusal(f) \in {"EMPTY", "TOO_LARGE", "UNSUPPORTED_TYPE"} \/
          (M!Refusal(f) = None /\ f.magic \in M!Types)
    BY DEF M!Refusal
  <2>4. None \notin {"EMPTY", "TOO_LARGE", "UNSUPPORTED_TYPE"}
    BY ServicesAssumption DEF M!MediaAssumption
  <2>2. CASE M!Refusal(f) = None /\ f.magic \in M!Types
    BY <1>2, <2>2 DEF M!Begin
  <2>3. CASE M!Refusal(f) # None
    BY <1>2, <2>1, <2>3 DEF M!Begin, M!Idle
  <2> QED
    BY <2>1, <2>2, <2>3, <2>4
<1>3. ASSUME NEW u \in Actors, M!Put(u) PROVE MediaInv'
  <2>1. PICK f : f = meUploads[u].file
    OBVIOUS
  <2>2. meUploads[u].at = "put" /\ f \in meFiles /\ f.magic \in M!Types
    BY <1>3, <2>1 DEF M!Put
  <2>3. CASE meUploads' = [meUploads EXCEPT ![u].at = "get"] /\ UNCHANGED <<meAssets, meUrls>>
    BY <2>1, <2>2, <2>3
  <2>5. M!Idle = [at |-> "idle", file |-> None]
    BY DEF M!Idle
  <2>4. CASE /\ meAssets' = meAssets \cup {[file |-> f, type |-> f.magic]}
             /\ meUrls' = meUrls \cup {[file |-> f, extension |-> f.magic]}
             /\ meUploads' = [meUploads EXCEPT ![u] = M!Idle]
    <3>1. \A url \in meUrls' : \E a \in meAssets' : a.file = url.file /\ a.type = url.extension
      <4> SUFFICES ASSUME NEW url \in meUrls'
                   PROVE  \E a \in meAssets' : a.file = url.file /\ a.type = url.extension
        OBVIOUS
      <4>1. CASE url \in meUrls
        BY <2>4, <4>1
      <4>2. CASE url = [file |-> f, extension |-> f.magic]
        <5>1. [file |-> f, type |-> f.magic] \in meAssets'
          BY <2>4
        <5>2. url.file = f /\ url.extension = f.magic
          BY <4>2
        <5> QED
          BY <5>1, <5>2
      <4> QED
        BY <2>4, <4>1, <4>2
    <3>2. \A v \in Actors : meUploads'[v] = IF v = u THEN [at |-> "idle", file |-> None] ELSE meUploads[v]
      BY <2>4, <2>5
    <3>3. /\ meUploads' \in [Actors -> [at : {"idle", "put", "get", "EMPTY", "TOO_LARGE",
                                             "UNSUPPORTED_TYPE"}, file : meFiles \cup {None}]]
          /\ \A a \in meAssets' : a.file \in meFiles /\ a.type \in M!Types
      BY <2>2, <2>4, <2>5
    <3> QED
      BY <3>1, <3>2, <3>3
  <2> QED
    BY <1>3, <2>1, <2>3, <2>4 DEF M!Put
<1>4. ASSUME NEW u \in Actors, M!Get(u) PROVE MediaInv'
  BY <1>4 DEF M!Get, M!Idle
<1>5. ASSUME NEW u \in Actors, M!Forget(u) PROVE MediaInv'
  BY <1>5 DEF M!Forget, M!Idle
<1> QED
  BY <1>1, <1>2, <1>3, <1>4, <1>5 DEF M!Next

LEMMA MediaAlways == Spec => []MediaInv
  BY MediaRuns, MediaInit, MediaNext, PTL DEF M!Spec

LEMMA MediaTypes == MediaInv => M!TypeOK
  BY DEF MediaInv, M!TypeOK

-----------------------------------------------------------------------------
(* The guards at boot                                                      *)

LEMMA StartupRuns == Spec => S!Spec
<1>1. Init => S!Init
  BY DEF Init
<1>2. [Next]_vars => [S!Next]_(S!vars)
  BY DEF Next, Ask, components, vars, S!vars, stVars
<1> QED
  BY <1>1, <1>2, PTL DEF Spec, S!Spec

LEMMA NoPepper ==
  None \notin stSpecs \cup stPeppers
  BY ServicesAssumption DEF S!StartupAssumption

Batch ==
  [spec : stSpecs, pepper : stPeppers, stamp : stPeppers \cup {None},
   frozen : stSpecs \cup {None}, status : {"generated", "active", "void"}]
Process ==
  [at : {"off", "formats", "peppers", "up", "unchecked"},
   spec : stSpecs \cup {None}, pepper : stPeppers \cup {None}, formats : SUBSET (stSpecs \cup {None}),
   before : SUBSET Nat, ready : BOOLEAN, polled : SUBSET Nat]

\* What a process knows of the batches stays true of them: a frozen spec, a
\* stamp and a pepper never change.
Informed(q, table) ==
  /\ \A b \in q.before : b \in DOMAIN table /\ table[b].frozen # None
  /\ q.at = "peppers" => \A b \in q.before : table[b].frozen \in q.formats
  /\ q.at = "up" => \A b \in q.before : table[b].frozen = q.spec
  /\ q.at # "off" => q.pepper # None \/ stEnvironment = "development"
  /\ \A b \in q.polled : b \in DOMAIN table
  /\ q.ready /\ q.pepper # None => \A b \in q.polled : table[b].stamp \in {None, q.pepper}

StartupInv ==
  /\ stEnv \in [spec : stSpecs, pepper : stPeppers \cup {None}]
  /\ stBatches \in Seq(Batch)
  /\ \A b \in DOMAIN stBatches : stBatches[b].stamp \in {None, stBatches[b].pepper}
  /\ stProc \in [stProcesses -> Process]
  /\ \A p \in stProcesses : Informed(stProc[p], stBatches)

LEMMA OffIsInformed == S!Off \in Process /\ \A table : Informed(S!Off, table)
  BY DEF S!Off, Process, Informed

LEMMA StartupInit == S!Init => StartupInv
<1> SUFFICES ASSUME NEW s \in stSpecs, NEW k \in stPeppers,
                    stEnv = [spec |-> s, pepper |-> k],
                    stBatches = <<[spec |-> s, pepper |-> k, stamp |-> None, frozen |-> None,
                                   status |-> "active"]>>,
                    stProc = [p \in stProcesses |-> S!Off]
             PROVE  StartupInv
  BY DEF S!Init
<1>1. stBatches \in Seq(Batch) /\ \A b \in DOMAIN stBatches : stBatches[b].stamp = None
  BY DEF Batch
<1> QED
  BY <1>1, OffIsInformed DEF StartupInv

\* Batches that only gain what they lacked leave every process informed.
LEMMA InformedStays ==
  ASSUME NEW old, NEW new, NEW q, Informed(q, old), DOMAIN old \subseteq DOMAIN new,
         \A b \in DOMAIN old : /\ new[b].stamp = old[b].stamp
                               /\ old[b].frozen # None => new[b].frozen = old[b].frozen
  PROVE  Informed(q, new)
  BY DEF Informed

LEMMA StartupNext == StartupInv /\ [S!Next]_(S!vars) => StartupInv'
<1> SUFFICES ASSUME StartupInv, [S!Next]_(S!vars) PROVE StartupInv'
  OBVIOUS
<1>1. /\ stEnv \in [spec : stSpecs, pepper : stPeppers \cup {None}]
      /\ stBatches \in Seq(Batch) /\ DOMAIN stBatches = 1..Len(stBatches) /\ Len(stBatches) \in Nat
      /\ \A b \in DOMAIN stBatches : /\ stBatches[b] \in Batch
                                     /\ stBatches[b].stamp \in {None, stBatches[b].pepper}
      /\ stProc \in [stProcesses -> Process]
      /\ \A p \in stProcesses : Informed(stProc[p], stBatches)
  BY DEF StartupInv
<1>2. CASE UNCHANGED S!vars
  BY <1>2 DEF S!vars, StartupInv
<1>3. ASSUME NEW p \in stProcesses, NEW q \in Process, Informed(q, stBatches),
             stProc' = [stProc EXCEPT ![p] = q], UNCHANGED <<stEnv, stBatches>>
      PROVE  StartupInv'
  BY <1>1, <1>3 DEF StartupInv
<1>4. ASSUME NEW table, table = stBatches', table \in Seq(Batch), DOMAIN stBatches \subseteq DOMAIN table,
             \A b \in DOMAIN stBatches :
               /\ table[b].stamp = stBatches[b].stamp
               /\ stBatches[b].frozen # None => table[b].frozen = stBatches[b].frozen,
             \A b \in DOMAIN table : table[b].stamp \in {None, table[b].pepper},
             UNCHANGED <<stEnv, stProc>>
      PROVE  StartupInv'
  BY <1>1, <1>4, InformedStays DEF StartupInv
<1>5. ASSUME NEW p \in stProcesses, S!Start(p) PROVE StartupInv'
  <2> DEFINE q == [S!Off EXCEPT !.at = "formats", !.spec = stEnv.spec, !.pepper = stEnv.pepper,
                                !.before = S!Frozen]
  <2>1. stProc' = [stProc EXCEPT ![p] = q] /\ UNCHANGED <<stEnv, stBatches>> /\ S!ValidSettings(stEnv)
    BY <1>5 DEF S!Start
  <2>2. S!Frozen \in SUBSET Nat /\ \A b \in S!Frozen : b \in DOMAIN stBatches /\ stBatches[b].frozen # None
    BY <1>1 DEF S!Frozen
  <2>3. q \in Process
    BY <1>1, <2>2, OffIsInformed DEF Process
  <2>5. q.at = "formats" /\ q.pepper = stEnv.pepper /\ q.before = S!Frozen /\ q.polled = {}
    BY DEF S!Off
  <2> HIDE DEF q
  <2>4. Informed(q, stBatches)
    BY <2>1, <2>2, <2>5 DEF Informed, S!ValidSettings
  <2> QED
    BY <1>3, <2>1, <2>3, <2>4
<1>6. ASSUME NEW p \in stProcesses, S!ReadFormats(p) PROVE StartupInv'
  <2>1. PICK q : q = stProc[p]
    OBVIOUS
  <2>2. q \in Process /\ Informed(q, stBatches) /\ q.at = "formats"
    BY <1>1, <1>6, <2>1 DEF S!ReadFormats
  <2>3. CASE stProc' = [stProc EXCEPT ![p] = [q EXCEPT !.at = "unchecked"]]
    <3>1. [q EXCEPT !.at = "unchecked"] \in Process
          /\ Informed([q EXCEPT !.at = "unchecked"], stBatches)
      BY <2>2 DEF Process, Informed
    <3> QED
      BY <1>3, <1>6, <2>3, <3>1 DEF S!ReadFormats
  <2>4. CASE stProc' = [stProc EXCEPT ![p] =
               [q EXCEPT !.at = "peppers", !.formats = {stBatches[b].frozen : b \in S!Frozen}]]
    <3>1. PICK formats : formats = {stBatches[b].frozen : b \in S!Frozen}
      OBVIOUS
    <3>2. formats \in SUBSET (stSpecs \cup {None})
      BY <1>1, <3>1 DEF S!Frozen, Batch
    <3>3. \A b \in q.before : stBatches[b].frozen \in formats
      BY <2>2, <3>1 DEF Informed, S!Frozen
    <3>4. [q EXCEPT !.at = "peppers", !.formats = formats] \in Process
      BY <2>2, <3>2 DEF Process
    <3>5. Informed([q EXCEPT !.at = "peppers", !.formats = formats], stBatches)
      BY <2>2, <3>3 DEF Process, Informed
    <3> QED
      BY <1>3, <1>6, <2>4, <3>1, <3>4, <3>5 DEF S!ReadFormats
  <2> QED
    BY <1>6, <2>1, <2>3, <2>4 DEF S!ReadFormats, S!Go
<1>7. ASSUME NEW p \in stProcesses, S!ReadPeppers(p) PROVE StartupInv'
  <2>1. PICK q : q = stProc[p]
    OBVIOUS
  <2>2. q \in Process /\ Informed(q, stBatches) /\ q.at = "peppers"
    BY <1>1, <1>7, <2>1 DEF S!ReadPeppers
  <2>3. CASE stProc' = [stProc EXCEPT ![p] = [q EXCEPT !.at = "unchecked"]]
    <3>1. [q EXCEPT !.at = "unchecked"] \in Process
          /\ Informed([q EXCEPT !.at = "unchecked"], stBatches)
      BY <2>2 DEF Process, Informed
    <3> QED
      BY <1>3, <1>7, <2>3, <3>1 DEF S!ReadPeppers
  <2>4. CASE /\ q.formats \subseteq {q.spec}
             /\ stProc' = [stProc EXCEPT ![p] = [q EXCEPT !.at = "up", !.formats = {}]]
    <3>1. [q EXCEPT !.at = "up", !.formats = {}] \in Process
      BY <2>2 DEF Process
    <3>2. Informed([q EXCEPT !.at = "up", !.formats = {}], stBatches)
      BY <2>2, <2>4 DEF Process, Informed
    <3> QED
      BY <1>3, <1>7, <2>4, <3>1, <3>2 DEF S!ReadPeppers
  <2>5. CASE stProc' = [stProc EXCEPT ![p] = S!Off]
    BY <1>3, <1>7, <2>5, OffIsInformed DEF S!ReadPeppers
  <2> QED
    BY <1>7, <2>1, <2>3, <2>4, <2>5 DEF S!ReadPeppers, S!Go
<1>8. ASSUME NEW p \in stProcesses, S!Stop(p) PROVE StartupInv'
  BY <1>3, <1>8, OffIsInformed DEF S!Stop
<1>9. ASSUME NEW p \in stProcesses, S!Poll(p) PROVE StartupInv'
  <2>1. PICK q : q = stProc[p]
    OBVIOUS
  <2>2. q \in Process /\ Informed(q, stBatches)
    BY <1>1, <2>1
  <2>3. CASE stProc' = [stProc EXCEPT ![p] = [q EXCEPT !.ready = FALSE, !.polled = {}]]
    <3>1. [q EXCEPT !.ready = FALSE, !.polled = {}] \in Process
          /\ Informed([q EXCEPT !.ready = FALSE, !.polled = {}], stBatches)
      BY <2>2 DEF Process, Informed
    <3> QED
      BY <1>3, <1>9, <2>3, <3>1 DEF S!Poll
  <2>4. CASE stProc' = [stProc EXCEPT ![p] =
               [q EXCEPT !.ready = S!PeppersMatch(q.pepper), !.polled = S!Active]]
    <3>1. PICK ready \in BOOLEAN : ready = S!PeppersMatch(q.pepper)
      BY DEF S!PeppersMatch
    <3>2. S!Active \in SUBSET Nat /\ S!Active \subseteq DOMAIN stBatches
      BY <1>1 DEF S!Active
    <3>3. ready /\ q.pepper # None => \A b \in S!Active : stBatches[b].stamp \in {None, q.pepper}
      BY <3>1 DEF S!PeppersMatch, S!Mismatched
    <3>4. [q EXCEPT !.ready = ready, !.polled = S!Active] \in Process
      BY <2>2, <3>2 DEF Process
    <3>5. Informed([q EXCEPT !.ready = ready, !.polled = S!Active], stBatches)
      BY <2>2, <3>2, <3>3 DEF Process, Informed
    <3> QED
      BY <1>3, <1>9, <2>4, <3>1, <3>4, <3>5 DEF S!Poll
  <2> QED
    BY <1>9, <2>1, <2>3, <2>4 DEF S!Poll
<1>10. CASE S!Configure
  BY <1>1, <1>10 DEF S!Configure, StartupInv
<1>11. CASE S!Generate
  <2> DEFINE b == [spec |-> stEnv.spec, pepper |-> stEnv.pepper, stamp |-> stEnv.pepper,
                   frozen |-> None, status |-> "generated"]
  <2>1. stBatches' = Append(stBatches, b) /\ stEnv.pepper # None /\ UNCHANGED <<stEnv, stProc>>
    BY <1>11 DEF S!Generate
  <2>2. b \in Batch /\ b.stamp = b.pepper
    BY <1>1, <2>1 DEF Batch
  <2> HIDE DEF b
  <2>3. /\ stBatches' \in Seq(Batch) /\ DOMAIN stBatches \subseteq DOMAIN stBatches'
        /\ \A n \in DOMAIN stBatches : stBatches'[n] = stBatches[n]
        /\ \A n \in DOMAIN stBatches' : n \in DOMAIN stBatches \/ stBatches'[n] = b
    BY <1>1, <2>1, <2>2
  <2> QED
    BY <1>1, <1>4, <2>1, <2>2, <2>3
<1>12. ASSUME NEW b \in DOMAIN stBatches, S!Freeze(b) PROVE StartupInv'
  <2>1. /\ stBatches' = [stBatches EXCEPT ![b] = [@ EXCEPT !.frozen = stEnv.spec]]
        /\ stBatches[b].frozen = None /\ UNCHANGED <<stEnv, stProc>>
    BY <1>12 DEF S!Freeze
  <2>2. [stBatches[b] EXCEPT !.frozen = stEnv.spec] \in Batch
    BY <1>1 DEF Batch
  <2>3. stBatches' \in Seq(Batch) /\ DOMAIN stBatches' = DOMAIN stBatches
    BY <1>1, <2>1, <2>2
  <2>4. \A n \in DOMAIN stBatches :
          /\ stBatches'[n].stamp = stBatches[n].stamp /\ stBatches'[n].pepper = stBatches[n].pepper
          /\ n # b => stBatches'[n] = stBatches[n]
    BY <1>1, <2>1 DEF Batch
  <2> QED
    BY <1>1, <1>4, <2>1, <2>3, <2>4
<1>13. ASSUME NEW b \in DOMAIN stBatches, S!SetStatus(b) PROVE StartupInv'
  <2>1. PICK status \in {"active", "void"} :
          stBatches' = [stBatches EXCEPT ![b] = [@ EXCEPT !.status = status]]
    BY <1>13 DEF S!SetStatus
  <2>2. [stBatches[b] EXCEPT !.status = status] \in Batch
    BY <1>1 DEF Batch
  <2>3. stBatches' \in Seq(Batch) /\ DOMAIN stBatches' = DOMAIN stBatches
    BY <1>1, <2>1, <2>2
  <2>4. \A n \in DOMAIN stBatches :
          /\ stBatches'[n].stamp = stBatches[n].stamp /\ stBatches'[n].pepper = stBatches[n].pepper
          /\ stBatches'[n].frozen = stBatches[n].frozen
    BY <1>1, <2>1 DEF Batch
  <2> QED
    BY <1>1, <1>4, <1>13, <2>3, <2>4 DEF S!SetStatus
<1> QED
  BY <1>2, <1>5, <1>6, <1>7, <1>8, <1>9, <1>10, <1>11, <1>12, <1>13 DEF S!Next

LEMMA StartupAlways == Spec => []StartupInv
  BY StartupRuns, StartupInit, StartupNext, PTL DEF S!Spec

LEMMA StartupSound ==
  StartupInv => S!BootIsGuarded /\ S!ReadyIsTrue /\ S!StampsAgree /\ S!TypeOK
<1> SUFFICES ASSUME StartupInv
             PROVE  S!BootIsGuarded /\ S!ReadyIsTrue /\ S!StampsAgree /\ S!TypeOK
  OBVIOUS
<1>1. S!BootIsGuarded
  BY DEF StartupInv, Informed, S!BootIsGuarded
<1>2. S!ReadyIsTrue
  BY NoPepper DEF StartupInv, Informed, Process, S!ReadyIsTrue, S!Serving
<1>3. S!StampsAgree
  BY NoPepper DEF StartupInv, S!StampsAgree, S!CheckCode
<1>5. \A b \in DOMAIN stBatches : stBatches[b] \in Batch
  BY DEF StartupInv
<1>6. \A p \in stProcesses : stProc[p] \in Process
  BY DEF StartupInv
<1>4. S!TypeOK
  BY <1>5, <1>6 DEF StartupInv, Batch, Process, S!TypeOK
<1> QED
  BY <1>1, <1>2, <1>3, <1>4

-----------------------------------------------------------------------------
(* The leaderboard cache                                                   *)

LEMMA BoardsRuns == Spec => B!Spec
<1>1. Init => B!Init
  BY DEF Init
<1>2. [Next]_vars => [B!Next]_(B!vars)
  BY DEF Next, Ask, components, vars, B!vars, boVars
<1> QED
  BY <1>1, <1>2, PTL DEF Spec, B!Spec

LEMMA BoardNumbers == boTTL \in Nat /\ boMaxMoment \in Nat
  BY ServicesAssumption DEF B!LeaderboardsAssumption

\* A board says what was read between the moment it claims and now, of the
\* period that ran at the moment it claims.
Board(top, period, moment) ==
  /\ top.updated \in Nat /\ top.read \in Nat
  /\ top.updated <= top.read /\ top.read <= moment
  /\ top.since = B!WindowStart(period, top.updated)

Kept(top, period, moment) ==
  Board(top, period, moment) /\ top.expires = top.updated + boTTL

Asked(call, moment) ==
  /\ DOMAIN call = {"at", "period", "began", "since", "top"}
  /\ call.at \in {"idle", "read", "store", "me"}
  /\ call.at # "idle" =>
       /\ call.period \in B!Periods /\ call.began \in Nat /\ call.began <= moment
       /\ call.since = B!WindowStart(call.period, call.began)
  /\ call.at = "store" => /\ DOMAIN call.top = {"updated", "expires", "read", "since"}
                          /\ Board(call.top, call.period, moment)
                          /\ call.top.updated = call.began
  /\ call.at = "me" => /\ Board(call.top, call.period, moment)
                       /\ \/ call.top.updated = call.began
                          \/ call.began < call.top.updated + boTTL

BoardInv ==
  /\ boNow \in 0..boMaxMoment
  /\ DOMAIN boCache = B!Periods
  /\ \A period \in B!Periods :
       boCache[period] # None => Kept(boCache[period], period, boNow)
  /\ DOMAIN boCalls = Actors
  /\ \A c \in Actors : Asked(boCalls[c], boNow)

LEMMA BoardInit == B!Init => BoardInv
  BY BoardNumbers DEF B!Init, B!Idle, BoardInv, Asked

\* A call that moves on.
LEMMA BoardMove ==
  ASSUME BoardInv, NEW c \in Actors, NEW x, Asked(x, boNow),
         boCalls' = [boCalls EXCEPT ![c] = x], UNCHANGED <<boNow, boCache>>
  PROVE  BoardInv'
  BY DEF BoardInv

LEMMA BoardNext == BoardInv /\ [B!Next]_(B!vars) => BoardInv'
<1> SUFFICES ASSUME BoardInv, [B!Next]_(B!vars) PROVE BoardInv'
  OBVIOUS
<1>1. CASE UNCHANGED B!vars
  BY <1>1 DEF B!vars, BoardInv
<1>2. ASSUME NEW c \in Actors, NEW period \in B!Periods, B!Get(c, period) PROVE BoardInv'
  <2> DEFINE hit == boCache[period] # None /\ boNow < boCache[period].expires
             x == [at |-> IF hit THEN "me" ELSE "read", period |-> period, began |-> boNow,
                   since |-> B!WindowStart(period, boNow),
                   top |-> IF hit THEN boCache[period] ELSE None]
  <2>1. boCalls' = [boCalls EXCEPT ![c] = x] /\ UNCHANGED <<boNow, boCache>>
    BY <1>2 DEF B!Get
  <2>2. Asked(x, boNow)
    BY BoardNumbers DEF BoardInv, Kept, Asked
  <2> HIDE DEF x
  <2> QED
    BY <2>1, <2>2, BoardMove
<1>3. ASSUME NEW c \in Actors, B!ReadTop(c) PROVE BoardInv'
  <2>1. PICK call : call = boCalls[c]
    OBVIOUS
  <2> DEFINE top == [updated |-> call.began, expires |-> 0, read |-> boNow, since |-> call.since]
             x == [call EXCEPT !.at = "store", !.top = top]
  <2>2. call.at = "read" /\ Asked(call, boNow) /\ boNow \in Nat
    BY <1>3, <2>1, BoardNumbers DEF B!ReadTop, BoardInv
  <2>3. boCalls' = [boCalls EXCEPT ![c] = x] /\ UNCHANGED <<boNow, boCache>>
    BY <1>3, <2>1 DEF B!ReadTop, BoardInv
  <2>4. Asked(x, boNow)
    BY <2>2 DEF Asked, Board
  <2> HIDE DEF x
  <2> QED
    BY <2>3, <2>4, BoardMove
<1>4. ASSUME NEW c \in Actors, B!StoreTop(c) PROVE BoardInv'
  <2>1. PICK call : call = boCalls[c]
    OBVIOUS
  <2> DEFINE fresh == [call.top EXCEPT !.expires = call.began + boTTL]
             x == [call EXCEPT !.at = "me", !.top = fresh]
  <2>2. call.at = "store" /\ Asked(call, boNow) /\ boNow \in Nat
    BY <1>4, <2>1, BoardNumbers DEF B!StoreTop, BoardInv
  <2>3. /\ boCalls' = [boCalls EXCEPT ![c] = x] /\ UNCHANGED boNow
        /\ boCache' = [boCache EXCEPT ![call.period] = fresh]
    BY <1>4, <2>1 DEF B!StoreTop, B!Expiry, BoardInv
  <2>4. /\ fresh.updated = call.began /\ fresh.read = call.top.read
        /\ fresh.since = call.top.since /\ fresh.expires = call.began + boTTL
    BY <2>2 DEF Asked
  <2> HIDE DEF fresh
  <2>5. Kept(fresh, call.period, boNow)
    BY <2>2, <2>4 DEF Asked, Board, Kept
  <2>6. Asked(x, boNow)
    BY <2>2, <2>4, <2>5 DEF Asked, Kept
  <2> HIDE DEF x
  <2> QED
    BY <2>2, <2>3, <2>5, <2>6 DEF BoardInv
<1>5. ASSUME NEW c \in Actors, B!Answer(c) PROVE BoardInv'
  <2>1. Asked(B!Idle, boNow)
    BY DEF Asked, B!Idle
  <2> QED
    BY <1>5, <2>1, BoardMove DEF B!Answer
<1>6. CASE B!Tick
  BY <1>6, BoardNumbers DEF B!Tick, BoardInv, Asked, Kept, Board
<1>7. CASE B!Restart
  BY <1>7 DEF B!Restart, B!Idle, BoardInv, Asked
<1> QED
  BY <1>1, <1>2, <1>3, <1>4, <1>5, <1>6, <1>7 DEF B!Next

LEMMA BoardAlways == Spec => []BoardInv
  BY BoardsRuns, BoardInit, BoardNext, PTL DEF B!Spec

LEMMA BoardTypes == BoardInv => B!TypeOK
  BY DEF BoardInv, Asked, Kept, Board, B!TypeOK

\* A board served from the cache is never older than its TTL and never of a
\* period that ended before, whichever call filled the cache last
\* (application/leaderboards.py).
THEOREM BoardsStayFresh == Spec => []BoardsAreFresh
<1>1. BoardInv => BoardsAreFresh
  <2> SUFFICES ASSUME BoardInv, NEW c \in Actors, NEW call, call = boCalls[c], call.at = "me",
                      NEW top, top = call.top
               PROVE  /\ top.read > call.began - boTTL \/ top.read >= call.began
                      /\ top.read >= top.updated
                      /\ top.since \in {B!WindowStart(call.period, t) :
                                          t \in B!Max({0, call.began - boTTL})..boNow}
    BY DEF BoardsAreFresh, B!BoardsAreFresh
  <2>1. /\ boNow \in Nat /\ call.began \in Nat /\ call.began <= boNow
        /\ Board(top, call.period, boNow)
        /\ top.updated = call.began \/ call.began < top.updated + boTTL
    BY BoardNumbers DEF BoardInv, Asked
  <2>2. B!Max({0, call.began - boTTL}) \in {0, call.began - boTTL}
    <3>1. PICK m \in {0, call.began - boTTL} : \A n \in {0, call.began - boTTL} : m >= n
      BY <2>1, BoardNumbers
    <3> QED
      BY <3>1 DEF B!Max
  <2>3. top.updated \in B!Max({0, call.began - boTTL})..boNow
    BY <2>1, <2>2, BoardNumbers DEF Board
  <2> QED
    BY <2>1, <2>3, BoardNumbers DEF Board
<1> QED
  BY <1>1, BoardAlways, PTL

-----------------------------------------------------------------------------
(* The admin's list of users                                               *)

LEMMA ListsRun == Spec => L!Spec
<1>1. Init => L!Init
  BY DEF Init
<1>2. [Next]_vars => [L!Next]_(L!vars)
  BY DEF Next, Ask, components, vars, L!vars, liVars
<1> QED
  BY <1>1, <1>2, PTL DEF Spec, L!Spec

LEMMA CountOfLists == \A T : L!Cardinality(T) = Cardinality(T)
  BY DEF L!Cardinality, Cardinality

Row == [id : Nat, identifier : liPhones, created : Nat]

LEMMA ListNumbers ==
  liLimit \in Nat \ {0} /\ liMaxMoment \in Nat /\ None \notin Row
  BY ServicesAssumption DEF L!ListsAssumption, Row

Distinct(T) == \A r, s \in T : r.id = s.id => r = s

\* Newest first.
Descending(list) ==
  \A m, n \in DOMAIN list : m < n => L!Older(list[n], list[m])

LEMMA OlderIsAnOrder ==
  ASSUME NEW r \in Row, NEW s \in Row, NEW t \in Row
  PROVE  /\ ~L!Older(r, r)
         /\ L!Older(r, s) /\ L!Older(s, t) => L!Older(r, t)
         /\ r.id # s.id => L!Older(r, s) \/ L!Older(s, r)
  BY DEF Row, L!Older

\* Of some rows one is the oldest.
LEMMA OldestRow ==
  ASSUME NEW T \in SUBSET Row, Distinct(T), T # {}
  PROVE  \E x \in T : \A r \in T \ {x} : L!Older(x, r)
<1>1. PICK moment \in {r.created : r \in T} : \A m \in {r.created : r \in T} : moment <= m
  <2>1. {r.created : r \in T} \subseteq Nat /\ {r.created : r \in T} # {}
    BY DEF Row
  <2> QED
    BY <2>1, LeastNatural
<1> DEFINE Ids == {r.id : r \in {r \in T : r.created = moment}}
<1>2. PICK id \in Ids : \A i \in Ids : id <= i
  <2>1. Ids \subseteq Nat /\ Ids # {}
    BY DEF Row
  <2> HIDE DEF Ids
  <2> QED
    BY <2>1, LeastNatural
<1>3. PICK x \in T : x.created = moment /\ x.id = id
  BY <1>2
<1>4. ASSUME NEW r \in T \ {x} PROVE L!Older(x, r)
  <2>1. x \in Row /\ r \in Row /\ r.id # x.id /\ moment <= r.created
    BY <1>1, <1>3, <1>4 DEF Distinct
  <2>2. r.created = moment => id <= r.id
    BY <1>2
  <2> QED
    BY <1>3, <2>1, <2>2 DEF Row, L!Older
<1> QED
  BY <1>3, <1>4

\* Some rows can be listed newest first: were there a least set that cannot,
\* it would be what can be listed without its oldest row, and that row.
LEMMA ListExists ==
  ASSUME NEW T \in SUBSET Row, Distinct(T), IsFiniteSet(T)
  PROVE  \E list \in [1..Cardinality(T) -> T] : Descending(list)
<1> DEFINE Listed(V) == \E list \in [1..Cardinality(V) -> V] : Descending(list)
           Bad == {V \in SUBSET T : ~Listed(V)}
<1> SUFFICES ASSUME Bad # {} PROVE FALSE
  OBVIOUS
<1>1. PICK V \in Bad : \A U \in SUBSET V : U # V => U \notin Bad
  <2>1. Bad \in SUBSET SUBSET T
    OBVIOUS
  <2> HIDE DEF Bad
  <2> QED
    BY <2>1, LeastSubset
<1>2. IsFiniteSet(V) /\ V \in SUBSET Row /\ Distinct(V)
  BY FS_Subset DEF Distinct
<1>3. V # {}
  <2> SUFFICES ASSUME V = {} PROVE FALSE
    OBVIOUS
  <2> DEFINE list == [n \in 1..0 |-> n]
  <2>1. Cardinality(V) = 0 /\ 1..0 = {}
    BY FS_EmptySet
  <2>2. list \in [1..Cardinality(V) -> V] /\ Descending(list)
    BY <2>1 DEF Descending
  <2> QED
    BY <2>2
<1>4. PICK x \in V : \A r \in V \ {x} : L!Older(x, r)
  BY <1>2, <1>3, OldestRow
<1> DEFINE n == Cardinality(V)
<1>5. /\ n \in Nat \ {0} /\ IsFiniteSet(V \ {x}) /\ Cardinality(V \ {x}) = n - 1
  BY <1>2, <1>3, FS_RemoveElement, FS_CardinalityType, FS_EmptySet
<1>6. PICK list \in [1..(n - 1) -> V \ {x}] : Descending(list)
  <2>1. V \ {x} \notin Bad
    BY <1>1
  <2>2. V \ {x} \in SUBSET T
    OBVIOUS
  <2>3. Listed(V \ {x})
    BY <2>1, <2>2
  <2> QED
    BY <1>5, <2>3
<1> DEFINE longer == [i \in 1..n |-> IF i = n THEN x ELSE list[i]]
<1>7. longer \in [1..n -> V]
  BY <1>5, <1>6
<1>8. ASSUME NEW i \in 1..n, NEW j \in 1..n, i < j PROVE L!Older(longer[j], longer[i])
  <2>1. i \in 1..(n - 1) /\ longer[i] = list[i] /\ list[i] \in V \ {x}
    BY <1>5, <1>6, <1>8
  <2>2. CASE j = n
    BY <1>4, <1>5, <2>1, <2>2
  <2>3. CASE j # n
    <3>1. j \in 1..(n - 1) /\ longer[j] = list[j]
      BY <1>5, <2>3
    <3> QED
      BY <1>6, <1>8, <2>1, <3>1 DEF Descending
  <2> QED
    BY <2>2, <2>3
<1>9. Descending(longer)
  BY <1>7, <1>8 DEF Descending
<1> HIDE DEF longer
<1>10. Listed(V)
  BY <1>7, <1>9
<1> QED
  BY <1>10

\* What list_page orders: every row once.
LEMMA NewestLists ==
  ASSUME NEW T \in SUBSET Row, Distinct(T), IsFiniteSet(T)
  PROVE  /\ L!Newest(T) \in [1..Cardinality(T) -> T]
         /\ Descending(L!Newest(T))
         /\ \A r \in T : \E n \in 1..Cardinality(T) : L!Newest(T)[n] = r
<1> DEFINE list == L!Newest(T)
           size == Cardinality(T)
<1>1. list \in [1..size -> T] /\ Descending(list)
  BY ListExists, CountOfLists DEF L!Newest, Descending
<1> HIDE DEF list
<1>2. size \in Nat
  BY FS_CardinalityType
<1>3. ASSUME NEW i \in 1..size, NEW j \in 1..size, list[i] = list[j] PROVE i = j
  <2>1. list[i] \in Row
    BY <1>1
  <2>2. ~L!Older(list[i], list[i])
    BY <2>1, OlderIsAnOrder
  <2>3. ~(i < j) /\ ~(j < i)
    BY <1>1, <1>3, <2>2 DEF Descending
  <2> QED
    BY <1>2, <2>3
<1>4. list \in Injection(1..size, T)
  BY <1>1, <1>3 DEF Injection, IsInjective
<1>5. IsFiniteSet(1..size) /\ Cardinality(1..size) = size
  BY <1>2, FS_Interval
<1>6. list \in Surjection(1..size, T)
  BY <1>4, <1>5, FS_Injection
<1> QED
  BY <1>1, <1>6 DEF Surjection, list

-----------------------------------------------------------------------------
(* First sign-ins and the walk                                             *)

Signing(s) ==
  /\ s.at \in {"idle", "create"}
  /\ s.at = "create" => /\ s.id \in Nat \ {0} /\ s.identifier \in liPhones
                        /\ s.created \in 0..liNow
                        /\ \A r \in liRows : r.id # s.id
  /\ s.at = "idle" => s.id = 0

\* Where a walk is: what it has to show is behind the cursor, and the cursor
\* is the last user shown.
Walking(w) ==
  /\ w.shown \in Seq(liRows) /\ Descending(w.shown)
  /\ w.at = "idle" => w.cursor = None /\ w.shown = <<>>
  /\ w.at = "walking" => /\ w.cursor # None /\ w.cursor \in liRows
                         /\ Len(w.shown) > 0 /\ w.cursor = w.shown[Len(w.shown)]
                         /\ \A r \in w.before :
                              r \in L!Range(w.shown) \/ (r \in liRows /\ L!Older(r, w.cursor))
  /\ w.at = "done" => w.cursor = None /\ w.before \subseteq L!Range(w.shown)
  /\ w.at \in {"idle", "walking", "done"}

ListInv ==
  /\ liNow \in 0..liMaxMoment
  /\ liRows \in SUBSET Row /\ IsFiniteSet(liRows) /\ Distinct(liRows)
  /\ \A r \in liRows : r.created <= liNow
  /\ L!OneAccountPerNumber
  /\ DOMAIN liSignIns = Actors
  /\ \A s \in Actors : Signing(liSignIns[s])
  /\ \A s, t \in Actors : liSignIns[s].id = liSignIns[t].id /\ liSignIns[s].id # 0 => s = t
  /\ Walking(liWalk)

LEMMA ListInit == L!Init => ListInv
<1> SUFFICES ASSUME L!Init PROVE ListInv
  OBVIOUS
<1>1. /\ liNow = 0 /\ liRows = {} /\ liSignIns = [s \in Actors |-> L!Idle]
      /\ liWalk = [at |-> "idle", cursor |-> None, shown |-> <<>>, before |-> {}]
  BY DEF L!Init, L!Resting
<1>2. Walking(liWalk)
  <2>1. liWalk.shown = <<>> /\ liWalk.at = "idle" /\ liWalk.cursor = None
    BY <1>1
  <2>2. <<>> \in Seq(liRows) /\ DOMAIN <<>> = {}
    OBVIOUS
  <2> QED
    BY <2>1, <2>2 DEF Walking, Descending
<1>3. \A s \in Actors : Signing(liSignIns[s]) /\ liSignIns[s].id = 0
  BY <1>1 DEF Signing, L!Idle
<1> QED
  BY <1>1, <1>2, <1>3, FS_EmptySet, ListNumbers
     DEF ListInv, Distinct, L!OneAccountPerNumber

\* A row more leaves a walk where it was.
LEMMA WalkStays ==
  ASSUME Walking(liWalk), liRows \subseteq liRows', UNCHANGED liWalk
  PROVE  Walking(liWalk)'
<1>1. liWalk.shown \in Seq(liRows')
  BY DEF Walking
<1> QED
  BY <1>1 DEF Walking, Descending

LEMMA TickStep == ListInv /\ L!Tick => ListInv'
<1> SUFFICES ASSUME ListInv, L!Tick PROVE ListInv'
  OBVIOUS
<1>1. liNow' \in 0..liMaxMoment /\ liNow < liNow' /\ liNow \in Nat /\ liNow' \in Nat
      /\ UNCHANGED <<liRows, liSignIns, liWalk>>
  BY ListNumbers DEF L!Tick, ListInv
<1>2. \A s \in Actors : Signing(liSignIns[s])'
  BY <1>1 DEF ListInv, Signing
<1>3. \A r \in liRows' : r.created <= liNow'
  BY <1>1 DEF ListInv, Row
<1>4. Walking(liWalk)'
  BY <1>1, WalkStays DEF ListInv
<1> QED
  BY <1>1, <1>2, <1>3, <1>4 DEF ListInv, Distinct, L!OneAccountPerNumber

LEMMA StampStep ==
  ASSUME ListInv, NEW s \in Actors, NEW phone \in liPhones, L!Stamp(s, phone)
  PROVE  ListInv'
<1>1. PICK id \in 1..Cardinality(Actors) :
        /\ \A r \in liRows : r.id # id
        /\ \A t \in Actors : liSignIns[t].id # id
        /\ liSignIns' = [liSignIns EXCEPT ![s] =
             [at |-> "create", identifier |-> phone, created |-> liNow, id |-> id]]
  BY CountOfLists DEF L!Stamp
<1>2. UNCHANGED <<liNow, liRows, liWalk>> /\ id \in Nat \ {0}
  BY DEF L!Stamp
<1>3. \A t \in Actors : Signing(liSignIns[t])'
  BY <1>1, <1>2, ListNumbers DEF ListInv, Signing
<1>4. \A t, u \in Actors : liSignIns'[t].id = liSignIns'[u].id /\ liSignIns'[t].id # 0 => t = u
  BY <1>1 DEF ListInv
<1> QED
  BY <1>1, <1>2, <1>3, <1>4
     DEF ListInv, Walking, Distinct, Descending, L!OneAccountPerNumber

LEMMA CreateStep ==
  ASSUME ListInv, NEW s \in Actors, L!Create(s)
  PROVE  ListInv'
<1> DEFINE mine == [id |-> liSignIns[s].id, identifier |-> liSignIns[s].identifier,
                    created |-> liSignIns[s].created]
<1>1. /\ liSignIns[s].at = "create" /\ liSignIns' = [liSignIns EXCEPT ![s] = L!Idle]
      /\ UNCHANGED <<liNow, liWalk>>
      /\ liRows' = IF \E r \in liRows : r.identifier = mine.identifier THEN liRows
                   ELSE liRows \cup {mine}
  BY DEF L!Create
<1>2. /\ mine \in Row /\ mine.created <= liNow
      /\ \A r \in liRows : r.id # mine.id
      /\ mine.id = liSignIns[s].id /\ mine.id # 0
  BY <1>1, ListNumbers DEF ListInv, Signing, Row
<1> HIDE DEF mine
<1>3. /\ liRows' \in SUBSET Row /\ IsFiniteSet(liRows') /\ liRows \subseteq liRows'
      /\ \A r \in liRows' : r.created <= liNow
      /\ \A r \in liRows' : r \in liRows \/ r = mine
  BY <1>1, <1>2, FS_AddElement DEF ListInv
<1>4. Distinct(liRows)' /\ L!OneAccountPerNumber'
  BY <1>1, <1>2 DEF ListInv, Distinct, L!OneAccountPerNumber
<1>5. Walking(liWalk)'
  BY <1>1, <1>3, WalkStays DEF ListInv
<1>6. ASSUME NEW t \in Actors PROVE Signing(liSignIns[t])'
  <2>1. CASE t = s
    BY <1>1, <2>1 DEF ListInv, Signing, L!Idle
  <2>2. CASE t # s
    <3>1. liSignIns'[t] = liSignIns[t] /\ Signing(liSignIns[t])
      BY <1>1, <2>2 DEF ListInv
    <3>2. liSignIns[t].at = "create" => liSignIns[t].id # mine.id
      BY <1>2, <2>2 DEF ListInv
    <3> QED
      BY <1>1, <1>3, <3>1, <3>2 DEF Signing
  <2> QED
    BY <2>1, <2>2
<1>7. \A t, u \in Actors : liSignIns'[t].id = liSignIns'[u].id /\ liSignIns'[t].id # 0 => t = u
  BY <1>1 DEF ListInv, L!Idle
<1> QED
  BY <1>1, <1>3, <1>4, <1>5, <1>6, <1>7 DEF ListInv

-----------------------------------------------------------------------------
(* A page                                                                  *)

\* The rows after the cursor, and the first of them.
LEMMA PageShows ==
  ASSUME ListInv, NEW T \in SUBSET liRows
  PROVE  LET after == L!Newest(T)
             count == IF Len(after) < liLimit THEN Len(after) ELSE liLimit
             items == SubSeq(after, 1, count)
         IN /\ items \in Seq(liRows) /\ items \in Seq(T) /\ Descending(items)
            /\ Len(items) = count /\ Len(after) \in Nat
            /\ Len(after) <= liLimit => \A r \in T : r \in L!Range(items)
            /\ Len(after) > liLimit =>
                 /\ Len(items) > 0 /\ L!Last(items) = items[Len(items)]
                 /\ L!Last(items) \in T
                 /\ \A r \in T : r \in L!Range(items) \/ L!Older(r, L!Last(items))
<1> DEFINE after == L!Newest(T)
           count == IF Len(after) < liLimit THEN Len(after) ELSE liLimit
           items == SubSeq(after, 1, count)
<1>1. /\ T \in SUBSET Row /\ Distinct(T) /\ IsFiniteSet(T)
  BY FS_Subset DEF ListInv, Distinct
<1>2. /\ after \in [1..Cardinality(T) -> T] /\ Descending(after)
      /\ \A r \in T : \E n \in 1..Cardinality(T) : after[n] = r
      /\ Cardinality(T) \in Nat
  BY <1>1, NewestLists, FS_CardinalityType
<1> HIDE DEF after
<1>3. /\ after \in Seq(T) /\ Len(after) = Cardinality(T) /\ DOMAIN after = 1..Len(after)
      /\ Len(after) \in Nat
  BY <1>2
<1>4. count \in Nat /\ count <= Len(after) /\ count <= liLimit
      /\ (Len(after) <= liLimit => count = Len(after))
      /\ (Len(after) > liLimit => count = liLimit /\ count > 0)
  BY <1>3, ListNumbers
<1> HIDE DEF count
<1>5. /\ items \in Seq(T) /\ Len(items) = count
      /\ \A n \in 1..count : items[n] = after[n]
  <2>1. \A n \in 1..count : after[n] \in T
    BY <1>3, <1>4
  <2>2. 1 \in Int /\ count \in Int /\ 1..(count - 1 + 1) = 1..count
    BY <1>4
  <2>3. /\ items \in Seq(T) /\ Len(items) = IF 1 <= count THEN count - 1 + 1 ELSE 0
        /\ \A n \in 1..(count - 1 + 1) : items[n] = after[1 + n - 1]
    BY <2>1, <2>2, SubSeqProperties
  <2> QED
    BY <1>4, <2>3
<1> HIDE DEF items
<1>6. DOMAIN items = 1..count
  BY <1>5
<1>7. Descending(items)
  BY <1>2, <1>3, <1>4, <1>5, <1>6 DEF Descending
<1>8. items \in Seq(liRows)
  BY <1>5
<1>9. ASSUME NEW r \in T, NEW n \in 1..count, after[n] = r PROVE r \in L!Range(items)
  BY <1>5, <1>6, <1>9 DEF L!Range
<1>10. ASSUME Len(after) <= liLimit, NEW r \in T PROVE r \in L!Range(items)
  BY <1>2, <1>3, <1>4, <1>9, <1>10
<1>11. ASSUME Len(after) > liLimit
       PROVE  /\ Len(items) > 0 /\ L!Last(items) = items[Len(items)]
              /\ L!Last(items) \in T
              /\ \A r \in T : r \in L!Range(items) \/ L!Older(r, L!Last(items))
  <2>1. count \in 1..count /\ L!Last(items) = items[Len(items)] /\ L!Last(items) = after[count]
    BY <1>4, <1>5, <1>11 DEF L!Last
  <2>2. ASSUME NEW r \in T PROVE r \in L!Range(items) \/ L!Older(r, L!Last(items))
    <3>1. PICK n \in 1..Cardinality(T) : after[n] = r
      BY <1>2
    <3>2. CASE n <= count
      BY <1>9, <3>1, <3>2
    <3>3. CASE n > count
      BY <1>2, <1>3, <1>4, <2>1, <3>1, <3>3 DEF Descending
    <3> QED
      BY <1>4, <3>2, <3>3
  <2> QED
    BY <1>3, <1>4, <1>5, <1>11, <2>1, <2>2
<1>12. /\ items \in Seq(liRows) /\ items \in Seq(T) /\ Descending(items)
       /\ Len(items) = count /\ Len(after) \in Nat
       /\ Len(after) <= liLimit => \A r \in T : r \in L!Range(items)
       /\ Len(after) > liLimit =>
            /\ Len(items) > 0 /\ L!Last(items) = items[Len(items)]
            /\ L!Last(items) \in T
            /\ \A r \in T : r \in L!Range(items) \/ L!Older(r, L!Last(items))
  BY <1>3, <1>5, <1>7, <1>8, <1>10, <1>11
<1> QED
  BY <1>12 DEF after, count, items

\* A page after the cursor continues the list.
LEMMA PageContinues ==
  ASSUME NEW shown \in Seq(Row), Descending(shown), NEW items \in Seq(Row), Descending(items),
         \A n \in DOMAIN items : Len(shown) > 0 => L!Older(items[n], shown[Len(shown)])
  PROVE  /\ Descending(shown \o items)
         /\ L!Range(shown \o items) = L!Range(shown) \cup L!Range(items)
         /\ Len(items) > 0 =>
              /\ Len(shown \o items) > 0
              /\ (shown \o items)[Len(shown \o items)] = items[Len(items)]
<1> DEFINE all == shown \o items
<1>1. /\ all \in Seq(Row) /\ Len(all) = Len(shown) + Len(items)
      /\ DOMAIN all = 1..(Len(shown) + Len(items))
      /\ Len(shown) \in Nat /\ Len(items) \in Nat
      /\ DOMAIN shown = 1..Len(shown) /\ DOMAIN items = 1..Len(items)
      /\ \A n \in 1..Len(shown) : all[n] = shown[n] /\ shown[n] \in Row
      /\ \A n \in 1..Len(items) : all[Len(shown) + n] = items[n] /\ items[n] \in Row
  OBVIOUS
<1> HIDE DEF all
<1>2. ASSUME NEW m \in DOMAIN all, NEW n \in DOMAIN all, m < n PROVE L!Older(all[n], all[m])
  <2>1. CASE n <= Len(shown)
    BY <1>1, <1>2, <2>1 DEF Descending
  <2>2. CASE m > Len(shown)
    <3>1. PICK i \in 1..Len(items), j \in 1..Len(items) : m = Len(shown) + i /\ n = Len(shown) + j
      <4>1. m - Len(shown) \in 1..Len(items) /\ n - Len(shown) \in 1..Len(items)
        BY <1>1, <1>2, <2>2
      <4> QED
        BY <1>1, <4>1
    <3>2. i < j /\ all[m] = items[i] /\ all[n] = items[j]
      BY <1>1, <1>2, <3>1
    <3> QED
      BY <1>1, <3>2 DEF Descending
  <2>3. CASE m <= Len(shown) /\ n > Len(shown)
    <3>1. PICK j \in 1..Len(items) : n = Len(shown) + j
      <4>1. n - Len(shown) \in 1..Len(items)
        BY <1>1, <2>3
      <4> QED
        BY <1>1, <4>1
    <3>2. L!Older(items[j], shown[Len(shown)]) /\ m \in 1..Len(shown)
      BY <1>1, <2>3, SMTT(30)
    <3>3. m = Len(shown) \/ L!Older(shown[Len(shown)], shown[m])
      BY <1>1, <3>2 DEF Descending
    <3>4. all[n] = items[j] /\ all[m] = shown[m] /\ items[j] \in Row /\ shown[m] \in Row
          /\ shown[Len(shown)] \in Row
      BY <1>1, <3>1, <3>2
    <3> QED
      BY <3>2, <3>3, <3>4, OlderIsAnOrder
  <2> QED
    BY <1>1, <2>1, <2>2, <2>3
<1>3. L!Range(all) = L!Range(shown) \cup L!Range(items)
  <2>1. ASSUME NEW n \in DOMAIN all PROVE all[n] \in L!Range(shown) \cup L!Range(items)
    <3>1. CASE n <= Len(shown)
      BY <1>1, <3>1 DEF L!Range
    <3>2. CASE n > Len(shown)
      <4>1. n - Len(shown) \in 1..Len(items) /\ n = Len(shown) + (n - Len(shown))
        BY <1>1, <3>2
      <4> QED
        BY <1>1, <4>1 DEF L!Range
    <3> QED
      BY <1>1, <3>1, <3>2
  <2>2. ASSUME NEW n \in DOMAIN shown PROVE shown[n] \in L!Range(all)
    BY <1>1 DEF L!Range
  <2>3. ASSUME NEW n \in DOMAIN items PROVE items[n] \in L!Range(all)
    <3>1. Len(shown) + n \in DOMAIN all
      BY <1>1
    <3> QED
      BY <1>1, <3>1 DEF L!Range
  <2> QED
    BY <2>1, <2>2, <2>3 DEF L!Range
<1>4. Len(items) > 0 => Len(all) > 0 /\ all[Len(all)] = items[Len(items)]
  BY <1>1
<1> QED
  BY <1>2, <1>3, <1>4 DEF Descending, all

LEMMA PageStep ==
  ASSUME ListInv, L!ListUsers
  PROVE  ListInv'
<1> DEFINE T == IF liWalk.cursor = None THEN liRows ELSE {r \in liRows : L!Older(r, liWalk.cursor)}
           after == L!Newest(T)
           count == IF Len(after) < liLimit THEN Len(after) ELSE liLimit
           items == SubSeq(after, 1, count)
           next == IF Len(after) > liLimit THEN L!Last(items) ELSE None
           before == IF liWalk.at = "idle" THEN liRows ELSE liWalk.before
           w == [at |-> IF next = None THEN "done" ELSE "walking", cursor |-> next,
                 shown |-> liWalk.shown \o items, before |-> before]
<1>1. /\ liWalk.at # "done" /\ liWalk' = w /\ UNCHANGED <<liNow, liRows, liSignIns>>
  BY DEF L!ListUsers, L!Page
<1>2. T \in SUBSET liRows /\ liRows \in SUBSET Row /\ Walking(liWalk) /\ liLimit \in Nat
  BY ListNumbers DEF ListInv
<1>3. /\ items \in Seq(liRows) /\ items \in Seq(T) /\ Descending(items)
      /\ Len(after) \in Nat
      /\ Len(after) <= liLimit => \A r \in T : r \in L!Range(items)
      /\ Len(after) > liLimit =>
           /\ Len(items) > 0 /\ L!Last(items) = items[Len(items)]
           /\ L!Last(items) \in T
           /\ \A r \in T : r \in L!Range(items) \/ L!Older(r, L!Last(items))
  <2> HIDE DEF T
  <2> QED
    BY <1>2, PageShows
<1> HIDE DEF after, items
<1>4. /\ liWalk.shown \in Seq(Row) /\ Descending(liWalk.shown) /\ items \in Seq(Row)
      /\ \A n \in DOMAIN items : items[n] \in T
  BY <1>2, <1>3 DEF Walking
<1>5. ASSUME NEW n \in DOMAIN items, Len(liWalk.shown) > 0
      PROVE  L!Older(items[n], liWalk.shown[Len(liWalk.shown)])
  <2>1. liWalk.at = "walking"
    BY <1>1, <1>2, <1>5 DEF Walking
  <2> QED
    BY <1>2, <1>4, <2>1 DEF Walking
<1>6. /\ Descending(w.shown) /\ w.shown \in Seq(liRows)
      /\ L!Range(w.shown) = L!Range(liWalk.shown) \cup L!Range(items)
      /\ Len(items) > 0 => /\ Len(w.shown) > 0
                           /\ w.shown[Len(w.shown)] = items[Len(items)]
  <2>1. w.shown = liWalk.shown \o items /\ liWalk.shown \in Seq(liRows)
    BY <1>2 DEF Walking
  <2> HIDE DEF w
  <2> QED
    BY <1>3, <1>4, <1>5, <2>1, PageContinues
\* What the walk had to show is shown or among the rows after the cursor.
<1>7. \A r \in before : r \in L!Range(liWalk.shown) \/ r \in T
  BY <1>1, <1>2 DEF Walking
<1>8. next # None => Len(after) > liLimit
  OBVIOUS
<1>9. next = None => Len(after) <= liLimit
  <2>1. L!Last(items) \in Row => L!Last(items) # None
    BY ListNumbers
  <2> QED
    BY <1>2, <1>3, <2>1
<1>10. w.at = (IF next = None THEN "done" ELSE "walking") /\ w.cursor = next /\ w.before = before
  OBVIOUS
<1> HIDE DEF w, T, before
<1>11. Walking(w)
  <2>1. CASE next = None
    BY <1>3, <1>6, <1>7, <1>9, <1>10, <2>1 DEF Walking
  <2>2. CASE next # None
    <3>1. next = L!Last(items) /\ next \in T
      BY <1>3, <1>8, <2>2
    <3> HIDE DEF next
    <3>2. \A r \in before : r \in L!Range(w.shown) \/ (r \in liRows /\ L!Older(r, next))
      BY <1>2, <1>3, <1>6, <1>7, <1>8, <2>2, <3>1
    <3> QED
      BY <1>2, <1>3, <1>6, <1>8, <1>10, <2>2, <3>1, <3>2 DEF Walking
  <2> QED
    BY <2>1, <2>2
<1>12. Walking(liWalk)'
  BY <1>1, <1>11 DEF Walking, Descending
<1> QED
  BY <1>1, <1>12 DEF ListInv, Signing, Distinct, L!OneAccountPerNumber

LEMMA ListNext == ListInv /\ [L!Next]_(L!vars) => ListInv'
<1> SUFFICES ASSUME ListInv, [L!Next]_(L!vars) PROVE ListInv'
  OBVIOUS
<1>1. CASE UNCHANGED L!vars
  BY <1>1 DEF L!vars, ListInv, Signing, Walking, Distinct, Descending, L!OneAccountPerNumber
<1>2. CASE L!Again
  <2>1. liWalk' = [at |-> "idle", cursor |-> None, shown |-> <<>>, before |-> {}]
        /\ UNCHANGED <<liNow, liRows, liSignIns>>
    BY <1>2 DEF L!Again, L!Resting
  <2>2. <<>> \in Seq(liRows) /\ DOMAIN <<>> = {}
    OBVIOUS
  <2>3. Walking(liWalk)'
    BY <2>1, <2>2 DEF Walking, Descending
  <2> QED
    BY <2>1, <2>3 DEF ListInv, Signing, Distinct, L!OneAccountPerNumber
<1> QED
  BY <1>1, <1>2, TickStep, StampStep, CreateStep, PageStep DEF L!Next

LEMMA ListAlways == Spec => []ListInv
  BY ListsRun, ListInit, ListNext, PTL DEF L!Spec

LEMMA ListTypes == ListInv => L!TypeOK
<1> SUFFICES ASSUME ListInv PROVE L!TypeOK
  OBVIOUS
<1>1. \A r \in liRows : r.identifier \in liPhones /\ r.created \in 0..liNow
  BY ListNumbers DEF ListInv, Row
<1>2. liWalk.at \in {"idle", "walking", "done"} /\ (liWalk.cursor # None => liWalk.cursor \in liRows)
  BY DEF ListInv, Walking
<1> QED
  BY <1>1, <1>2 DEF ListInv, L!TypeOK

\* A walk through the pages of users shows everyone once, in one order, who
\* had an account when it began, although people sign in meanwhile; and nobody
\* gets two accounts by signing in twice (list_page's keyset, create's unique
\* identifier).
THEOREM PagesStayExact == Spec => []PagesAreExact
<1>1. ListInv => PagesAreExact
  <2> SUFFICES ASSUME ListInv PROVE L!PagesAreExact /\ L!OneAccountPerNumber
    BY DEF PagesAreExact
  <2>1. /\ liWalk.shown \in Seq(liRows) /\ Descending(liWalk.shown) /\ liRows \in SUBSET Row
        /\ liWalk.at = "done" => liWalk.before \subseteq L!Range(liWalk.shown)
    BY DEF ListInv, Walking
  <2>2. ASSUME NEW m \in DOMAIN liWalk.shown, NEW n \in DOMAIN liWalk.shown,
               liWalk.shown[m] = liWalk.shown[n]
        PROVE  m = n
    <3>1. liWalk.shown[m] \in Row /\ m \in Int /\ n \in Int
      BY <2>1
    <3>2. ~L!Older(liWalk.shown[m], liWalk.shown[m])
      BY <3>1, OlderIsAnOrder
    <3> QED
      BY <2>1, <2>2, <3>1, <3>2 DEF Descending
  <2> QED
    BY <2>1, <2>2 DEF L!PagesAreExact, L!IsInjective, Descending, ListInv
<1> QED
  BY <1>1, ListAlways, PTL

-----------------------------------------------------------------------------
(* Accounts, for any names, codes and payloads                             *)
(*                                                                         *)
(* The names and the codes are unique because the database refuses a       *)
(* second; that a code, once told, stays true needs in addition that a     *)
(* code is written only where there is none, and that a call answers       *)
(* after the attempt that succeeded.                                       *)

Rows == [nickname : acNames \cup {None}, code : acReferralCodes \cup {None},
         inviter : acPlayers \cup {None}]

\* The rows, and the calls that are not idle.
Types ==
  /\ acUsers \in [acPlayers -> Rows]
  /\ acCalls \in [Actors -> [todo : SUBSET DOMAIN A!Chain, user : acPlayers \cup {None},
                          payload : acUpdates \cup {None}, tries : Int]]
  /\ \A c \in Actors : ~A!IsIdle(c) => A!User(c) \in acPlayers /\ A!Payload(c) \in acUpdates

\* A code is one player's.
CodesAreUnique ==
  \A u, v \in acPlayers :
    acUsers[u].code # None /\ acUsers[u].code = acUsers[v].code => u = v

\* A call that is about to read a code again finds one.
Allocated ==
  \A c \in Actors : "reread" \in acCalls[c].todo /\ "try" \notin acCalls[c].todo =>
    acUsers[A!User(c)].code # None

\* What answers have shown is stored.
Shown ==
  \A a \in acAnswers : a.user \in acPlayers /\ a.code # None /\ acUsers[a.user].code = a.code

AccountInv ==
  /\ A!AccountsAssumption /\ Types /\ CodesAreUnique /\ Allocated /\ Shown /\ A!NamesAreUnique

LEMMA InitAccountInv == A!AccountsAssumption /\ A!Init => AccountInv
<1> SUFFICES ASSUME A!AccountsAssumption, A!Init PROVE AccountInv
  OBVIOUS
<1>1. \A c \in Actors : acCalls[c] = A!Idle /\ A!IsIdle(c)
  BY DEF A!Init, A!Idle, A!IsIdle
<1>2. A!Blank \in Rows /\ A!Blank.code = None /\ A!Blank.nickname = None
  BY DEF A!Blank, Rows
<1>3. Types
  BY <1>1, <1>2 DEF A!Init, Types, A!Idle
<1>4. CodesAreUnique /\ A!NamesAreUnique /\ Shown
  BY <1>2 DEF A!Init, CodesAreUnique, A!NamesAreUnique, Shown
<1>5. Allocated
  BY <1>1 DEF Allocated, A!Idle
<1> QED
  BY <1>3, <1>4, <1>5 DEF AccountInv

-----------------------------------------------------------------------------
(* Steps that write no row                                                 *)

Records == [todo : SUBSET DOMAIN A!Chain, user : acPlayers \cup {None},
            payload : acUpdates \cup {None}, tries : Int]

LEMMA IdleType == A!Idle \in Records
  BY DEF A!Idle, Records

\* A call that moves on, or ends, and leaves the rows and the answers alone.
LEMMA MoveCall ==
  ASSUME AccountInv, NEW c \in Actors, NEW x \in Records, acCalls' = [acCalls EXCEPT ![c] = x],
         UNCHANGED <<acUsers, acAnswers>>,
         x.todo # {} => x.user \in acPlayers /\ x.payload \in acUpdates,
         "reread" \in x.todo /\ "try" \notin x.todo => acUsers[x.user].code # None
  PROVE  AccountInv'
<1> USE DEF AccountInv
<1>1. acCalls'[c] = x /\ \A d \in Actors \ {c} : acCalls'[d] = acCalls[d]
  BY DEF Types
<1>2. Types'
  BY <1>1 DEF Types, Records, A!IsIdle, A!User, A!Payload
<1>3. Allocated'
  BY <1>1 DEF Allocated, A!User
<1>4. CodesAreUnique' /\ Shown' /\ A!NamesAreUnique' /\ A!AccountsAssumption'
  BY DEF CodesAreUnique, Shown, A!NamesAreUnique, A!AccountsAssumption
<1> QED
  BY <1>2, <1>3, <1>4

LEMMA EndCall ==
  ASSUME AccountInv, NEW c \in Actors, acCalls' = [acCalls EXCEPT ![c] = A!Idle],
         UNCHANGED <<acUsers, acAnswers>>
  PROVE  AccountInv'
<1>1. A!Idle.todo = {}
  BY DEF A!Idle
<1> QED
  BY <1>1, IdleType, MoveCall

\* What Finish does to a call.
LEMMA Finished ==
  ASSUME AccountInv, NEW c \in Actors, NEW step \in DOMAIN A!Chain, A!Finish(c, step)
  PROVE  \E x \in Records :
           /\ acCalls' = [acCalls EXCEPT ![c] = x]
           /\ x.todo = acCalls[c].todo \ {step}
           /\ x.user = A!User(c) /\ x.payload = A!Payload(c)
<1> DEFINE x == [acCalls[c] EXCEPT !.todo = @ \ {step}]
<1>1. acCalls[c] \in Records
  BY DEF AccountInv, Types, Records
<1>2. acCalls' = [acCalls EXCEPT ![c] = x]
  BY DEF A!Finish, AccountInv, Types
<1>3. x \in Records /\ x.todo = acCalls[c].todo \ {step}
      /\ x.user = A!User(c) /\ x.payload = A!Payload(c)
  BY <1>1 DEF Records, A!User, A!Payload
<1> QED
  BY <1>2, <1>3

\* A step before the allocation that writes no row.
LEMMA FinishCall ==
  ASSUME AccountInv, NEW c \in Actors, NEW step \in DOMAIN A!Chain, step # "try",
         step \in acCalls[c].todo, A!Finish(c, step), UNCHANGED <<acUsers, acAnswers>>
  PROVE  AccountInv'
<1>1. PICK x \in Records :
        /\ acCalls' = [acCalls EXCEPT ![c] = x]
        /\ x.todo = acCalls[c].todo \ {step}
        /\ x.user = A!User(c) /\ x.payload = A!Payload(c)
  BY Finished
<1>2. A!User(c) \in acPlayers /\ A!Payload(c) \in acUpdates
  BY DEF AccountInv, Types, A!IsIdle
<1>3. "reread" \in x.todo /\ "try" \notin x.todo => acUsers[x.user].code # None
  BY <1>1 DEF AccountInv, Allocated
<1> QED
  BY <1>1, <1>2, <1>3, MoveCall

LEMMA ChainType == DOMAIN A!Chain = {"venue", "avatar", "profile", "display", "bind", "code",
                                   "try", "reread"}
  BY DEF A!Chain

LEMMA BeginStep ==
  ASSUME AccountInv, NEW c \in Actors, NEW u \in acPlayers, NEW p \in acUpdates, A!Begin(c, u, p)
  PROVE  AccountInv'
<1> DEFINE x == [todo |-> {at \in DOMAIN A!Chain \ A!Allocating : A!Wanted(p, at)},
                 user |-> u, payload |-> p, tries |-> 0]
<1>1. UNCHANGED <<acUsers, acAnswers>>
  BY DEF A!Begin
<1>2. acCalls' = [acCalls EXCEPT ![c] = A!Idle] \/ acCalls' = [acCalls EXCEPT ![c] = x]
  BY DEF A!Begin, A!Refuse
<1>3. x \in Records /\ x.user = u /\ x.payload = p /\ "reread" \notin x.todo
  BY DEF Records, A!Allocating
<1> HIDE DEF x
<1> QED
  BY <1>1, <1>2, <1>3, EndCall, MoveCall

LEMMA CheckStep ==
  ASSUME AccountInv, NEW c \in Actors, A!CheckVenue(c) \/ A!CheckAvatar(c) \/ A!WriteDisplay(c)
  PROVE  AccountInv'
<1>1. UNCHANGED <<acUsers, acAnswers>>
  BY DEF A!CheckVenue, A!CheckAvatar, A!WriteDisplay
<1>2. \/ acCalls' = [acCalls EXCEPT ![c] = A!Idle]
      \/ \E step \in {"venue", "avatar", "display"} : step \in acCalls[c].todo /\ A!Finish(c, step)
  BY DEF A!CheckVenue, A!CheckAvatar, A!WriteDisplay, A!Refuse, A!At
<1> QED
  BY <1>1, <1>2, EndCall, FinishCall, ChainType

-----------------------------------------------------------------------------
(* Steps that write a row                                                  *)

\* A row is written and its call moves on: the codes of all others stay, and
\* the writer's own stays if there was one.
LEMMA WriteCall ==
  ASSUME AccountInv, NEW c \in Actors, NEW step \in DOMAIN A!Chain, step \in acCalls[c].todo,
         A!Finish(c, step), NEW row \in Rows, acUsers' = [acUsers EXCEPT ![A!User(c)] = row],
         UNCHANGED acAnswers,
         acUsers[A!User(c)].code # None => row.code = acUsers[A!User(c)].code,
         step = "try" => row.code # None,
         CodesAreUnique', A!NamesAreUnique'
  PROVE  AccountInv'
<1> USE DEF AccountInv
<1> DEFINE u == A!User(c)
<1>1. PICK x \in Records :
        /\ acCalls' = [acCalls EXCEPT ![c] = x]
        /\ x.todo = acCalls[c].todo \ {step}
        /\ x.user = u /\ x.payload = A!Payload(c)
  BY Finished
<1>2. u \in acPlayers /\ A!Payload(c) \in acUpdates
  BY DEF Types, A!IsIdle
<1>3. acCalls'[c] = x /\ \A d \in Actors \ {c} : acCalls'[d] = acCalls[d]
  BY <1>1 DEF Types
<1>4. /\ acUsers'[u] = row /\ \A v \in acPlayers \ {u} : acUsers'[v] = acUsers[v]
      /\ \A v \in acPlayers : acUsers[v].code # None => acUsers'[v].code = acUsers[v].code
  BY <1>2 DEF Types
<1>5. Types'
  BY <1>1, <1>2, <1>3 DEF Types, Records, A!IsIdle, A!User, A!Payload
<1> HIDE DEF u
<1>6. Allocated'
  <2>1. ASSUME "reread" \in x.todo, "try" \notin x.todo PROVE acUsers'[u].code # None
    <3>1. CASE step = "try"
      BY <3>1, <1>4
    <3>2. CASE step # "try"
      BY <3>2, <2>1, <1>1, <1>2, <1>4 DEF Allocated, u
    <3> QED
      BY <3>1, <3>2
  <2>2. \A d \in Actors \ {c} : "reread" \in acCalls[d].todo =>
          acCalls[d].user \in acPlayers
    BY DEF Types, A!IsIdle, A!User
  <2> QED
    BY <2>1, <2>2, <1>1, <1>3, <1>4 DEF Allocated, A!User
<1>7. Shown'
  BY <1>4 DEF Shown
<1> QED
  BY <1>5, <1>6, <1>7 DEF A!AccountsAssumption

LEMMA WriteProfileStep ==
  ASSUME AccountInv, NEW c \in Actors, A!WriteProfile(c)
  PROVE  AccountInv'
<1> USE DEF AccountInv
<1> DEFINE u == A!User(c)
           name == A!Payload(c).nickname
<1>1. "profile" \in acCalls[c].todo /\ UNCHANGED acAnswers
  BY DEF A!WriteProfile, A!At
<1>2. u \in acPlayers /\ A!Payload(c) \in acUpdates /\ name \in acNames \cup {None}
  BY <1>1 DEF Types, A!IsIdle, A!AccountsAssumption
<1>3. CASE name # None /\ A!TakenKey(u, name)
  BY <1>1, <1>3, EndCall DEF A!WriteProfile, A!Refuse
<1>4. CASE name = None
  BY <1>1, <1>4, FinishCall, ChainType DEF A!WriteProfile
<1>5. CASE name # None /\ ~A!TakenKey(u, name)
  <2> DEFINE row == [acUsers[u] EXCEPT !.nickname = name]
  <2>1. acUsers' = [acUsers EXCEPT ![u] = row] /\ A!Finish(c, "profile")
    BY <1>5 DEF A!WriteProfile, Types
  <2>2. row \in Rows /\ row.code = acUsers[u].code /\ row.nickname = name
    BY <1>2 DEF Types, Rows
  <2> HIDE DEF row
  <2>3. acUsers'[u] = row /\ \A v \in acPlayers \ {u} : acUsers'[v] = acUsers[v]
    BY <1>2, <2>1 DEF Types
  <2>4. CodesAreUnique'
    BY <2>2, <2>3 DEF CodesAreUnique
  <2>5. A!NamesAreUnique'
    BY <2>2, <2>3, <1>5 DEF A!NamesAreUnique, A!TakenKey
  <2> HIDE DEF AccountInv
  <2> QED
    BY <1>1, <2>1, <2>2, <2>4, <2>5, WriteCall, ChainType
<1> QED
  BY <1>3, <1>4, <1>5

LEMMA BindStep ==
  ASSUME AccountInv, NEW c \in Actors, A!Bind(c)
  PROVE  AccountInv'
<1> USE DEF AccountInv
<1> DEFINE u == A!User(c)
           code == A!Payload(c).referrer
           by == CHOOSE v \in A!Holder(code) : TRUE
           row == [acUsers[u] EXCEPT !.inviter = by]
<1>1. "bind" \in acCalls[c].todo /\ UNCHANGED acAnswers
  BY DEF A!Bind, A!At
<1>2. u \in acPlayers
  BY <1>1 DEF Types, A!IsIdle
<1>3. CASE A!BindProblem(u, code) # None
  BY <1>1, <1>3, EndCall DEF A!Bind, A!Refuse
<1>4. CASE A!BindProblem(u, code) = None
  <2>1. A!Holder(code) # {}
    BY <1>4 DEF A!BindProblem, A!AccountsAssumption, A!Refusals
  <2>2. by \in acPlayers
    BY <2>1 DEF A!Holder
  <2>3. acUsers' = [acUsers EXCEPT ![u] = row] /\ A!Finish(c, "bind")
    BY <1>4 DEF A!Bind, Types
  <2>4. /\ row \in Rows /\ row.code = acUsers[u].code
        /\ row.nickname = acUsers[u].nickname
    BY <1>2, <2>2 DEF Types, Rows
  <2> HIDE DEF row
  <2>5. acUsers'[u] = row /\ \A v \in acPlayers \ {u} : acUsers'[v] = acUsers[v]
    BY <1>2, <2>3 DEF Types
  <2>6. CodesAreUnique'
    BY <2>4, <2>5 DEF CodesAreUnique
  <2>7. A!NamesAreUnique'
    BY <2>4, <2>5 DEF A!NamesAreUnique
  <2> HIDE DEF AccountInv
  <2> QED
    BY <1>1, <2>3, <2>4, <2>6, <2>7, WriteCall, ChainType
<1> QED
  BY <1>3, <1>4

-----------------------------------------------------------------------------
(* The allocation                                                          *)

\* An answer shows a code that is stored, and the call ends.
LEMMA AnswerStep ==
  ASSUME AccountInv, NEW c \in Actors, A!User(c) \in acPlayers, acUsers[A!User(c)].code # None,
         A!Answer(c, acUsers[A!User(c)].code), UNCHANGED acUsers
  PROVE  AccountInv'
<1> USE DEF AccountInv
<1>1. acCalls' = [acCalls EXCEPT ![c] = A!Idle] /\ A!Idle.todo = {}
  BY DEF A!Answer, A!Idle
<1>2. acCalls'[c] = A!Idle /\ \A d \in Actors \ {c} : acCalls'[d] = acCalls[d]
  BY <1>1 DEF Types
<1>3. Types'
  BY <1>1, <1>2, IdleType DEF Types, Records, A!IsIdle, A!User, A!Payload
<1>4. Allocated'
  BY <1>1, <1>2 DEF Allocated, A!User
<1>5. Shown'
  BY DEF Shown, A!Answer
<1>6. CodesAreUnique' /\ A!NamesAreUnique' /\ A!AccountsAssumption'
  BY DEF CodesAreUnique, A!NamesAreUnique, A!AccountsAssumption
<1> QED
  BY <1>3, <1>4, <1>5, <1>6

LEMMA ReadCodeStep ==
  ASSUME AccountInv, NEW c \in Actors, A!ReadCode(c)
  PROVE  AccountInv'
<1> DEFINE u == A!User(c)
           x == [acCalls[c] EXCEPT !.todo = A!Allocating, !.tries = acAttempts]
<1>1. "code" \in acCalls[c].todo /\ UNCHANGED acUsers
  BY DEF A!ReadCode, A!At
<1>2. u \in acPlayers /\ A!Payload(c) \in acUpdates /\ acCalls[c] \in Records /\ acAttempts \in Nat
  BY <1>1 DEF AccountInv, Types, A!IsIdle, Records, A!AccountsAssumption
<1>3. CASE acUsers[u].code # None
  BY <1>1, <1>2, <1>3, AnswerStep DEF A!ReadCode
<1>4. CASE acUsers[u].code = None
  <2>1. UNCHANGED acAnswers /\ acCalls' = [acCalls EXCEPT ![c] = x]
    BY <1>4 DEF A!ReadCode, AccountInv, Types
  <2>2. /\ x \in Records /\ x.todo = A!Allocating
        /\ x.user = u /\ x.payload = A!Payload(c)
    <3>1. acAttempts \in Int /\ A!Allocating \in SUBSET DOMAIN A!Chain
      BY <1>2, ChainType DEF A!Allocating
    <3> QED
      BY <1>2, <3>1 DEF Records, A!User, A!Payload
  <2> HIDE DEF x
  <2>3. "try" \in x.todo
    BY <2>2 DEF A!Allocating
  <2> QED
    BY <1>1, <1>2, <2>1, <2>2, <2>3, MoveCall
<1> QED
  BY <1>3, <1>4

LEMMA TryCodeStep ==
  ASSUME AccountInv, NEW c \in Actors, A!TryCode(c)
  PROVE  AccountInv'
<1> USE DEF AccountInv
<1> DEFINE u == A!User(c)
<1>1. "try" \in acCalls[c].todo /\ UNCHANGED acAnswers
  BY DEF A!TryCode, A!At
<1>2. u \in acPlayers /\ A!Payload(c) \in acUpdates /\ acCalls[c] \in Records
  BY <1>1 DEF Types, A!IsIdle, Records
<1>3. PICK candidate \in acReferralCodes :
        LET clash == A!Unset(u) /\ A!Holder(candidate) \notin {{}, {u}} IN
        /\ acUsers' = IF A!Unset(u) /\ ~clash THEN [acUsers EXCEPT ![u].code = candidate]
                                          ELSE acUsers
        /\ IF ~clash THEN A!Finish(c, "try")
           ELSE IF acCalls[c].tries = 1 THEN A!Refuse(c, "INTERNAL_ERROR")
           ELSE acCalls' = [acCalls EXCEPT ![c].tries = @ - 1]
  BY DEF A!TryCode
<1> DEFINE clash == A!Unset(u) /\ A!Holder(candidate) \notin {{}, {u}}
<1>4. candidate # None /\ acUsers[u] \in Rows
  BY <1>2 DEF A!AccountsAssumption, Types
<1>5. CASE clash
  <2>1. UNCHANGED acUsers
    BY <1>3, <1>5
  <2>2. CASE acCalls[c].tries = 1
    BY <1>1, <1>3, <1>5, <2>1, <2>2, EndCall DEF A!Refuse
  <2>3. CASE acCalls[c].tries # 1
    <3> DEFINE x == [acCalls[c] EXCEPT !.tries = @ - 1]
    <3>1. acCalls' = [acCalls EXCEPT ![c] = x]
      BY <1>3, <1>5, <2>3 DEF Types
    <3>2. x \in Records /\ x.todo = acCalls[c].todo /\ x.user = u /\ x.payload = A!Payload(c)
      BY <1>2 DEF Records, A!User, A!Payload
    <3> HIDE DEF x, AccountInv
    <3> QED
      BY <1>1, <1>2, <2>1, <3>1, <3>2, MoveCall
  <2> QED
    BY <2>2, <2>3
<1>6. CASE A!Unset(u) /\ ~clash
  <2> DEFINE row == [acUsers[u] EXCEPT !.code = candidate]
  <2>1. acUsers' = [acUsers EXCEPT ![u] = row] /\ A!Finish(c, "try")
    BY <1>3, <1>6 DEF Types
  <2>2. row \in Rows /\ row.code = candidate /\ row.nickname = acUsers[u].nickname
    BY <1>4 DEF Rows
  <2> HIDE DEF row
  <2>3. acUsers'[u] = row /\ \A v \in acPlayers \ {u} : acUsers'[v] = acUsers[v]
    BY <1>2, <2>1 DEF Types
  <2>4. \A v \in acPlayers \ {u} : acUsers[v].code # candidate
    BY <1>4, <1>6 DEF A!Holder
  <2>5. CodesAreUnique'
    BY <2>2, <2>3, <2>4 DEF CodesAreUnique
  <2>6. A!NamesAreUnique'
    BY <2>2, <2>3 DEF A!NamesAreUnique
  <2>7. acUsers[u].code = None
    BY <1>6 DEF A!Unset
  <2> HIDE DEF AccountInv
  <2> QED
    BY <1>1, <1>4, <2>1, <2>2, <2>5, <2>6, <2>7, WriteCall, ChainType
<1>7. CASE ~A!Unset(u)
  <2>1. acUsers' = acUsers /\ A!Finish(c, "try") /\ acUsers[u].code # None
    BY <1>3, <1>7 DEF A!Unset
  <2>2. acUsers' = [acUsers EXCEPT ![u] = acUsers[u]]
    BY <2>1, <1>2 DEF Types
  <2>3. CodesAreUnique' /\ A!NamesAreUnique'
    BY <2>1 DEF CodesAreUnique, A!NamesAreUnique
  <2> HIDE DEF AccountInv
  <2> QED
    BY <1>1, <1>4, <2>1, <2>2, <2>3, WriteCall, ChainType
<1> QED
  BY <1>5, <1>6, <1>7

LEMMA RereadStep ==
  ASSUME AccountInv, NEW c \in Actors, A!Reread(c)
  PROVE  AccountInv'
<1>1. "reread" \in acCalls[c].todo /\ ~("try" \in acCalls[c].todo) /\ UNCHANGED acUsers
  BY DEF A!Reread, A!At, A!Chain
<1>2. A!User(c) \in acPlayers /\ acUsers[A!User(c)].code # None
  BY <1>1 DEF AccountInv, Types, A!IsIdle, Allocated
<1> QED
  BY <1>1, <1>2, AnswerStep DEF A!Reread

-----------------------------------------------------------------------------
(* The invariant and the theorems                                          *)

LEMMA StepAccountInv == AccountInv /\ [A!Next]_(A!vars) => AccountInv'
<1> SUFFICES ASSUME AccountInv, [A!Next]_(A!vars) PROVE AccountInv'
  OBVIOUS
<1>1. ASSUME UNCHANGED <<acUsers, acCalls, acAnswers>> PROVE AccountInv'
  BY <1>1 DEF AccountInv, Types, CodesAreUnique, Allocated, Shown, A!NamesAreUnique,
     A!AccountsAssumption, A!IsIdle, A!User, A!Payload
<1>2. ASSUME NEW c \in Actors, A!Forget(c) PROVE AccountInv'
  BY <1>2, EndCall DEF A!Forget, A!Refuse
<1>3. CASE \/ \E v \in acVenues : A!DeactivateVenue(v)
           \/ \E a \in acAvatars : A!EditAvatar(a)
           \/ \E u \in acPlayers : A!RedeemFirst(u)
           \/ UNCHANGED A!vars
  BY <1>1, <1>3 DEF A!DeactivateVenue, A!EditAvatar, A!RedeemFirst, A!vars
<1> QED
  BY <1>2, <1>3, BeginStep, CheckStep, WriteProfileStep, BindStep, ReadCodeStep,
     TryCodeStep, RereadStep
     DEF A!Next

LEMMA AccountsRun == Spec => A!Spec
<1>1. Init => A!Init
  BY DEF Init
<1>2. [Next]_vars => [A!Next]_(A!vars)
  BY DEF Next, Ask, components, vars, A!vars, acVars
<1> QED
  BY <1>1, <1>2, PTL DEF Spec, A!Spec

LEMMA AlwaysAccountInv == Spec => []AccountInv
<1>1. A!AccountsAssumption
  BY ServicesAssumption
<1> QED
  BY <1>1, AccountsRun, InitAccountInv, StepAccountInv, PTL DEF A!Spec

\* What may be picked is in the catalogues.
Catalogued ==
  /\ acRedeemed \subseteq acPlayers
  /\ acPickable \in [active : SUBSET (acVenues \cup acAvatars), unlocked : SUBSET acAvatars]

LEMMA AlwaysCatalogued == Spec => []Catalogued
<1>1. A!Init => Catalogued
  BY DEF A!Init, Catalogued
<1>2. ASSUME Catalogued, [A!Next]_(A!vars) PROVE Catalogued'
  <2>1. CASE UNCHANGED <<acRedeemed, acPickable>>
    BY <1>2, <2>1 DEF Catalogued
  <2>2. ASSUME NEW v \in acVenues, A!DeactivateVenue(v) PROVE Catalogued'
    BY <1>2, <2>2 DEF A!DeactivateVenue, Catalogued
  <2>3. ASSUME NEW a \in acAvatars, A!EditAvatar(a) PROVE Catalogued'
    <3>1. PICK active, unlocked :
            /\ acPickable' = [active |-> active, unlocked |-> unlocked]
            /\ active \in {acPickable.active \cup {a}, acPickable.active \ {a}}
            /\ unlocked \in {acPickable.unlocked \cup {a}, acPickable.unlocked \ {a}}
      BY <2>3 DEF A!EditAvatar
    <3>2. active \in SUBSET (acVenues \cup acAvatars) /\ unlocked \in SUBSET acAvatars
      BY <1>2, <3>1 DEF Catalogued
    <3> QED
      BY <1>2, <2>3, <3>1, <3>2 DEF A!EditAvatar, Catalogued
  <2>4. ASSUME NEW u \in acPlayers, A!RedeemFirst(u) PROVE Catalogued'
    BY <1>2, <2>4 DEF A!RedeemFirst, Catalogued
  <2>5. ASSUME NEW c \in Actors, NEW u \in acPlayers, NEW p \in acUpdates, A!Begin(c, u, p)
        PROVE  UNCHANGED <<acRedeemed, acPickable>>
    BY <2>5 DEF A!Begin
  <2>6. ASSUME NEW c \in Actors,
               \/ A!CheckVenue(c) \/ A!CheckAvatar(c) \/ A!WriteProfile(c) \/ A!WriteDisplay(c)
               \/ A!Bind(c) \/ A!ReadCode(c) \/ A!TryCode(c) \/ A!Reread(c) \/ A!Forget(c)
        PROVE  UNCHANGED <<acRedeemed, acPickable>>
    BY <2>6 DEF A!CheckVenue, A!CheckAvatar, A!WriteProfile, A!WriteDisplay, A!Bind, A!ReadCode,
       A!TryCode, A!Reread, A!Forget
  <2>7. CASE UNCHANGED A!vars
    BY <2>1, <2>7 DEF A!vars
  <2> QED
    BY <1>2, <2>1, <2>2, <2>3, <2>4, <2>5, <2>6, <2>7 DEF A!Next
<1> QED
  BY <1>1, <1>2, AccountsRun, PTL DEF A!Spec

LEMMA AccountTypes == AccountInv /\ Catalogued => A!TypeOK
<1> SUFFICES ASSUME AccountInv, Catalogued PROVE A!TypeOK
  OBVIOUS
<1>1. \A u \in acPlayers : acUsers[u] \in Rows
  BY DEF AccountInv, Types
<1>2. \A c \in Actors : acCalls[c].todo \subseteq DOMAIN A!Chain
  BY DEF AccountInv, Types
<1>3. acPickable.active \subseteq acVenues \cup acAvatars /\ acPickable.unlocked \subseteq acAvatars
  BY DEF Catalogued
<1> QED
  BY <1>1, <1>2, <1>3 DEF Catalogued, Rows, A!TypeOK

\* A referral code that an answer has shown is that player's for good, and
\* leads to nobody else, however many calls allocate codes at once and
\* whatever attempts fail (ensure_referral_code: a conditional update, a unique
\* index, a second read).
THEOREM CodesStand == Spec => []A!AnsweredCodesStand
<1>1. AccountInv => A!AnsweredCodesStand
  BY DEF AccountInv, A!AnsweredCodesStand, Shown, CodesAreUnique, A!Holder
<1> QED
  BY <1>1, AlwaysAccountInv, PTL

\* No two players have names that differ only in spelling (nickname_key).
THEOREM NamesUnique == Spec => []A!NamesAreUnique
<1>1. AccountInv => A!NamesAreUnique
  BY DEF AccountInv
<1> QED
  BY <1>1, AlwaysAccountInv, PTL

\* A URL, a referral code or a nickname that an answer has given stands: the
\* code leads to that player and nobody else, the URL to that file, and nobody
\* else has the name, however many requests allocated them at once (the unique
\* indexes of the users, and files stored under the hash of their bytes).
THEOREM PromisesAreKept == Spec => []PromisesStand
<1>1. MediaInv => M!UrlsStand
  BY DEF MediaInv
<1> QED
  BY <1>1, CodesStand, NamesUnique, MediaAlways, PTL DEF PromisesStand


-----------------------------------------------------------------------------
(* The order in which a request is refused                                 *)

LEMMA ApiRun == Spec => I!Spec
<1>1. Init => I!Init
  BY DEF Init
<1>2. [Next]_vars => [I!Next]_(I!vars)
  BY DEF Next, Ask, components, vars, I!vars, apVars
<1> QED
  BY <1>1, <1>2, PTL DEF Spec, I!Spec

LEMMA ApiNumbers ==
  /\ apSmoke \notin apOthers /\ apMaxAttempts \in Nat \ {0}
  /\ apCodeCoins \in Nat /\ apBonus \in Nat
  BY ServicesAssumption DEF I!ApiAssumption

-----------------------------------------------------------------------------
(* The refusals                                                            *)

\* The first of a row of refusals that applies.
LEMMA FirstApplies ==
  ASSUME NEW s, NEW len \in Nat, DOMAIN s = 1..len, NEW k \in 1..len,
         s[k].if, \A m \in 1..(k - 1) : ~s[m].if
  PROVE  (CHOOSE n \in DOMAIN s : s[n].if /\ \A m \in 1..(n - 1) : ~s[m].if) = k
<1>1. PICK n : n = CHOOSE k1 \in DOMAIN s : s[k1].if /\ \A m \in 1..(k1 - 1) : ~s[m].if
  OBVIOUS
<1>2. n \in 1..len /\ s[n].if /\ \A m \in 1..(n - 1) : ~s[m].if
  BY <1>1
<1>3. ~(n < k) /\ ~(k < n)
  BY <1>2
<1> QED
  BY <1>1, <1>2, <1>3

\* The conditions of the refusals that have no name in the model.
Unknown(r) == r.path \notin I!Paths
WrongMethod(r) == r.path \in I!Paths /\ r.method \notin I!MethodsOf(r.path)
SignedOut(c, r) == I!Gated(r) /\ ~apJar[c]
NoProfile(c, r) == r.path = "/redemptions" /\ ~I!Complete(c)
TooSoon(c, r) == r.path = "/auth/request" /\ apOtp[c].recent
BadCode(c, r) == r.path = "/auth/verify" /\ I!WrongCode(c, r)
BadName(r) == r.body = "bad_nickname"
BadVenue(r) == r.body = "bad_venue" \/ (r.body = "venue" /\ ~apDeployment.venues)
BadScan(r) == r.body = "hello"

LEMMA RefusalsAre ==
  ASSUME NEW c, NEW r
  PROVE  /\ DOMAIN I!Refusals(c, r) = 1..11
         /\ I!Refusals(c, r)[1].if <=> I!CsrfRejected(c, r)
         /\ I!Refusals(c, r)[2].if <=> Unknown(r)
         /\ I!Refusals(c, r)[3].if <=> WrongMethod(r)
         /\ I!Refusals(c, r)[4].if <=> SignedOut(c, r)
         /\ I!Refusals(c, r)[5].if <=> NoProfile(c, r)
         /\ I!Refusals(c, r)[6].if <=> I!Invalid(r)
         /\ I!Refusals(c, r)[7].if <=> TooSoon(c, r)
         /\ I!Refusals(c, r)[8].if <=> BadCode(c, r)
         /\ I!Refusals(c, r)[9].if <=> BadName(r)
         /\ I!Refusals(c, r)[10].if <=> BadVenue(r)
         /\ I!Refusals(c, r)[11].if <=> BadScan(r)
         /\ I!Refusals(c, r)[1].answer = I!Answer(403, "CSRF_REJECTED")
         /\ I!Refusals(c, r)[2].answer = I!Answer(404, "NOT_FOUND")
         /\ I!Refusals(c, r)[3].answer = I!Answer(405, "METHOD_NOT_ALLOWED")
         /\ I!Refusals(c, r)[4].answer = I!Answer(401, "AUTH_REQUIRED")
         /\ I!Refusals(c, r)[5].answer = I!Answer(403, I!ProfileRefusal(c))
         /\ I!Refusals(c, r)[6].answer = I!Answer(422, "VALIDATION_FAILED")
         /\ I!Refusals(c, r)[7].answer = I!Answer(429, "OTP_COOLDOWN")
         /\ I!Refusals(c, r)[8].answer = I!Answer(401, "OTP_INVALID")
         /\ I!Refusals(c, r)[9].answer = I!Answer(422, "NICKNAME_INVALID")
         /\ I!Refusals(c, r)[10].answer = I!Answer(422, "CATALOGUE_UNKNOWN")
         /\ I!Refusals(c, r)[11].answer = I!Answer(400, "CODE_MALFORMED")
<1>1. DOMAIN I!Refusals(c, r) = 1..11
  BY DEF I!Refusals
<1>2. (I!Refusals(c, r)[1].if <=> I!CsrfRejected(c, r)) /\ I!Refusals(c, r)[1].answer = I!Answer(403, "CSRF_REJECTED")
  <2>1. I!Refusals(c, r)[1] = [if |-> I!CsrfRejected(c, r), answer |-> I!Answer(403, "CSRF_REJECTED")]
    BY DEF I!Refusals
  <2> QED
    BY <2>1
<1>3. (I!Refusals(c, r)[2].if <=> Unknown(r)) /\ I!Refusals(c, r)[2].answer = I!Answer(404, "NOT_FOUND")
  <2>1. I!Refusals(c, r)[2] = [if |-> Unknown(r), answer |-> I!Answer(404, "NOT_FOUND")]
    BY DEF I!Refusals, Unknown
  <2> QED
    BY <2>1
<1>4. (I!Refusals(c, r)[3].if <=> WrongMethod(r)) /\ I!Refusals(c, r)[3].answer = I!Answer(405, "METHOD_NOT_ALLOWED")
  <2>1. I!Refusals(c, r)[3] = [if |-> WrongMethod(r), answer |-> I!Answer(405, "METHOD_NOT_ALLOWED")]
    BY DEF I!Refusals, WrongMethod
  <2> QED
    BY <2>1
<1>5. (I!Refusals(c, r)[4].if <=> SignedOut(c, r)) /\ I!Refusals(c, r)[4].answer = I!Answer(401, "AUTH_REQUIRED")
  <2>1. I!Refusals(c, r)[4] = [if |-> SignedOut(c, r), answer |-> I!Answer(401, "AUTH_REQUIRED")]
    BY DEF I!Refusals, SignedOut
  <2> QED
    BY <2>1
<1>6. (I!Refusals(c, r)[5].if <=> NoProfile(c, r)) /\ I!Refusals(c, r)[5].answer = I!Answer(403, I!ProfileRefusal(c))
  <2>1. I!Refusals(c, r)[5] = [if |-> NoProfile(c, r), answer |-> I!Answer(403, I!ProfileRefusal(c))]
    BY DEF I!Refusals, NoProfile
  <2> QED
    BY <2>1
<1>7. (I!Refusals(c, r)[6].if <=> I!Invalid(r)) /\ I!Refusals(c, r)[6].answer = I!Answer(422, "VALIDATION_FAILED")
  <2>1. I!Refusals(c, r)[6] = [if |-> I!Invalid(r), answer |-> I!Answer(422, "VALIDATION_FAILED")]
    BY DEF I!Refusals
  <2> QED
    BY <2>1
<1>8. (I!Refusals(c, r)[7].if <=> TooSoon(c, r)) /\ I!Refusals(c, r)[7].answer = I!Answer(429, "OTP_COOLDOWN")
  <2>1. I!Refusals(c, r)[7] = [if |-> TooSoon(c, r), answer |-> I!Answer(429, "OTP_COOLDOWN")]
    BY DEF I!Refusals, TooSoon
  <2> QED
    BY <2>1
<1>9. (I!Refusals(c, r)[8].if <=> BadCode(c, r)) /\ I!Refusals(c, r)[8].answer = I!Answer(401, "OTP_INVALID")
  <2>1. I!Refusals(c, r)[8] = [if |-> BadCode(c, r), answer |-> I!Answer(401, "OTP_INVALID")]
    BY DEF I!Refusals, BadCode
  <2> QED
    BY <2>1
<1>10. (I!Refusals(c, r)[9].if <=> BadName(r)) /\ I!Refusals(c, r)[9].answer = I!Answer(422, "NICKNAME_INVALID")
  <2>1. I!Refusals(c, r)[9] = [if |-> BadName(r), answer |-> I!Answer(422, "NICKNAME_INVALID")]
    BY DEF I!Refusals, BadName
  <2> QED
    BY <2>1
<1>11. (I!Refusals(c, r)[10].if <=> BadVenue(r)) /\ I!Refusals(c, r)[10].answer = I!Answer(422, "CATALOGUE_UNKNOWN")
  <2>1. I!Refusals(c, r)[10] = [if |-> BadVenue(r), answer |-> I!Answer(422, "CATALOGUE_UNKNOWN")]
    BY DEF I!Refusals, BadVenue
  <2> QED
    BY <2>1
<1>12. (I!Refusals(c, r)[11].if <=> BadScan(r)) /\ I!Refusals(c, r)[11].answer = I!Answer(400, "CODE_MALFORMED")
  <2>1. I!Refusals(c, r)[11] = [if |-> BadScan(r), answer |-> I!Answer(400, "CODE_MALFORMED")]
    BY DEF I!Refusals, BadScan
  <2> QED
    BY <2>1
<1> QED
  BY <1>1, <1>2, <1>3, <1>4, <1>5, <1>6, <1>7, <1>8, <1>9, <1>10, <1>11, <1>12

\* How a call other than a preflight is answered: by the first refusal.
LEMMA Replied ==
  ASSUME NEW c, NEW r, r.method # "OPTIONS"
  PROVE  IF I!CsrfRejected(c, r) THEN I!Refused(c, r) /\ I!Reply(c, r) = I!Answer(403, "CSRF_REJECTED")
         ELSE IF Unknown(r) THEN I!Refused(c, r) /\ I!Reply(c, r) = I!Answer(404, "NOT_FOUND")
         ELSE IF WrongMethod(r) THEN I!Refused(c, r) /\ I!Reply(c, r) = I!Answer(405, "METHOD_NOT_ALLOWED")
         ELSE IF SignedOut(c, r) THEN I!Refused(c, r) /\ I!Reply(c, r) = I!Answer(401, "AUTH_REQUIRED")
         ELSE IF NoProfile(c, r) THEN I!Refused(c, r) /\ I!Reply(c, r) = I!Answer(403, I!ProfileRefusal(c))
         ELSE IF I!Invalid(r) THEN I!Refused(c, r) /\ I!Reply(c, r) = I!Answer(422, "VALIDATION_FAILED")
         ELSE IF TooSoon(c, r) THEN I!Refused(c, r) /\ I!Reply(c, r) = I!Answer(429, "OTP_COOLDOWN")
         ELSE IF BadCode(c, r) THEN I!Refused(c, r) /\ I!Reply(c, r) = I!Answer(401, "OTP_INVALID")
         ELSE IF BadName(r) THEN I!Refused(c, r) /\ I!Reply(c, r) = I!Answer(422, "NICKNAME_INVALID")
         ELSE IF BadVenue(r) THEN I!Refused(c, r) /\ I!Reply(c, r) = I!Answer(422, "CATALOGUE_UNKNOWN")
         ELSE IF BadScan(r) THEN I!Refused(c, r) /\ I!Reply(c, r) = I!Answer(400, "CODE_MALFORMED")
         ELSE ~I!Refused(c, r) /\ I!Reply(c, r) = I!Success(c, r)
<1> DEFINE s == I!Refusals(c, r)
<1>1. /\ DOMAIN s = 1..11
      /\ s[1].if <=> I!CsrfRejected(c, r)
      /\ s[2].if <=> Unknown(r)
      /\ s[3].if <=> WrongMethod(r)
      /\ s[4].if <=> SignedOut(c, r)
      /\ s[5].if <=> NoProfile(c, r)
      /\ s[6].if <=> I!Invalid(r)
      /\ s[7].if <=> TooSoon(c, r)
      /\ s[8].if <=> BadCode(c, r)
      /\ s[9].if <=> BadName(r)
      /\ s[10].if <=> BadVenue(r)
      /\ s[11].if <=> BadScan(r)
  BY RefusalsAre
<1>2. /\ s[1].answer = I!Answer(403, "CSRF_REJECTED")
      /\ s[2].answer = I!Answer(404, "NOT_FOUND")
      /\ s[3].answer = I!Answer(405, "METHOD_NOT_ALLOWED")
      /\ s[4].answer = I!Answer(401, "AUTH_REQUIRED")
      /\ s[5].answer = I!Answer(403, I!ProfileRefusal(c))
      /\ s[6].answer = I!Answer(422, "VALIDATION_FAILED")
      /\ s[7].answer = I!Answer(429, "OTP_COOLDOWN")
      /\ s[8].answer = I!Answer(401, "OTP_INVALID")
      /\ s[9].answer = I!Answer(422, "NICKNAME_INVALID")
      /\ s[10].answer = I!Answer(422, "CATALOGUE_UNKNOWN")
      /\ s[11].answer = I!Answer(400, "CODE_MALFORMED")
  BY RefusalsAre
<1> DEFINE first == CHOOSE n \in DOMAIN s : s[n].if /\ \A m \in 1..(n - 1) : ~s[m].if
<1>3. I!Reply(c, r) = IF I!Refused(c, r) THEN s[first].answer ELSE I!Success(c, r)
  BY DEF I!Reply
<1>4. \A k \in 1..11 : s[k].if => I!Refused(c, r)
  BY <1>1 DEF I!Refused
<1>5. I!Refused(c, r) => \E k \in 1..11 : s[k].if
  BY <1>1 DEF I!Refused
<1> HIDE DEF s
<1>6. \A k \in 1..11 : s[k].if /\ (\A m \in 1..(k - 1) : ~s[m].if) => first = k
  BY <1>1, FirstApplies
<1> HIDE DEF first
<1>7. \A k \in 1..11 : s[k].if /\ (\A m \in 1..(k - 1) : ~s[m].if)
                        => I!Refused(c, r) /\ I!Reply(c, r) = s[k].answer
  BY <1>3, <1>4, <1>6
<1>8. ASSUME I!CsrfRejected(c, r)
      PROVE  I!Refused(c, r) /\ I!Reply(c, r) = I!Answer(403, "CSRF_REJECTED")
  BY <1>1, <1>2, <1>7, <1>8
<1>9. ASSUME ~I!CsrfRejected(c, r), Unknown(r)
      PROVE  I!Refused(c, r) /\ I!Reply(c, r) = I!Answer(404, "NOT_FOUND")
  <2>1. \A m \in 1..(2 - 1) : ~s[m].if
    BY <1>1, <1>9
  <2> QED
    BY <1>1, <1>2, <1>7, <1>9, <2>1
<1>10. ASSUME ~I!CsrfRejected(c, r), ~Unknown(r), WrongMethod(r)
      PROVE  I!Refused(c, r) /\ I!Reply(c, r) = I!Answer(405, "METHOD_NOT_ALLOWED")
  <2>1. \A m \in 1..(3 - 1) : ~s[m].if
    BY <1>1, <1>10
  <2> QED
    BY <1>1, <1>2, <1>7, <1>10, <2>1
<1>11. ASSUME ~I!CsrfRejected(c, r), ~Unknown(r), ~WrongMethod(r), SignedOut(c, r)
      PROVE  I!Refused(c, r) /\ I!Reply(c, r) = I!Answer(401, "AUTH_REQUIRED")
  <2>1. \A m \in 1..(4 - 1) : ~s[m].if
    BY <1>1, <1>11
  <2> QED
    BY <1>1, <1>2, <1>7, <1>11, <2>1
<1>12. ASSUME ~I!CsrfRejected(c, r), ~Unknown(r), ~WrongMethod(r), ~SignedOut(c, r), NoProfile(c, r)
      PROVE  I!Refused(c, r) /\ I!Reply(c, r) = I!Answer(403, I!ProfileRefusal(c))
  <2>1. \A m \in 1..(5 - 1) : ~s[m].if
    BY <1>1, <1>12
  <2> QED
    BY <1>1, <1>2, <1>7, <1>12, <2>1
<1>13. ASSUME ~I!CsrfRejected(c, r), ~Unknown(r), ~WrongMethod(r), ~SignedOut(c, r), ~NoProfile(c, r), I!Invalid(r)
      PROVE  I!Refused(c, r) /\ I!Reply(c, r) = I!Answer(422, "VALIDATION_FAILED")
  <2>1. \A m \in 1..(6 - 1) : ~s[m].if
    BY <1>1, <1>13
  <2> QED
    BY <1>1, <1>2, <1>7, <1>13, <2>1
<1>14. ASSUME ~I!CsrfRejected(c, r), ~Unknown(r), ~WrongMethod(r), ~SignedOut(c, r), ~NoProfile(c, r), ~I!Invalid(r), TooSoon(c, r)
      PROVE  I!Refused(c, r) /\ I!Reply(c, r) = I!Answer(429, "OTP_COOLDOWN")
  <2>1. \A m \in 1..(7 - 1) : ~s[m].if
    BY <1>1, <1>14
  <2> QED
    BY <1>1, <1>2, <1>7, <1>14, <2>1
<1>15. ASSUME ~I!CsrfRejected(c, r), ~Unknown(r), ~WrongMethod(r), ~SignedOut(c, r), ~NoProfile(c, r), ~I!Invalid(r), ~TooSoon(c, r), BadCode(c, r)
      PROVE  I!Refused(c, r) /\ I!Reply(c, r) = I!Answer(401, "OTP_INVALID")
  <2>1. \A m \in 1..(8 - 1) : ~s[m].if
    BY <1>1, <1>15
  <2> QED
    BY <1>1, <1>2, <1>7, <1>15, <2>1
<1>16. ASSUME ~I!CsrfRejected(c, r), ~Unknown(r), ~WrongMethod(r), ~SignedOut(c, r), ~NoProfile(c, r), ~I!Invalid(r), ~TooSoon(c, r), ~BadCode(c, r), BadName(r)
      PROVE  I!Refused(c, r) /\ I!Reply(c, r) = I!Answer(422, "NICKNAME_INVALID")
  <2>1. \A m \in 1..(9 - 1) : ~s[m].if
    BY <1>1, <1>16
  <2> QED
    BY <1>1, <1>2, <1>7, <1>16, <2>1
<1>17. ASSUME ~I!CsrfRejected(c, r), ~Unknown(r), ~WrongMethod(r), ~SignedOut(c, r), ~NoProfile(c, r), ~I!Invalid(r), ~TooSoon(c, r), ~BadCode(c, r), ~BadName(r), BadVenue(r)
      PROVE  I!Refused(c, r) /\ I!Reply(c, r) = I!Answer(422, "CATALOGUE_UNKNOWN")
  <2>1. \A m \in 1..(10 - 1) : ~s[m].if
    BY <1>1, <1>17
  <2> QED
    BY <1>1, <1>2, <1>7, <1>17, <2>1
<1>18. ASSUME ~I!CsrfRejected(c, r), ~Unknown(r), ~WrongMethod(r), ~SignedOut(c, r), ~NoProfile(c, r), ~I!Invalid(r), ~TooSoon(c, r), ~BadCode(c, r), ~BadName(r), ~BadVenue(r), BadScan(r)
      PROVE  I!Refused(c, r) /\ I!Reply(c, r) = I!Answer(400, "CODE_MALFORMED")
  <2>1. \A m \in 1..(11 - 1) : ~s[m].if
    BY <1>1, <1>18
  <2> QED
    BY <1>1, <1>2, <1>7, <1>18, <2>1
<1> QED
  BY <1>1, <1>3, <1>5, <1>8, <1>9, <1>10, <1>11, <1>12, <1>13, <1>14, <1>15, <1>16, <1>17, <1>18

-----------------------------------------------------------------------------
(* Types                                                                   *)

Otp == [state : {"none", "sent", "used"}, recent : BOOLEAN, attempts : 0..apMaxAttempts]
Profile == [terms : BOOLEAN, nickname : BOOLEAN, venue : BOOLEAN, redeemed : BOOLEAN, coins : Nat]

\* Who is signed in has been sent a code, and who has redeemed one had a
\* complete profile.
ApiInv ==
  /\ apDeployment \in [termsRequired : BOOLEAN, testNumbers : BOOLEAN, venues : BOOLEAN,
                       code : BOOLEAN]
  /\ apJar \in [I!Clients -> BOOLEAN]
  /\ apOtp \in [I!Clients -> Otp]
  /\ apUsers \in [I!Clients -> Profile]
  /\ apWalk \in [at : 1..29, failed : SUBSET (1..28), balance : Nat]
  /\ \A c \in I!Clients :
       /\ apJar[c] => apOtp[c].state # "none"
       /\ apUsers[c].redeemed => I!Complete(c) /\ apOtp[c].state # "none"

LEMMA WalkIsLong == Len(I!Walk) = 28 /\ DOMAIN I!Walk = 1..28 /\ I!Walked = 29
  BY DEF I!Walk, I!Walked

LEMMA ApiInit == I!Init => ApiInv
<1> SUFFICES ASSUME I!Init PROVE ApiInv
  OBVIOUS
<1> QED
  BY ApiNumbers DEF I!Init, ApiInv, Otp, Profile

\* A profile only fills up, and only a redemption marks it as redeemed.
LEMMA ProfileGrows ==
  ASSUME ApiInv, NEW c \in I!Clients, NEW r
  PROVE  /\ I!User(c, r) \in Profile
         /\ apUsers[c].terms => I!User(c, r).terms
         /\ apUsers[c].nickname => I!User(c, r).nickname
         /\ I!User(c, r).redeemed => apUsers[c].redeemed \/ r.path = "/redemptions"
         /\ r.method # "PATCH" /\ r.path # "/redemptions" => I!User(c, r) = apUsers[c]
<1>1. PICK u \in Profile : u = apUsers[c]
  BY DEF ApiInv
<1>2. PICK n \in Nat : n = u.coins + apCodeCoins + apBonus
  BY ApiNumbers DEF Profile
<1> DEFINE Grown(w) == /\ w \in Profile /\ (u.terms => w.terms) /\ (u.nickname => w.nickname)
                       /\ w.redeemed => u.redeemed \/ r.path = "/redemptions"
<1>3. /\ Grown([u EXCEPT !.nickname = TRUE, !.terms = TRUE])
      /\ Grown([u EXCEPT !.nickname = TRUE])
      /\ Grown([u EXCEPT !.terms = TRUE])
      /\ Grown([u EXCEPT !.venue = TRUE])
      /\ r.path = "/redemptions" => Grown([u EXCEPT !.redeemed = TRUE, !.coins = n])
      /\ Grown(u)
  BY DEF Profile
<1> HIDE DEF Grown
<1>4. \/ I!User(c, r) = [u EXCEPT !.nickname = TRUE, !.terms = TRUE]
      \/ I!User(c, r) = [u EXCEPT !.nickname = TRUE]
      \/ I!User(c, r) = [u EXCEPT !.terms = TRUE]
      \/ I!User(c, r) = [u EXCEPT !.venue = TRUE]
      \/ r.path = "/redemptions" /\ I!User(c, r) = [u EXCEPT !.redeemed = TRUE, !.coins = n]
      \/ I!User(c, r) = u
  BY <1>1, <1>2 DEF I!User, I!Pays
<1>5. r.method # "PATCH" /\ r.path # "/redemptions" => I!User(c, r) = u
  BY <1>1 DEF I!User, I!Pays
<1>6. Grown(I!User(c, r))
  BY <1>3, <1>4
<1> QED
  BY <1>1, <1>5, <1>6 DEF Grown

\* What one call of a client does to what is known of it, and to nobody else.
LEMMA HandleStep ==
  ASSUME ApiInv, NEW c \in I!Clients, NEW r, I!Handle(c, r), UNCHANGED apDeployment,
         apWalk' \in [at : 1..29, failed : SUBSET (1..28), balance : Nat]
  PROVE  /\ ApiInv'
         /\ \A d \in I!Clients \ {c} :
              apJar'[d] = apJar[d] /\ apOtp'[d] = apOtp[d] /\ apUsers'[d] = apUsers[d]
<1>1. CASE UNCHANGED <<apJar, apOtp, apUsers>>
  BY <1>1 DEF ApiInv, I!Complete
<1>2. CASE /\ apOtp' = [apOtp EXCEPT ![c].attempts =
                          IF apOtp[c].state = "sent" /\ @ < apMaxAttempts THEN @ + 1 ELSE @]
           /\ UNCHANGED <<apJar, apUsers>>
  <2>1. PICK o \in Otp : o = apOtp[c]
    BY DEF ApiInv
  <2>2. PICK n \in 0..apMaxAttempts :
          n = IF o.state = "sent" /\ o.attempts < apMaxAttempts THEN o.attempts + 1 ELSE o.attempts
    BY <2>1, ApiNumbers DEF Otp
  <2>3. apOtp' = [apOtp EXCEPT ![c] = [o EXCEPT !.attempts = n]]
    BY <1>2, <2>1, <2>2 DEF ApiInv
  <2>4. [o EXCEPT !.attempts = n] \in Otp /\ [o EXCEPT !.attempts = n].state = o.state
    BY <2>1, <2>2 DEF Otp
  <2>5. apOtp' \in [I!Clients -> Otp] /\ \A d \in I!Clients : apOtp'[d].state = apOtp[d].state
        /\ (d # c => apOtp'[d] = apOtp[d])
    BY <2>1, <2>3, <2>4 DEF ApiInv
  <2> QED
    BY <1>2, <2>5 DEF ApiInv, I!Complete
<1>3. CASE /\ r.method # "OPTIONS" /\ ~I!Refused(c, r)
           /\ apJar' = [apJar EXCEPT ![c] = I!Cookie(c, r)]
           /\ apOtp' = [apOtp EXCEPT ![c] = I!NewOtp(c, r)]
           /\ apUsers' = [apUsers EXCEPT ![c] = I!User(c, r)]
  <2>1. ~SignedOut(c, r) /\ ~NoProfile(c, r) /\ ~BadCode(c, r)
    BY <1>3, Replied
  <2>2. PICK o \in Otp : o = apOtp[c]
    BY DEF ApiInv
  <2>3. /\ I!NewOtp(c, r) \in Otp
        /\ I!NewOtp(c, r).state = "none" => o.state = "none" /\ r.path # "/auth/verify"
    BY <2>2, ApiNumbers DEF I!NewOtp, Otp
  <2>4. I!Cookie(c, r) \in BOOLEAN /\ (I!Cookie(c, r) => r.path = "/auth/verify" \/ apJar[c])
    BY DEF I!Cookie
  <2>5. PICK u \in Profile : u = I!User(c, r)
    BY ProfileGrows
  <2>6. u.redeemed => /\ apDeployment.termsRequired => u.terms
                      /\ u.nickname /\ o.state # "none"
    BY <2>1, <2>2, <2>5, ProfileGrows DEF ApiInv, SignedOut, NoProfile, I!Gated, I!Complete
  <2>7. /\ apJar' \in [I!Clients -> BOOLEAN] /\ apOtp' \in [I!Clients -> Otp]
        /\ apUsers' \in [I!Clients -> Profile]
        /\ apJar'[c] = I!Cookie(c, r) /\ apOtp'[c] = I!NewOtp(c, r) /\ apUsers'[c] = u
        /\ \A d \in I!Clients \ {c} :
              apJar'[d] = apJar[d] /\ apOtp'[d] = apOtp[d] /\ apUsers'[d] = apUsers[d]
    BY <1>3, <2>3, <2>4, <2>5 DEF ApiInv
  <2>8. /\ apJar'[c] => apOtp'[c].state # "none"
        /\ apUsers'[c].redeemed => I!Complete(c)' /\ apOtp'[c].state # "none"
    BY <2>2, <2>3, <2>4, <2>6, <2>7 DEF ApiInv, I!Complete
  <2>9. \A d \in I!Clients \ {c} :
          /\ apJar'[d] => apOtp'[d].state # "none"
          /\ apUsers'[d].redeemed => I!Complete(d)' /\ apOtp'[d].state # "none"
    BY <2>7 DEF ApiInv, I!Complete
  <2> QED
    BY <2>7, <2>8, <2>9 DEF ApiInv
<1> QED
  BY <1>1, <1>2, <1>3 DEF I!Handle

LEMMA ElapseStep ==
  ASSUME ApiInv, NEW c \in I!Clients, I!Elapse(c)
  PROVE  ApiInv'
<1>1. PICK o \in Otp : o = apOtp[c]
  BY DEF ApiInv
<1>2. apOtp' = [apOtp EXCEPT ![c] = [o EXCEPT !.recent = FALSE]]
  BY <1>1 DEF I!Elapse, ApiInv
<1>3. [o EXCEPT !.recent = FALSE] \in Otp /\ [o EXCEPT !.recent = FALSE].state = o.state
  BY <1>1 DEF Otp
<1>4. apOtp' \in [I!Clients -> Otp] /\ \A d \in I!Clients : apOtp'[d].state = apOtp[d].state
  BY <1>1, <1>2, <1>3 DEF ApiInv
<1> QED
  BY <1>4 DEF I!Elapse, ApiInv, I!Complete

-----------------------------------------------------------------------------
(* The script's walk                                                       *)

LEMMA Routes ==
  /\ I!Paths = {"/health", "/ready", "/config", "/me", "/me/wallet", "/auth/request",
                "/auth/verify", "/auth/logout", "/redemptions"}
  /\ \A p \in {"/health", "/ready", "/config", "/me/wallet"} : I!MethodsOf(p) = {"GET"}
  /\ I!MethodsOf("/me") = {"GET", "PATCH"}
  /\ \A p \in {"/auth/request", "/auth/verify", "/auth/logout", "/redemptions"} :
       I!MethodsOf(p) = {"POST"}
  BY DEF I!Paths, I!Methods, I!Posts, I!MethodsOf

LEMMA AnswerIs ==
  \A status, code :
    /\ I!Answer(status, code).status = status /\ I!Answer(status, code).code = code
    /\ I!Answer(status, code).coins = 0
  BY DEF I!Answer

LEMMA StepIs ==
  \A call, statuses, codes :
    /\ I!Step(call, statuses, codes).call = call
    /\ I!Step(call, statuses, codes).statuses = statuses
    /\ I!Step(call, statuses, codes).codes = codes
  BY DEF I!Step

\* The script's calls and what it expects, one by one.
LEMMA WalkIs ==
  /\ I!Walk[1] = I!Step(I!Get("/health"), {200}, I!Any)
  /\ I!Walk[2] = I!Step(I!Get("/ready"), {200}, I!Any)
  /\ I!Walk[3] = I!Step(I!Get("/config"), {200}, I!Any)
  /\ I!Walk[4] = I!Step(I!Preflight("front"), {200}, {"allowed"})
  /\ I!Walk[5] = I!Step(I!Preflight("local"), {200}, {"allowed"})
  /\ I!Walk[6] = I!Step(I!Preflight("evil"), {200, 400}, {"not_allowed"})
  /\ I!Walk[7] = I!Step(I!Get("/nope"), {404}, {"NOT_FOUND"})
  /\ I!Walk[8] = I!Step(I!Post("/auth/request", "empty"), {422}, {"VALIDATION_FAILED"})
  /\ I!Walk[9] = I!Step(I!Call("DELETE", "/config", FALSE, "front", "none"), {405}, {"METHOD_NOT_ALLOWED"})
  /\ I!Walk[10] = I!Step(I!Get("/me"), {401}, {"AUTH_REQUIRED"})
  /\ I!Walk[11] = I!Step(I!Post("/auth/request", "phone"), {202}, {"test_code"})
  /\ I!Walk[12] = I!Step(I!Post("/auth/verify", "wrong"), {401}, {"OTP_INVALID"})
  /\ I!Walk[13] = I!Step(I!Post("/auth/verify", "right"), {200}, I!Any)
  /\ I!Walk[14] = I!Step(I!Call("POST", "/auth/verify", TRUE, "front", "right"), {401}, {"OTP_INVALID"})
  /\ I!Walk[15] = I!Step(I!Get("/me"), {200}, {"incomplete"})
  /\ I!Walk[16] = I!Step(I!Call("PATCH", "/me", FALSE, "front", "none"), {403}, {"CSRF_REJECTED"})
  /\ I!Walk[17] = I!Step(I!Call("PATCH", "/me", TRUE, "evil", "none"), {403}, {"CSRF_REJECTED"})
  /\ I!Walk[18] = I!Step(I!Redeem(IF apDeployment.code THEN "code" ELSE "hello"), {403}, {"TERMS_NOT_ACCEPTED", "PROFILE_INCOMPLETE"})
  /\ I!Walk[19] = I!Step(I!Patch("complete"), {200}, {"complete"})
  /\ I!Walk[20] = I!Step(I!Patch("venue"), {200}, I!Any)
  /\ I!Walk[21] = I!Step(I!Patch("bad_venue"), {422}, {"CATALOGUE_UNKNOWN"})
  /\ I!Walk[22] = I!Step(I!Patch("bad_nickname"), {422}, {"NICKNAME_INVALID"})
  /\ I!Walk[23] = I!Step(I!Redeem("hello"), {400}, {"CODE_MALFORMED"})
  /\ I!Walk[24] = I!Step(I!Redeem("code"), {200}, {"first"})
  /\ I!Walk[25] = I!Step(I!Redeem("code"), {200}, {"replayed"})
  /\ I!Walk[26] = I!Step(I!Get("/me/wallet"), {200}, I!Any)
  /\ I!Walk[27] = I!Step(I!Call("POST", "/auth/logout", TRUE, "front", "none"), {204}, I!Any)
  /\ I!Walk[28] = I!Step(I!Get("/me"), {401}, {"AUTH_REQUIRED"})
<1>1. I!Walk[1] = I!Step(I!Get("/health"), {200}, I!Any)
  BY DEF I!Walk
<1>2. I!Walk[2] = I!Step(I!Get("/ready"), {200}, I!Any)
  BY DEF I!Walk
<1>3. I!Walk[3] = I!Step(I!Get("/config"), {200}, I!Any)
  BY DEF I!Walk
<1>4. I!Walk[4] = I!Step(I!Preflight("front"), {200}, {"allowed"})
  BY DEF I!Walk
<1>5. I!Walk[5] = I!Step(I!Preflight("local"), {200}, {"allowed"})
  BY DEF I!Walk
<1>6. I!Walk[6] = I!Step(I!Preflight("evil"), {200, 400}, {"not_allowed"})
  BY DEF I!Walk
<1>7. I!Walk[7] = I!Step(I!Get("/nope"), {404}, {"NOT_FOUND"})
  BY DEF I!Walk
<1>8. I!Walk[8] = I!Step(I!Post("/auth/request", "empty"), {422}, {"VALIDATION_FAILED"})
  BY DEF I!Walk
<1>9. I!Walk[9] = I!Step(I!Call("DELETE", "/config", FALSE, "front", "none"), {405}, {"METHOD_NOT_ALLOWED"})
  BY DEF I!Walk
<1>10. I!Walk[10] = I!Step(I!Get("/me"), {401}, {"AUTH_REQUIRED"})
  BY DEF I!Walk
<1>11. I!Walk[11] = I!Step(I!Post("/auth/request", "phone"), {202}, {"test_code"})
  BY DEF I!Walk
<1>12. I!Walk[12] = I!Step(I!Post("/auth/verify", "wrong"), {401}, {"OTP_INVALID"})
  BY DEF I!Walk
<1>13. I!Walk[13] = I!Step(I!Post("/auth/verify", "right"), {200}, I!Any)
  BY DEF I!Walk
<1>14. I!Walk[14] = I!Step(I!Call("POST", "/auth/verify", TRUE, "front", "right"), {401}, {"OTP_INVALID"})
  BY DEF I!Walk
<1>15. I!Walk[15] = I!Step(I!Get("/me"), {200}, {"incomplete"})
  BY DEF I!Walk
<1>16. I!Walk[16] = I!Step(I!Call("PATCH", "/me", FALSE, "front", "none"), {403}, {"CSRF_REJECTED"})
  BY DEF I!Walk
<1>17. I!Walk[17] = I!Step(I!Call("PATCH", "/me", TRUE, "evil", "none"), {403}, {"CSRF_REJECTED"})
  BY DEF I!Walk
<1>18. I!Walk[18] = I!Step(I!Redeem(IF apDeployment.code THEN "code" ELSE "hello"), {403}, {"TERMS_NOT_ACCEPTED", "PROFILE_INCOMPLETE"})
  BY DEF I!Walk
<1>19. I!Walk[19] = I!Step(I!Patch("complete"), {200}, {"complete"})
  BY DEF I!Walk
<1>20. I!Walk[20] = I!Step(I!Patch("venue"), {200}, I!Any)
  BY DEF I!Walk
<1>21. I!Walk[21] = I!Step(I!Patch("bad_venue"), {422}, {"CATALOGUE_UNKNOWN"})
  BY DEF I!Walk
<1>22. I!Walk[22] = I!Step(I!Patch("bad_nickname"), {422}, {"NICKNAME_INVALID"})
  BY DEF I!Walk
<1>23. I!Walk[23] = I!Step(I!Redeem("hello"), {400}, {"CODE_MALFORMED"})
  BY DEF I!Walk
<1>24. I!Walk[24] = I!Step(I!Redeem("code"), {200}, {"first"})
  BY DEF I!Walk
<1>25. I!Walk[25] = I!Step(I!Redeem("code"), {200}, {"replayed"})
  BY DEF I!Walk
<1>26. I!Walk[26] = I!Step(I!Get("/me/wallet"), {200}, I!Any)
  BY DEF I!Walk
<1>27. I!Walk[27] = I!Step(I!Call("POST", "/auth/logout", TRUE, "front", "none"), {204}, I!Any)
  BY DEF I!Walk
<1>28. I!Walk[28] = I!Step(I!Get("/me"), {401}, {"AUTH_REQUIRED"})
  BY DEF I!Walk
<1> QED
  BY <1>1, <1>2, <1>3, <1>4, <1>5, <1>6, <1>7, <1>8, <1>9, <1>10, <1>11, <1>12, <1>13, <1>14, <1>15, <1>16, <1>17, <1>18, <1>19, <1>20, <1>21, <1>22, <1>23, <1>24, <1>25, <1>26, <1>27, <1>28, ZenonT(40)

\* The calls alone.
LEMMA CallsAre ==
  /\ I!Walk[1].call = I!Get("/health")
  /\ I!Walk[2].call = I!Get("/ready")
  /\ I!Walk[3].call = I!Get("/config")
  /\ I!Walk[4].call = I!Preflight("front")
  /\ I!Walk[5].call = I!Preflight("local")
  /\ I!Walk[6].call = I!Preflight("evil")
  /\ I!Walk[7].call = I!Get("/nope")
  /\ I!Walk[8].call = I!Post("/auth/request", "empty")
  /\ I!Walk[9].call = I!Call("DELETE", "/config", FALSE, "front", "none")
  /\ I!Walk[10].call = I!Get("/me")
  /\ I!Walk[11].call = I!Post("/auth/request", "phone")
  /\ I!Walk[12].call = I!Post("/auth/verify", "wrong")
  /\ I!Walk[13].call = I!Post("/auth/verify", "right")
  /\ I!Walk[14].call = I!Call("POST", "/auth/verify", TRUE, "front", "right")
  /\ I!Walk[15].call = I!Get("/me")
  /\ I!Walk[16].call = I!Call("PATCH", "/me", FALSE, "front", "none")
  /\ I!Walk[17].call = I!Call("PATCH", "/me", TRUE, "evil", "none")
  /\ I!Walk[18].call = I!Redeem(IF apDeployment.code THEN "code" ELSE "hello")
  /\ I!Walk[19].call = I!Patch("complete")
  /\ I!Walk[20].call = I!Patch("venue")
  /\ I!Walk[21].call = I!Patch("bad_venue")
  /\ I!Walk[22].call = I!Patch("bad_nickname")
  /\ I!Walk[23].call = I!Redeem("hello")
  /\ I!Walk[24].call = I!Redeem("code")
  /\ I!Walk[25].call = I!Redeem("code")
  /\ I!Walk[26].call = I!Get("/me/wallet")
  /\ I!Walk[27].call = I!Call("POST", "/auth/logout", TRUE, "front", "none")
  /\ I!Walk[28].call = I!Get("/me")
<1>1. I!Walk[1].call = I!Get("/health")
  BY WalkIs DEF I!Step
<1>2. I!Walk[2].call = I!Get("/ready")
  BY WalkIs DEF I!Step
<1>3. I!Walk[3].call = I!Get("/config")
  BY WalkIs DEF I!Step
<1>4. I!Walk[4].call = I!Preflight("front")
  BY WalkIs DEF I!Step
<1>5. I!Walk[5].call = I!Preflight("local")
  BY WalkIs DEF I!Step
<1>6. I!Walk[6].call = I!Preflight("evil")
  BY WalkIs DEF I!Step
<1>7. I!Walk[7].call = I!Get("/nope")
  BY WalkIs DEF I!Step
<1>8. I!Walk[8].call = I!Post("/auth/request", "empty")
  BY WalkIs DEF I!Step
<1>9. I!Walk[9].call = I!Call("DELETE", "/config", FALSE, "front", "none")
  BY WalkIs DEF I!Step
<1>10. I!Walk[10].call = I!Get("/me")
  BY WalkIs DEF I!Step
<1>11. I!Walk[11].call = I!Post("/auth/request", "phone")
  BY WalkIs DEF I!Step
<1>12. I!Walk[12].call = I!Post("/auth/verify", "wrong")
  BY WalkIs DEF I!Step
<1>13. I!Walk[13].call = I!Post("/auth/verify", "right")
  BY WalkIs DEF I!Step
<1>14. I!Walk[14].call = I!Call("POST", "/auth/verify", TRUE, "front", "right")
  BY WalkIs DEF I!Step
<1>15. I!Walk[15].call = I!Get("/me")
  BY WalkIs DEF I!Step
<1>16. I!Walk[16].call = I!Call("PATCH", "/me", FALSE, "front", "none")
  BY WalkIs DEF I!Step
<1>17. I!Walk[17].call = I!Call("PATCH", "/me", TRUE, "evil", "none")
  BY WalkIs DEF I!Step
<1>18. I!Walk[18].call = I!Redeem(IF apDeployment.code THEN "code" ELSE "hello")
  BY WalkIs DEF I!Step
<1>19. I!Walk[19].call = I!Patch("complete")
  BY WalkIs DEF I!Step
<1>20. I!Walk[20].call = I!Patch("venue")
  BY WalkIs DEF I!Step
<1>21. I!Walk[21].call = I!Patch("bad_venue")
  BY WalkIs DEF I!Step
<1>22. I!Walk[22].call = I!Patch("bad_nickname")
  BY WalkIs DEF I!Step
<1>23. I!Walk[23].call = I!Redeem("hello")
  BY WalkIs DEF I!Step
<1>24. I!Walk[24].call = I!Redeem("code")
  BY WalkIs DEF I!Step
<1>25. I!Walk[25].call = I!Redeem("code")
  BY WalkIs DEF I!Step
<1>26. I!Walk[26].call = I!Get("/me/wallet")
  BY WalkIs DEF I!Step
<1>27. I!Walk[27].call = I!Call("POST", "/auth/logout", TRUE, "front", "none")
  BY WalkIs DEF I!Step
<1>28. I!Walk[28].call = I!Get("/me")
  BY WalkIs DEF I!Step
<1> QED
  BY <1>1, <1>2, <1>3, <1>4, <1>5, <1>6, <1>7, <1>8, <1>9, <1>10, <1>11, <1>12, <1>13, <1>14, <1>15, <1>16, <1>17, <1>18, <1>19, <1>20, <1>21, <1>22, <1>23, <1>24, <1>25, <1>26, <1>27, <1>28

\* Where the script is tells what the server knows of its account.
SmokeInv ==
  LET n == apWalk.at
      o == apOtp[apSmoke]
      u == apUsers[apSmoke]
      tests == apDeployment.testNumbers IN
  /\ tests \/ n <= 11 => apWalk.failed = {}
  /\ ~tests /\ n > 11 => n = 29 /\ apWalk.failed = {11}
  /\ apWalk.balance = u.coins
  /\ n <= 11 => o.state = "none" /\ ~o.recent
  /\ tests /\ n = 12 => o.state = "sent" /\ o.attempts = 0
  /\ tests /\ n = 13 => o.state = "sent" /\ o.attempts = 1
  /\ tests /\ n > 13 => o.state = "used"
  /\ apJar[apSmoke] <=> tests /\ n > 13 /\ n < 28
  /\ n <= 19 => ~u.terms /\ ~u.nickname
  /\ tests /\ n > 19 => u.terms /\ u.nickname
  /\ n <= 24 => ~u.redeemed
  /\ tests /\ apDeployment.code /\ n > 24 => u.redeemed

LEMMA SmokeInit == I!Init => SmokeInv
  BY DEF I!Init, SmokeInv, I!Clients

\* A step that leaves the account alone.
LEMMA SmokeQuiet ==
  ASSUME ApiInv, SmokeInv, UNCHANGED apDeployment,
         apJar'[apSmoke] = apJar[apSmoke], apOtp'[apSmoke] = apOtp[apSmoke],
         apUsers'[apSmoke] = apUsers[apSmoke],
         apWalk'.at = apWalk.at + 1, apWalk'.failed = apWalk.failed,
         apWalk'.balance = apWalk.balance,
         apWalk.at \notin {11, 12, 13, 19, 27, 29}, apWalk.at = 24 => ~apDeployment.code
  PROVE  SmokeInv'
  BY DEF ApiInv, SmokeInv

\* A call that leaves the account alone.
LEMMA QuietCall ==
  ASSUME ApiInv, NEW r, I!Handle(apSmoke, r),
         \/ r.method = "OPTIONS"
         \/ /\ I!Refused(apSmoke, r)
            /\ I!Reply(apSmoke, r).code = "OTP_INVALID" => apOtp[apSmoke].state = "used"
         \/ /\ r.path \notin {"/auth/request", "/auth/verify", "/auth/logout"}
            /\ I!Reply(apSmoke, r).code # "OTP_INVALID"
            /\ I!User(apSmoke, r) = apUsers[apSmoke]
  PROVE  /\ apJar'[apSmoke] = apJar[apSmoke] /\ apOtp'[apSmoke] = apOtp[apSmoke]
         /\ apUsers'[apSmoke] = apUsers[apSmoke]
<1>1. apSmoke \in I!Clients
  BY DEF I!Clients
<1>2. CASE UNCHANGED <<apJar, apOtp, apUsers>>
  BY <1>2
<1>3. CASE /\ r.path \notin {"/auth/request", "/auth/verify", "/auth/logout"}
           /\ I!User(apSmoke, r) = apUsers[apSmoke]
           /\ apJar' = [apJar EXCEPT ![apSmoke] = I!Cookie(apSmoke, r)]
           /\ apOtp' = [apOtp EXCEPT ![apSmoke] = I!NewOtp(apSmoke, r)]
           /\ apUsers' = [apUsers EXCEPT ![apSmoke] = I!User(apSmoke, r)]
  <2>1. I!NewOtp(apSmoke, r) = apOtp[apSmoke]
    BY <1>3 DEF I!NewOtp
  <2>2. I!Cookie(apSmoke, r) = apJar[apSmoke]
    BY <1>1, <1>3 DEF I!Cookie, ApiInv
  <2> QED
    BY <1>1, <1>3, <2>1, <2>2 DEF ApiInv
<1>4. CASE /\ I!Reply(apSmoke, r).code = "OTP_INVALID" /\ apOtp[apSmoke].state = "used"
           /\ apOtp' = [apOtp EXCEPT ![apSmoke].attempts =
                          IF apOtp[apSmoke].state = "sent" /\ @ < apMaxAttempts THEN @ + 1 ELSE @]
           /\ UNCHANGED <<apJar, apUsers>>
  <2>1. PICK o \in Otp : o = apOtp[apSmoke]
    BY <1>1 DEF ApiInv
  <2>2. apOtp' = [apOtp EXCEPT ![apSmoke] = [o EXCEPT !.attempts = o.attempts]]
    BY <1>1, <1>4, <2>1 DEF ApiInv
  <2>3. [o EXCEPT !.attempts = o.attempts] = o
    BY <2>1 DEF Otp
  <2> QED
    BY <1>1, <1>4, <2>1, <2>2, <2>3 DEF ApiInv
<1> QED
  BY <1>2, <1>3, <1>4 DEF I!Handle

\* What a call of the script does to the script.
LEMMA SmokeCall ==
  ASSUME ApiInv, I!TakeStep, ~I!Skipped(apWalk.at), NEW call, NEW statuses, NEW codes,
         I!Walk[apWalk.at] = I!Step(call, statuses, codes),
         NEW reply, reply = I!Reply(apSmoke, call)
  PROVE  /\ I!Handle(apSmoke, call) /\ UNCHANGED apDeployment
         /\ apWalk'.at = IF reply.status = 202 /\ reply.code # "test_code" THEN 29
                         ELSE apWalk.at + 1
         /\ reply.status \in statuses /\ reply.code \in codes
            /\ (call.path = "/me/wallet" => reply.coins = apWalk.balance)
              => apWalk'.failed = apWalk.failed
         /\ ~(reply.status \in statuses /\ reply.code \in codes)
              => apWalk'.failed = apWalk.failed \cup {apWalk.at}
         /\ apWalk'.balance = IF reply.code = "first" THEN reply.coins ELSE apWalk.balance
<1>1. /\ I!Walk[apWalk.at].call = call /\ I!Walk[apWalk.at].statuses = statuses
      /\ I!Walk[apWalk.at].codes = codes
  BY StepIs
<1>2. apWalk' = [at |-> IF reply.status = 202 /\ reply.code # "test_code"
                       THEN I!Walked ELSE apWalk.at + 1,
                failed |-> apWalk.failed \cup
                  (IF /\ reply.status \in statuses /\ reply.code \in codes
                      /\ call.path = "/me/wallet" => reply.coins = apWalk.balance
                   THEN {} ELSE {apWalk.at}),
                balance |-> IF reply.code = "first" THEN reply.coins ELSE apWalk.balance]
  BY <1>1 DEF I!TakeStep
<1> QED
  BY <1>1, <1>2, WalkIsLong DEF I!TakeStep

\* A call that passes and leaves the account alone.
LEMMA SmokePasses ==
  ASSUME ApiInv, SmokeInv, I!TakeStep, ~I!Skipped(apWalk.at),
         NEW call, NEW statuses, NEW codes,
         I!Walk[apWalk.at] = I!Step(call, statuses, codes),
         NEW reply, reply = I!Reply(apSmoke, call),
         reply.status \in statuses, reply.code \in codes,
         call.path = "/me/wallet" => reply.coins = apWalk.balance,
         reply.status # 202, reply.code # "first",
         \/ call.method = "OPTIONS"
         \/ /\ I!Refused(apSmoke, call)
            /\ reply.code = "OTP_INVALID" => apOtp[apSmoke].state = "used"
         \/ /\ call.path \notin {"/auth/request", "/auth/verify", "/auth/logout"}
            /\ reply.code # "OTP_INVALID"
            /\ I!User(apSmoke, call) = apUsers[apSmoke],
         apWalk.at \notin {11, 12, 13, 19, 27, 29}, apWalk.at = 24 => ~apDeployment.code
  PROVE  SmokeInv'
<1>1. I!Handle(apSmoke, call) /\ UNCHANGED apDeployment
  BY SmokeCall
<1>2. apWalk'.at = apWalk.at + 1 /\ apWalk'.failed = apWalk.failed
      /\ apWalk'.balance = apWalk.balance
  BY SmokeCall
<1>3. /\ apJar'[apSmoke] = apJar[apSmoke] /\ apOtp'[apSmoke] = apOtp[apSmoke]
      /\ apUsers'[apSmoke] = apUsers[apSmoke]
  BY <1>1, QuietCall
<1> QED
  BY <1>1, <1>2, <1>3, SmokeQuiet

\* The steps before a code is asked for.
LEMMA SmokeBefore ==
  ASSUME ApiInv, SmokeInv, I!TakeStep, apWalk.at \in 1..10
  PROVE  SmokeInv'
<1>1. apSmoke \in I!Clients /\ ~apJar[apSmoke]
  BY DEF I!Clients, SmokeInv
<1>2. CASE apWalk.at = 1
  <2>1. PICK r : r = I!Get("/health")
    OBVIOUS
  <2>2. /\ r.method = "GET" /\ r.path = "/health" /\ r.csrf = FALSE
        /\ r.origin = "front" /\ r.body = "none"
    BY <2>1 DEF I!Get, I!Post, I!Patch, I!Redeem, I!Preflight, I!Call
  <2>3. I!Walk[1] = I!Step(r, {200}, I!Any)
    BY <2>1, WalkIs
  <2>4. ~I!Skipped(1)
    <3>1. I!Walk[1].call = r
      BY <2>3, StepIs
    <3> QED
      BY <2>2, <3>1 DEF I!Skipped
  <2>5. I!Reply(apSmoke, r) = I!Answer(200, "ok") /\ I!User(apSmoke, r) = apUsers[apSmoke]
    <3>1. I!Reply(apSmoke, r) = I!Success(apSmoke, r)
      BY <1>1, <2>2, Replied, Routes
      DEF I!CsrfRejected, I!Unsafe, Unknown, WrongMethod, SignedOut, I!Gated, NoProfile,
     I!Complete, I!Invalid, TooSoon, BadCode, I!WrongCode, BadName, BadVenue, BadScan
    <3> QED
      BY <2>2, <3>1 DEF I!Success, I!User, I!Pays
  <2>6. PICK reply : reply = I!Reply(apSmoke, r) /\ reply.status = 200 /\ reply.code = "ok"
    BY <2>5, AnswerIs
  <2> QED
    BY <1>2, <2>2, <2>3, <2>4, <2>5, <2>6, SmokePasses DEF I!Any
<1>3. CASE apWalk.at = 2
  <2>1. PICK r : r = I!Get("/ready")
    OBVIOUS
  <2>2. /\ r.method = "GET" /\ r.path = "/ready" /\ r.csrf = FALSE
        /\ r.origin = "front" /\ r.body = "none"
    BY <2>1 DEF I!Get, I!Post, I!Patch, I!Redeem, I!Preflight, I!Call
  <2>3. I!Walk[2] = I!Step(r, {200}, I!Any)
    BY <2>1, WalkIs
  <2>4. ~I!Skipped(2)
    <3>1. I!Walk[2].call = r
      BY <2>3, StepIs
    <3> QED
      BY <2>2, <3>1 DEF I!Skipped
  <2>5. I!Reply(apSmoke, r) = I!Answer(200, "ok") /\ I!User(apSmoke, r) = apUsers[apSmoke]
    <3>1. I!Reply(apSmoke, r) = I!Success(apSmoke, r)
      BY <1>1, <2>2, Replied, Routes
      DEF I!CsrfRejected, I!Unsafe, Unknown, WrongMethod, SignedOut, I!Gated, NoProfile,
     I!Complete, I!Invalid, TooSoon, BadCode, I!WrongCode, BadName, BadVenue, BadScan
    <3> QED
      BY <2>2, <3>1 DEF I!Success, I!User, I!Pays
  <2>6. PICK reply : reply = I!Reply(apSmoke, r) /\ reply.status = 200 /\ reply.code = "ok"
    BY <2>5, AnswerIs
  <2> QED
    BY <1>3, <2>2, <2>3, <2>4, <2>5, <2>6, SmokePasses DEF I!Any
<1>4. CASE apWalk.at = 3
  <2>1. PICK r : r = I!Get("/config")
    OBVIOUS
  <2>2. /\ r.method = "GET" /\ r.path = "/config" /\ r.csrf = FALSE
        /\ r.origin = "front" /\ r.body = "none"
    BY <2>1 DEF I!Get, I!Post, I!Patch, I!Redeem, I!Preflight, I!Call
  <2>3. I!Walk[3] = I!Step(r, {200}, I!Any)
    BY <2>1, WalkIs
  <2>4. ~I!Skipped(3)
    <3>1. I!Walk[3].call = r
      BY <2>3, StepIs
    <3> QED
      BY <2>2, <3>1 DEF I!Skipped
  <2>5. I!Reply(apSmoke, r) = I!Answer(200, "ok") /\ I!User(apSmoke, r) = apUsers[apSmoke]
    <3>1. I!Reply(apSmoke, r) = I!Success(apSmoke, r)
      BY <1>1, <2>2, Replied, Routes
      DEF I!CsrfRejected, I!Unsafe, Unknown, WrongMethod, SignedOut, I!Gated, NoProfile,
     I!Complete, I!Invalid, TooSoon, BadCode, I!WrongCode, BadName, BadVenue, BadScan
    <3> QED
      BY <2>2, <3>1 DEF I!Success, I!User, I!Pays
  <2>6. PICK reply : reply = I!Reply(apSmoke, r) /\ reply.status = 200 /\ reply.code = "ok"
    BY <2>5, AnswerIs
  <2> QED
    BY <1>4, <2>2, <2>3, <2>4, <2>5, <2>6, SmokePasses DEF I!Any
<1>5. CASE apWalk.at = 4
  <2>1. PICK r : r = I!Preflight("front")
    OBVIOUS
  <2>2. /\ r.method = "OPTIONS" /\ r.path = "/me" /\ r.csrf = FALSE
        /\ r.origin = "front" /\ r.body = "none"
    BY <2>1 DEF I!Get, I!Post, I!Patch, I!Redeem, I!Preflight, I!Call
  <2>3. I!Walk[4] = I!Step(r, {200}, {"allowed"})
    BY <2>1, WalkIs
  <2>4. ~I!Skipped(4)
    <3>1. I!Walk[4].call = r
      BY <2>3, StepIs
    <3> QED
      BY <2>2, <3>1 DEF I!Skipped
  <2>5. I!Reply(apSmoke, r) = I!Answer(200, "allowed")
    BY <2>2 DEF I!Reply
  <2>6. PICK reply : reply = I!Reply(apSmoke, r) /\ reply.status = 200 /\ reply.code = "allowed"
    BY <2>5, AnswerIs
  <2> QED
    BY <1>5, <2>2, <2>3, <2>4, <2>5, <2>6, SmokePasses DEF I!Any
<1>6. CASE apWalk.at = 5
  <2>1. PICK r : r = I!Preflight("local")
    OBVIOUS
  <2>2. /\ r.method = "OPTIONS" /\ r.path = "/me" /\ r.csrf = FALSE
        /\ r.origin = "local" /\ r.body = "none"
    BY <2>1 DEF I!Get, I!Post, I!Patch, I!Redeem, I!Preflight, I!Call
  <2>3. I!Walk[5] = I!Step(r, {200}, {"allowed"})
    BY <2>1, WalkIs
  <2>4. ~I!Skipped(5)
    <3>1. I!Walk[5].call = r
      BY <2>3, StepIs
    <3> QED
      BY <2>2, <3>1 DEF I!Skipped
  <2>5. I!Reply(apSmoke, r) = I!Answer(200, "allowed")
    BY <2>2 DEF I!Reply
  <2>6. PICK reply : reply = I!Reply(apSmoke, r) /\ reply.status = 200 /\ reply.code = "allowed"
    BY <2>5, AnswerIs
  <2> QED
    BY <1>6, <2>2, <2>3, <2>4, <2>5, <2>6, SmokePasses DEF I!Any
<1>7. CASE apWalk.at = 6
  <2>1. PICK r : r = I!Preflight("evil")
    OBVIOUS
  <2>2. /\ r.method = "OPTIONS" /\ r.path = "/me" /\ r.csrf = FALSE
        /\ r.origin = "evil" /\ r.body = "none"
    BY <2>1 DEF I!Get, I!Post, I!Patch, I!Redeem, I!Preflight, I!Call
  <2>3. I!Walk[6] = I!Step(r, {200, 400}, {"not_allowed"})
    BY <2>1, WalkIs
  <2>4. ~I!Skipped(6)
    <3>1. I!Walk[6].call = r
      BY <2>3, StepIs
    <3> QED
      BY <2>2, <3>1 DEF I!Skipped
  <2>5. I!Reply(apSmoke, r) = I!Answer(400, "not_allowed")
    BY <2>2 DEF I!Reply
  <2>6. PICK reply : reply = I!Reply(apSmoke, r) /\ reply.status = 400 /\ reply.code = "not_allowed"
    BY <2>5, AnswerIs
  <2> QED
    BY <1>7, <2>2, <2>3, <2>4, <2>5, <2>6, SmokePasses DEF I!Any
<1>8. CASE apWalk.at = 7
  <2>1. PICK r : r = I!Get("/nope")
    OBVIOUS
  <2>2. /\ r.method = "GET" /\ r.path = "/nope" /\ r.csrf = FALSE
        /\ r.origin = "front" /\ r.body = "none"
    BY <2>1 DEF I!Get, I!Post, I!Patch, I!Redeem, I!Preflight, I!Call
  <2>3. I!Walk[7] = I!Step(r, {404}, {"NOT_FOUND"})
    BY <2>1, WalkIs
  <2>4. ~I!Skipped(7)
    <3>1. I!Walk[7].call = r
      BY <2>3, StepIs
    <3> QED
      BY <2>2, <3>1 DEF I!Skipped
  <2>5. I!Refused(apSmoke, r) /\ I!Reply(apSmoke, r) = I!Answer(404, "NOT_FOUND")
    BY <1>1, <2>2, Replied, Routes
    DEF I!CsrfRejected, I!Unsafe, Unknown, WrongMethod, SignedOut, I!Gated, NoProfile,
     I!Complete, I!Invalid, TooSoon, BadCode, I!WrongCode, BadName, BadVenue, BadScan
  <2>6. PICK reply : reply = I!Reply(apSmoke, r) /\ reply.status = 404 /\ reply.code = "NOT_FOUND"
    BY <2>5, AnswerIs
  <2> QED
    BY <1>8, <2>2, <2>3, <2>4, <2>5, <2>6, SmokePasses DEF I!Any
<1>9. CASE apWalk.at = 8
  <2>1. PICK r : r = I!Post("/auth/request", "empty")
    OBVIOUS
  <2>2. /\ r.method = "POST" /\ r.path = "/auth/request" /\ r.csrf = FALSE
        /\ r.origin = "front" /\ r.body = "empty"
    BY <2>1 DEF I!Get, I!Post, I!Patch, I!Redeem, I!Preflight, I!Call
  <2>3. I!Walk[8] = I!Step(r, {422}, {"VALIDATION_FAILED"})
    BY <2>1, WalkIs
  <2>4. ~I!Skipped(8)
    <3>1. I!Walk[8].call = r
      BY <2>3, StepIs
    <3> QED
      BY <2>2, <3>1 DEF I!Skipped
  <2>5. I!Refused(apSmoke, r) /\ I!Reply(apSmoke, r) = I!Answer(422, "VALIDATION_FAILED")
    BY <1>1, <2>2, Replied, Routes
    DEF I!CsrfRejected, I!Unsafe, Unknown, WrongMethod, SignedOut, I!Gated, NoProfile,
     I!Complete, I!Invalid, TooSoon, BadCode, I!WrongCode, BadName, BadVenue, BadScan
  <2>6. PICK reply : reply = I!Reply(apSmoke, r) /\ reply.status = 422 /\ reply.code = "VALIDATION_FAILED"
    BY <2>5, AnswerIs
  <2> QED
    BY <1>9, <2>2, <2>3, <2>4, <2>5, <2>6, SmokePasses DEF I!Any
<1>10. CASE apWalk.at = 9
  <2>1. PICK r : r = I!Call("DELETE", "/config", FALSE, "front", "none")
    OBVIOUS
  <2>2. /\ r.method = "DELETE" /\ r.path = "/config" /\ r.csrf = FALSE
        /\ r.origin = "front" /\ r.body = "none"
    BY <2>1 DEF I!Get, I!Post, I!Patch, I!Redeem, I!Preflight, I!Call
  <2>3. I!Walk[9] = I!Step(r, {405}, {"METHOD_NOT_ALLOWED"})
    BY <2>1, WalkIs
  <2>4. ~I!Skipped(9)
    <3>1. I!Walk[9].call = r
      BY <2>3, StepIs
    <3> QED
      BY <2>2, <3>1 DEF I!Skipped
  <2>5. I!Refused(apSmoke, r) /\ I!Reply(apSmoke, r) = I!Answer(405, "METHOD_NOT_ALLOWED")
    BY <1>1, <2>2, Replied, Routes
    DEF I!CsrfRejected, I!Unsafe, Unknown, WrongMethod, SignedOut, I!Gated, NoProfile,
     I!Complete, I!Invalid, TooSoon, BadCode, I!WrongCode, BadName, BadVenue, BadScan
  <2>6. PICK reply : reply = I!Reply(apSmoke, r) /\ reply.status = 405 /\ reply.code = "METHOD_NOT_ALLOWED"
    BY <2>5, AnswerIs
  <2> QED
    BY <1>10, <2>2, <2>3, <2>4, <2>5, <2>6, SmokePasses DEF I!Any
<1>11. CASE apWalk.at = 10
  <2>1. PICK r : r = I!Get("/me")
    OBVIOUS
  <2>2. /\ r.method = "GET" /\ r.path = "/me" /\ r.csrf = FALSE
        /\ r.origin = "front" /\ r.body = "none"
    BY <2>1 DEF I!Get, I!Post, I!Patch, I!Redeem, I!Preflight, I!Call
  <2>3. I!Walk[10] = I!Step(r, {401}, {"AUTH_REQUIRED"})
    BY <2>1, WalkIs
  <2>4. ~I!Skipped(10)
    <3>1. I!Walk[10].call = r
      BY <2>3, StepIs
    <3> QED
      BY <2>2, <3>1 DEF I!Skipped
  <2>5. I!Refused(apSmoke, r) /\ I!Reply(apSmoke, r) = I!Answer(401, "AUTH_REQUIRED")
    BY <1>1, <2>2, Replied, Routes
    DEF I!CsrfRejected, I!Unsafe, Unknown, WrongMethod, SignedOut, I!Gated, NoProfile,
     I!Complete, I!Invalid, TooSoon, BadCode, I!WrongCode, BadName, BadVenue, BadScan
  <2>6. PICK reply : reply = I!Reply(apSmoke, r) /\ reply.status = 401 /\ reply.code = "AUTH_REQUIRED"
    BY <2>5, AnswerIs
  <2> QED
    BY <1>11, <2>2, <2>3, <2>4, <2>5, <2>6, SmokePasses DEF I!Any
<1> QED
  BY <1>2, <1>3, <1>4, <1>5, <1>6, <1>7, <1>8, <1>9, <1>10, <1>11

\* The calls that the server refuses or only reads for, once it has sent a code.
LEMMA SmokeLater ==
  ASSUME ApiInv, SmokeInv, I!TakeStep, ~I!Skipped(apWalk.at), apDeployment.testNumbers,
         apWalk.at \in {14, 15, 16, 17, 18, 21, 22, 23, 25, 26, 28}
  PROVE  SmokeInv'
<1>1. apSmoke \in I!Clients /\ apOtp[apSmoke].state = "used"
  BY DEF I!Clients, SmokeInv
<1>2. apWalk.at <= 19 => ~apUsers[apSmoke].terms /\ ~apUsers[apSmoke].nickname
  BY DEF SmokeInv
<1>3. apWalk.at > 19 => apUsers[apSmoke].terms /\ apUsers[apSmoke].nickname
  BY DEF SmokeInv
<1>4. apJar[apSmoke] <=> apWalk.at < 28
  BY DEF SmokeInv
<1>5. CASE apWalk.at = 14
  <2>1. PICK r : r = I!Call("POST", "/auth/verify", TRUE, "front", "right")
    OBVIOUS
  <2>2. /\ r.method = "POST" /\ r.path = "/auth/verify" /\ r.csrf = TRUE
        /\ r.origin = "front" /\ r.body = "right"
    BY <2>1 DEF I!Get, I!Post, I!Patch, I!Redeem, I!Preflight, I!Call
  <2>3. I!Walk[14] = I!Step(r, {401}, {"OTP_INVALID"})
    BY <2>1, WalkIs
  <2>4. I!Refused(apSmoke, r) /\ I!Reply(apSmoke, r) = I!Answer(401, "OTP_INVALID")
    BY <1>1, <1>2, <1>3, <1>4, <1>5, <2>2, Replied, Routes
    DEF I!CsrfRejected, I!Unsafe, Unknown, WrongMethod, SignedOut, I!Gated, NoProfile,
     I!Complete, I!Invalid, TooSoon, BadCode, I!WrongCode, BadName, BadVenue, BadScan
  <2>5. PICK reply : reply = I!Reply(apSmoke, r) /\ reply.status = 401 /\ reply.code = "OTP_INVALID"
    BY <2>4, AnswerIs
  <2> QED
    BY <1>1, <1>5, <2>2, <2>3, <2>4, <2>5, SmokePasses
<1>6. CASE apWalk.at = 15
  <2>1. PICK r : r = I!Get("/me")
    OBVIOUS
  <2>2. /\ r.method = "GET" /\ r.path = "/me" /\ r.csrf = FALSE
        /\ r.origin = "front" /\ r.body = "none"
    BY <2>1 DEF I!Get, I!Post, I!Patch, I!Redeem, I!Preflight, I!Call
  <2>3. I!Walk[15] = I!Step(r, {200}, {"incomplete"})
    BY <2>1, WalkIs
  <2>4. r.path # "/redemptions"
    BY <2>2
  <2>5. I!Reply(apSmoke, r) = I!Success(apSmoke, r) /\ I!User(apSmoke, r) = apUsers[apSmoke]
    <3>1. I!Reply(apSmoke, r) = I!Success(apSmoke, r)
      BY <1>1, <1>2, <1>3, <1>4, <1>6, <2>2, Replied, Routes
      DEF I!CsrfRejected, I!Unsafe, Unknown, WrongMethod, SignedOut, I!Gated, NoProfile,
     I!Complete, I!Invalid, TooSoon, BadCode, I!WrongCode, BadName, BadVenue, BadScan
    <3> QED
      BY <2>2, <2>4, <3>1 DEF I!User, I!Pays
  <2>6. I!Success(apSmoke, r) = I!Answer(200, "incomplete")
    BY <1>2, <1>6, <2>2, <2>5 DEF I!Success, I!UserAnswer
  <2>7. PICK reply : reply = I!Reply(apSmoke, r) /\ reply.status = 200 /\ reply.code = "incomplete"
    BY <2>5, <2>6, AnswerIs
  <2> QED
    BY <1>1, <1>6, <2>2, <2>3, <2>5, <2>7, SmokePasses DEF I!Any
<1>7. CASE apWalk.at = 16
  <2>1. PICK r : r = I!Call("PATCH", "/me", FALSE, "front", "none")
    OBVIOUS
  <2>2. /\ r.method = "PATCH" /\ r.path = "/me" /\ r.csrf = FALSE
        /\ r.origin = "front" /\ r.body = "none"
    BY <2>1 DEF I!Get, I!Post, I!Patch, I!Redeem, I!Preflight, I!Call
  <2>3. I!Walk[16] = I!Step(r, {403}, {"CSRF_REJECTED"})
    BY <2>1, WalkIs
  <2>4. I!Refused(apSmoke, r) /\ I!Reply(apSmoke, r) = I!Answer(403, "CSRF_REJECTED")
    BY <1>1, <1>2, <1>3, <1>4, <1>7, <2>2, Replied, Routes
    DEF I!CsrfRejected, I!Unsafe, Unknown, WrongMethod, SignedOut, I!Gated, NoProfile,
     I!Complete, I!Invalid, TooSoon, BadCode, I!WrongCode, BadName, BadVenue, BadScan
  <2>5. PICK reply : reply = I!Reply(apSmoke, r) /\ reply.status = 403 /\ reply.code = "CSRF_REJECTED"
    BY <2>4, AnswerIs
  <2> QED
    BY <1>1, <1>7, <2>2, <2>3, <2>4, <2>5, SmokePasses
<1>8. CASE apWalk.at = 17
  <2>1. PICK r : r = I!Call("PATCH", "/me", TRUE, "evil", "none")
    OBVIOUS
  <2>2. /\ r.method = "PATCH" /\ r.path = "/me" /\ r.csrf = TRUE
        /\ r.origin = "evil" /\ r.body = "none"
    BY <2>1 DEF I!Get, I!Post, I!Patch, I!Redeem, I!Preflight, I!Call
  <2>3. I!Walk[17] = I!Step(r, {403}, {"CSRF_REJECTED"})
    BY <2>1, WalkIs
  <2>4. I!Refused(apSmoke, r) /\ I!Reply(apSmoke, r) = I!Answer(403, "CSRF_REJECTED")
    BY <1>1, <1>2, <1>3, <1>4, <1>8, <2>2, Replied, Routes
    DEF I!CsrfRejected, I!Unsafe, Unknown, WrongMethod, SignedOut, I!Gated, NoProfile,
     I!Complete, I!Invalid, TooSoon, BadCode, I!WrongCode, BadName, BadVenue, BadScan
  <2>5. PICK reply : reply = I!Reply(apSmoke, r) /\ reply.status = 403 /\ reply.code = "CSRF_REJECTED"
    BY <2>4, AnswerIs
  <2> QED
    BY <1>1, <1>8, <2>2, <2>3, <2>4, <2>5, SmokePasses
<1>9. CASE apWalk.at = 18
  <2>1. PICK r : r = I!Redeem(IF apDeployment.code THEN "code" ELSE "hello")
    OBVIOUS
  <2>2. /\ r.method = "POST" /\ r.path = "/redemptions" /\ r.csrf = TRUE
        /\ r.origin = "front" /\ r.body \in {"code", "hello"}
    BY <2>1 DEF I!Get, I!Post, I!Patch, I!Redeem, I!Preflight, I!Call
  <2>3. I!Walk[18] = I!Step(r, {403}, {"TERMS_NOT_ACCEPTED", "PROFILE_INCOMPLETE"})
    BY <2>1, WalkIs
  <2>4. I!Refused(apSmoke, r) /\ I!Reply(apSmoke, r) = I!Answer(403, I!ProfileRefusal(apSmoke))
    BY <1>1, <1>2, <1>3, <1>4, <1>9, <2>2, Replied, Routes
    DEF I!CsrfRejected, I!Unsafe, Unknown, WrongMethod, SignedOut, I!Gated, NoProfile,
     I!Complete, I!Invalid, TooSoon, BadCode, I!WrongCode, BadName, BadVenue, BadScan
  <2>5. PICK reply : /\ reply = I!Reply(apSmoke, r) /\ reply.status = 403
                     /\ reply.code \in {"TERMS_NOT_ACCEPTED", "PROFILE_INCOMPLETE"}
    BY <2>4, AnswerIs DEF I!ProfileRefusal
  <2> QED
    BY <1>1, <1>9, <2>2, <2>3, <2>4, <2>5, SmokePasses
<1>10. CASE apWalk.at = 21
  <2>1. PICK r : r = I!Patch("bad_venue")
    OBVIOUS
  <2>2. /\ r.method = "PATCH" /\ r.path = "/me" /\ r.csrf = TRUE
        /\ r.origin = "front" /\ r.body = "bad_venue"
    BY <2>1 DEF I!Get, I!Post, I!Patch, I!Redeem, I!Preflight, I!Call
  <2>3. I!Walk[21] = I!Step(r, {422}, {"CATALOGUE_UNKNOWN"})
    BY <2>1, WalkIs
  <2>4. I!Refused(apSmoke, r) /\ I!Reply(apSmoke, r) = I!Answer(422, "CATALOGUE_UNKNOWN")
    BY <1>1, <1>2, <1>3, <1>4, <1>10, <2>2, Replied, Routes
    DEF I!CsrfRejected, I!Unsafe, Unknown, WrongMethod, SignedOut, I!Gated, NoProfile,
     I!Complete, I!Invalid, TooSoon, BadCode, I!WrongCode, BadName, BadVenue, BadScan
  <2>5. PICK reply : reply = I!Reply(apSmoke, r) /\ reply.status = 422 /\ reply.code = "CATALOGUE_UNKNOWN"
    BY <2>4, AnswerIs
  <2> QED
    BY <1>1, <1>10, <2>2, <2>3, <2>4, <2>5, SmokePasses
<1>11. CASE apWalk.at = 22
  <2>1. PICK r : r = I!Patch("bad_nickname")
    OBVIOUS
  <2>2. /\ r.method = "PATCH" /\ r.path = "/me" /\ r.csrf = TRUE
        /\ r.origin = "front" /\ r.body = "bad_nickname"
    BY <2>1 DEF I!Get, I!Post, I!Patch, I!Redeem, I!Preflight, I!Call
  <2>3. I!Walk[22] = I!Step(r, {422}, {"NICKNAME_INVALID"})
    BY <2>1, WalkIs
  <2>4. I!Refused(apSmoke, r) /\ I!Reply(apSmoke, r) = I!Answer(422, "NICKNAME_INVALID")
    BY <1>1, <1>2, <1>3, <1>4, <1>11, <2>2, Replied, Routes
    DEF I!CsrfRejected, I!Unsafe, Unknown, WrongMethod, SignedOut, I!Gated, NoProfile,
     I!Complete, I!Invalid, TooSoon, BadCode, I!WrongCode, BadName, BadVenue, BadScan
  <2>5. PICK reply : reply = I!Reply(apSmoke, r) /\ reply.status = 422 /\ reply.code = "NICKNAME_INVALID"
    BY <2>4, AnswerIs
  <2> QED
    BY <1>1, <1>11, <2>2, <2>3, <2>4, <2>5, SmokePasses
<1>12. CASE apWalk.at = 23
  <2>1. PICK r : r = I!Redeem("hello")
    OBVIOUS
  <2>2. /\ r.method = "POST" /\ r.path = "/redemptions" /\ r.csrf = TRUE
        /\ r.origin = "front" /\ r.body = "hello"
    BY <2>1 DEF I!Get, I!Post, I!Patch, I!Redeem, I!Preflight, I!Call
  <2>3. I!Walk[23] = I!Step(r, {400}, {"CODE_MALFORMED"})
    BY <2>1, WalkIs
  <2>4. I!Refused(apSmoke, r) /\ I!Reply(apSmoke, r) = I!Answer(400, "CODE_MALFORMED")
    BY <1>1, <1>2, <1>3, <1>4, <1>12, <2>2, Replied, Routes
    DEF I!CsrfRejected, I!Unsafe, Unknown, WrongMethod, SignedOut, I!Gated, NoProfile,
     I!Complete, I!Invalid, TooSoon, BadCode, I!WrongCode, BadName, BadVenue, BadScan
  <2>5. PICK reply : reply = I!Reply(apSmoke, r) /\ reply.status = 400 /\ reply.code = "CODE_MALFORMED"
    BY <2>4, AnswerIs
  <2> QED
    BY <1>1, <1>12, <2>2, <2>3, <2>4, <2>5, SmokePasses
<1>13. CASE apWalk.at = 25
  <2>1. PICK r : r = I!Redeem("code")
    OBVIOUS
  <2>2. /\ r.method = "POST" /\ r.path = "/redemptions" /\ r.csrf = TRUE
        /\ r.origin = "front" /\ r.body = "code"
    BY <2>1 DEF I!Get, I!Post, I!Patch, I!Redeem, I!Preflight, I!Call
  <2>3. I!Walk[25] = I!Step(r, {200}, {"replayed"})
    BY <2>1, WalkIs
  <2>4. apUsers[apSmoke].redeemed
    <3>1. apDeployment.code
      <4>1. I!Walk[25].call = r
        BY <2>3, StepIs
      <4> QED
        BY <1>13, <2>2, <4>1 DEF I!Skipped
    <3> QED
      BY <1>13, <3>1 DEF SmokeInv
  <2>5. I!Reply(apSmoke, r) = I!Success(apSmoke, r) /\ I!User(apSmoke, r) = apUsers[apSmoke]
    <3>1. I!Reply(apSmoke, r) = I!Success(apSmoke, r)
      BY <1>1, <1>2, <1>3, <1>4, <1>13, <2>2, Replied, Routes
      DEF I!CsrfRejected, I!Unsafe, Unknown, WrongMethod, SignedOut, I!Gated, NoProfile,
     I!Complete, I!Invalid, TooSoon, BadCode, I!WrongCode, BadName, BadVenue, BadScan
    <3> QED
      BY <2>2, <2>4, <3>1 DEF I!User, I!Pays
  <2>6. I!Success(apSmoke, r) =
          [I!Answer(200, "replayed") EXCEPT !.coins = apUsers[apSmoke].coins]
    BY <2>2, <2>4, <2>5 DEF I!Success, I!RedemptionAnswer
  <2>7. PICK reply : reply = I!Reply(apSmoke, r) /\ reply.status = 200 /\ reply.code = "replayed"
    BY <2>5, <2>6 DEF I!Answer
  <2> QED
    BY <1>1, <1>13, <2>2, <2>3, <2>5, <2>7, SmokePasses DEF I!Any
<1>14. CASE apWalk.at = 26
  <2>1. PICK r : r = I!Get("/me/wallet")
    OBVIOUS
  <2>2. /\ r.method = "GET" /\ r.path = "/me/wallet" /\ r.csrf = FALSE
        /\ r.origin = "front" /\ r.body = "none"
    BY <2>1 DEF I!Get, I!Post, I!Patch, I!Redeem, I!Preflight, I!Call
  <2>3. I!Walk[26] = I!Step(r, {200}, I!Any)
    BY <2>1, WalkIs
  <2>4. r.path # "/redemptions"
    BY <2>2
  <2>5. I!Reply(apSmoke, r) = I!Success(apSmoke, r) /\ I!User(apSmoke, r) = apUsers[apSmoke]
    <3>1. I!Reply(apSmoke, r) = I!Success(apSmoke, r)
      BY <1>1, <1>2, <1>3, <1>4, <1>14, <2>2, Replied, Routes
      DEF I!CsrfRejected, I!Unsafe, Unknown, WrongMethod, SignedOut, I!Gated, NoProfile,
     I!Complete, I!Invalid, TooSoon, BadCode, I!WrongCode, BadName, BadVenue, BadScan
    <3> QED
      BY <2>2, <2>4, <3>1 DEF I!User, I!Pays
  <2>6. I!Success(apSmoke, r) = [I!Answer(200, "ok") EXCEPT !.coins = apUsers[apSmoke].coins]
    BY <2>2 DEF I!Success, I!WalletAnswer
  <2>7. PICK reply : /\ reply = I!Reply(apSmoke, r) /\ reply.status = 200 /\ reply.code = "ok"
                     /\ reply.coins = apWalk.balance
    BY <2>5, <2>6 DEF I!Answer, SmokeInv
  <2> QED
    BY <1>1, <1>14, <2>2, <2>3, <2>5, <2>7, SmokePasses DEF I!Any
<1>15. CASE apWalk.at = 28
  <2>1. PICK r : r = I!Get("/me")
    OBVIOUS
  <2>2. /\ r.method = "GET" /\ r.path = "/me" /\ r.csrf = FALSE
        /\ r.origin = "front" /\ r.body = "none"
    BY <2>1 DEF I!Get, I!Post, I!Patch, I!Redeem, I!Preflight, I!Call
  <2>3. I!Walk[28] = I!Step(r, {401}, {"AUTH_REQUIRED"})
    BY <2>1, WalkIs
  <2>4. I!Refused(apSmoke, r) /\ I!Reply(apSmoke, r) = I!Answer(401, "AUTH_REQUIRED")
    BY <1>1, <1>2, <1>3, <1>4, <1>15, <2>2, Replied, Routes
    DEF I!CsrfRejected, I!Unsafe, Unknown, WrongMethod, SignedOut, I!Gated, NoProfile,
     I!Complete, I!Invalid, TooSoon, BadCode, I!WrongCode, BadName, BadVenue, BadScan
  <2>5. PICK reply : reply = I!Reply(apSmoke, r) /\ reply.status = 401 /\ reply.code = "AUTH_REQUIRED"
    BY <2>4, AnswerIs
  <2> QED
    BY <1>1, <1>15, <2>2, <2>3, <2>4, <2>5, SmokePasses
<1> QED
  BY <1>5, <1>6, <1>7, <1>8, <1>9, <1>10, <1>11, <1>12, <1>13, <1>14, <1>15

\* An accepted call.
LEMMA SmokeDoes ==
  ASSUME ApiInv, NEW r, I!Handle(apSmoke, r), r.method # "OPTIONS", ~I!Refused(apSmoke, r),
         I!Reply(apSmoke, r).code # "OTP_INVALID"
  PROVE  /\ apJar'[apSmoke] = I!Cookie(apSmoke, r)
         /\ apOtp'[apSmoke] = I!NewOtp(apSmoke, r)
         /\ apUsers'[apSmoke] = I!User(apSmoke, r)
  BY DEF I!Handle, ApiInv, I!Clients

\* The request for a code, a wrong code, and the right one.
LEMMA SmokeSignsIn ==
  ASSUME ApiInv, SmokeInv, apMaxAttempts > 1, I!TakeStep, apWalk.at \in {11, 12, 13}
  PROVE  SmokeInv'
<1>1. apSmoke \in I!Clients /\ ~apJar[apSmoke]
  BY DEF I!Clients, SmokeInv
<1>2. apWalk.at > 11 => apDeployment.testNumbers
  BY DEF SmokeInv
<1>3. PICK o \in Otp : o = apOtp[apSmoke]
  BY <1>1 DEF ApiInv
<1>4. CASE apWalk.at = 11
  <2>1. PICK r : r = I!Post("/auth/request", "phone")
    OBVIOUS
  <2>2. /\ r.method = "POST" /\ r.path = "/auth/request" /\ r.csrf = FALSE
        /\ r.origin = "front" /\ r.body = "phone"
    BY <2>1 DEF I!Get, I!Post, I!Patch, I!Redeem, I!Preflight, I!Call
  <2>3. I!Walk[11] = I!Step(r, {202}, {"test_code"})
    BY <2>1, WalkIs
  <2>4. ~I!Skipped(11)
    <3>1. I!Walk[11].call = r
      BY <2>3, StepIs
    <3> QED
      BY <2>2, <3>1 DEF I!Skipped
  <2>5. ~I!Refused(apSmoke, r) /\ I!Reply(apSmoke, r) = I!Success(apSmoke, r)
    <3>1. ~apOtp[apSmoke].recent
      BY <1>4 DEF SmokeInv
    <3> QED
      BY <1>1, <3>1, <2>2, Replied, Routes
      DEF I!CsrfRejected, I!Unsafe, Unknown, WrongMethod, SignedOut, I!Gated, NoProfile,
     I!Complete, I!Invalid, TooSoon, BadCode, I!WrongCode, BadName, BadVenue, BadScan
  <2>6. PICK reply : /\ reply = I!Reply(apSmoke, r) /\ reply.status = 202
                     /\ reply.code = IF apDeployment.testNumbers THEN "test_code" ELSE "ok"
    BY <2>2, <2>5, AnswerIs DEF I!Success, I!RequestedAnswer
  <2>7. /\ apJar'[apSmoke] = I!Cookie(apSmoke, r) /\ apOtp'[apSmoke] = I!NewOtp(apSmoke, r)
        /\ apUsers'[apSmoke] = I!User(apSmoke, r)
    BY <1>4, <2>2, <2>3, <2>4, <2>5, <2>6, SmokeCall, SmokeDoes
  <2>8. /\ ~apJar'[apSmoke] /\ apUsers'[apSmoke] = apUsers[apSmoke]
        /\ apOtp'[apSmoke].state = "sent" /\ apOtp'[apSmoke].attempts = 0
    <3>1. I!NewOtp(apSmoke, r) = [state |-> "sent", recent |-> TRUE, attempts |-> 0]
      BY <2>2 DEF I!NewOtp
    <3>2. I!User(apSmoke, r) = apUsers[apSmoke]
      BY <2>2 DEF I!User, I!Pays
    <3>3. ~I!Cookie(apSmoke, r)
      BY <1>1, <2>2 DEF I!Cookie
    <3>4. apOtp'[apSmoke].state = "sent" /\ apOtp'[apSmoke].attempts = 0
      BY <2>7, <3>1
    <3> QED
      BY <2>7, <3>2, <3>3, <3>4
  <2>9. /\ UNCHANGED apDeployment /\ apWalk'.balance = apWalk.balance
        /\ apDeployment.testNumbers => apWalk'.at = 12 /\ apWalk'.failed = apWalk.failed
        /\ ~apDeployment.testNumbers => apWalk'.at = 29 /\ apWalk'.failed = apWalk.failed \cup {11}
    BY <1>4, <2>2, <2>3, <2>4, <2>6, SmokeCall
  <2> QED
    BY <1>4, <2>8, <2>9 DEF SmokeInv
<1>5. CASE apWalk.at = 12
  <2>1. PICK r : r = I!Post("/auth/verify", "wrong")
    OBVIOUS
  <2>2. /\ r.method = "POST" /\ r.path = "/auth/verify" /\ r.csrf = FALSE
        /\ r.origin = "front" /\ r.body = "wrong"
    BY <2>1 DEF I!Get, I!Post, I!Patch, I!Redeem, I!Preflight, I!Call
  <2>3. I!Walk[12] = I!Step(r, {401}, {"OTP_INVALID"})
    BY <2>1, WalkIs
  <2>4. ~I!Skipped(12)
    <3>1. I!Walk[12].call = r
      BY <2>3, StepIs
    <3> QED
      BY <2>2, <3>1 DEF I!Skipped
  <2>5. I!Refused(apSmoke, r) /\ I!Reply(apSmoke, r) = I!Answer(401, "OTP_INVALID")
    BY <1>1, <2>2, Replied, Routes
    DEF I!CsrfRejected, I!Unsafe, Unknown, WrongMethod, SignedOut, I!Gated, NoProfile,
     I!Complete, I!Invalid, TooSoon, BadCode, I!WrongCode, BadName, BadVenue, BadScan
  <2>6. PICK reply : reply = I!Reply(apSmoke, r) /\ reply.status = 401 /\ reply.code = "OTP_INVALID"
    BY <2>5, AnswerIs
  <2>7. I!Handle(apSmoke, r) /\ UNCHANGED apDeployment /\ apWalk'.balance = apWalk.balance
        /\ apWalk'.at = 13 /\ apWalk'.failed = apWalk.failed
    BY <1>5, <2>2, <2>3, <2>4, <2>6, SmokeCall
  <2>8. o.state = "sent" /\ o.attempts = 0
    BY <1>2, <1>3, <1>5 DEF SmokeInv
  <2>9. /\ apOtp' = [apOtp EXCEPT ![apSmoke].attempts =
                       IF apOtp[apSmoke].state = "sent" /\ @ < apMaxAttempts THEN @ + 1 ELSE @]
        /\ UNCHANGED <<apJar, apUsers>>
    BY <2>2, <2>5, <2>6, <2>7 DEF I!Handle
  <2>10. apOtp'[apSmoke] = [o EXCEPT !.attempts = 1]
    <3>1. PICK n : n = IF o.state = "sent" /\ o.attempts < apMaxAttempts
                       THEN o.attempts + 1 ELSE o.attempts
      OBVIOUS
    <3>2. apOtp' = [apOtp EXCEPT ![apSmoke].attempts = n]
      BY <1>3, <2>9, <3>1
    <3>3. n = 1
      BY <2>8, <3>1, ApiNumbers
    <3> QED
      BY <1>1, <1>3, <3>2, <3>3 DEF ApiInv
  <2>11. apOtp'[apSmoke].state = "sent" /\ apOtp'[apSmoke].attempts = 1
    BY <1>3, <2>8, <2>10 DEF Otp
  <2> QED
    BY <1>2, <1>5, <2>7, <2>9, <2>11 DEF SmokeInv
<1>6. CASE apWalk.at = 13
  <2>1. PICK r : r = I!Post("/auth/verify", "right")
    OBVIOUS
  <2>2. /\ r.method = "POST" /\ r.path = "/auth/verify" /\ r.csrf = FALSE
        /\ r.origin = "front" /\ r.body = "right"
    BY <2>1 DEF I!Get, I!Post, I!Patch, I!Redeem, I!Preflight, I!Call
  <2>3. I!Walk[13] = I!Step(r, {200}, I!Any)
    BY <2>1, WalkIs
  <2>4. ~I!Skipped(13)
    <3>1. I!Walk[13].call = r
      BY <2>3, StepIs
    <3> QED
      BY <2>2, <3>1 DEF I!Skipped
  <2>5. ~I!Refused(apSmoke, r) /\ I!Reply(apSmoke, r) = I!Success(apSmoke, r)
    <3>1. o.state = "sent" /\ o.attempts = 1
      BY <1>2, <1>3, <1>6 DEF SmokeInv
    <3> QED
      BY <1>1, <1>3, <3>1, <2>2, Replied, Routes, ApiNumbers
      DEF I!CsrfRejected, I!Unsafe, Unknown, WrongMethod, SignedOut, I!Gated, NoProfile,
     I!Complete, I!Invalid, TooSoon, BadCode, I!WrongCode, BadName, BadVenue, BadScan
  <2>6. PICK reply : reply = I!Reply(apSmoke, r) /\ reply.status = 200 /\ reply.code = "ok"
    BY <2>2, <2>5, AnswerIs DEF I!Success
  <2>7. /\ apJar'[apSmoke] = I!Cookie(apSmoke, r) /\ apOtp'[apSmoke] = I!NewOtp(apSmoke, r)
        /\ apUsers'[apSmoke] = I!User(apSmoke, r)
    BY <1>6, <2>2, <2>3, <2>4, <2>5, <2>6, SmokeCall, SmokeDoes
  <2>8. /\ apJar'[apSmoke] /\ apUsers'[apSmoke] = apUsers[apSmoke]
        /\ apOtp'[apSmoke].state = "used"
    BY <1>3, <2>2, <2>7 DEF I!Cookie, I!NewOtp, I!User, I!Pays, Otp
  <2>9. /\ UNCHANGED apDeployment /\ apWalk'.balance = apWalk.balance
        /\ apWalk'.at = 14 /\ apWalk'.failed = apWalk.failed
    BY <1>6, <2>2, <2>3, <2>4, <2>6, SmokeCall DEF I!Any
  <2> QED
    BY <1>2, <1>6, <2>8, <2>9 DEF SmokeInv
<1> QED
  BY <1>4, <1>5, <1>6

\* The calls that change the account of the script, and its signing out.
LEMMA SmokeChanges ==
  ASSUME ApiInv, SmokeInv, I!TakeStep, ~I!Skipped(apWalk.at), apDeployment.testNumbers,
         apWalk.at \in {19, 20, 24, 27}
  PROVE  SmokeInv'
<1>1. apSmoke \in I!Clients /\ apJar[apSmoke] /\ apOtp[apSmoke].state = "used"
  BY DEF I!Clients, SmokeInv
<1>2. apWalk.at > 19 => apUsers[apSmoke].terms /\ apUsers[apSmoke].nickname
  BY DEF SmokeInv
<1>3. PICK u \in Profile : u = apUsers[apSmoke]
  BY <1>1 DEF ApiInv
<1>4. CASE apWalk.at = 19
  <2>1. PICK r : r = I!Patch("complete")
    OBVIOUS
  <2>2. /\ r.method = "PATCH" /\ r.path = "/me" /\ r.csrf = TRUE
        /\ r.origin = "front" /\ r.body = "complete"
    BY <2>1 DEF I!Get, I!Post, I!Patch, I!Redeem, I!Preflight, I!Call
  <2>3. I!Walk[19] = I!Step(r, {200}, {"complete"})
    BY <2>1, WalkIs
  <2>4. ~I!Refused(apSmoke, r) /\ I!Reply(apSmoke, r) = I!Success(apSmoke, r)
    BY <1>1, <2>2, Replied, Routes
    DEF I!CsrfRejected, I!Unsafe, Unknown, WrongMethod, SignedOut, I!Gated, NoProfile,
     I!Complete, I!Invalid, TooSoon, BadCode, I!WrongCode, BadName, BadVenue, BadScan
  <2>5. PICK v : v = I!User(apSmoke, r) /\ v.terms /\ v.nickname /\ v.redeemed = u.redeemed
                 /\ v.coins = u.coins
    <3>1. I!User(apSmoke, r) = [u EXCEPT !.nickname = TRUE, !.terms = TRUE]
      BY <1>3, <2>2 DEF I!User, I!Pays
    <3> QED
      BY <1>3, <3>1 DEF Profile
  <2>6. PICK reply : reply = I!Reply(apSmoke, r) /\ reply.status = 200 /\ reply.code = "complete"
    BY <2>2, <2>4, <2>5, AnswerIs DEF I!Success, I!UserAnswer
  <2>7. I!Handle(apSmoke, r) /\ UNCHANGED apDeployment /\ apWalk'.at = 20
        /\ apWalk'.failed = apWalk.failed
        /\ apWalk'.balance = apWalk.balance
    BY <1>4, <2>2, <2>3, <2>6, SmokeCall DEF I!Any
  <2>8. /\ apJar'[apSmoke] /\ apOtp'[apSmoke] = apOtp[apSmoke] /\ apUsers'[apSmoke] = v
    <3>1. /\ apJar'[apSmoke] = I!Cookie(apSmoke, r) /\ apOtp'[apSmoke] = I!NewOtp(apSmoke, r)
          /\ apUsers'[apSmoke] = I!User(apSmoke, r)
      BY <2>2, <2>4, <2>6, <2>7, SmokeDoes
    <3> QED
      BY <1>1, <2>2, <2>5, <3>1 DEF I!Cookie, I!NewOtp
  <2> QED
    BY <1>1, <1>2, <1>3, <1>4, <2>5, <2>7, <2>8 DEF SmokeInv
<1>5. CASE apWalk.at = 20
  <2>1. PICK r : r = I!Patch("venue")
    OBVIOUS
  <2>2. /\ r.method = "PATCH" /\ r.path = "/me" /\ r.csrf = TRUE
        /\ r.origin = "front" /\ r.body = "venue"
    BY <2>1 DEF I!Get, I!Post, I!Patch, I!Redeem, I!Preflight, I!Call
  <2>3. I!Walk[20] = I!Step(r, {200}, I!Any)
    BY <2>1, WalkIs
  <2>4. ~I!Refused(apSmoke, r) /\ I!Reply(apSmoke, r) = I!Success(apSmoke, r)
    <3>1. apDeployment.venues
      <4>1. I!Walk[20].call = r
        BY <2>3, StepIs
      <4> QED
        BY <1>5, <2>2, <4>1 DEF I!Skipped
    <3> QED
      BY <1>1, <2>2, <3>1, Replied, Routes
      DEF I!CsrfRejected, I!Unsafe, Unknown, WrongMethod, SignedOut, I!Gated, NoProfile,
     I!Complete, I!Invalid, TooSoon, BadCode, I!WrongCode, BadName, BadVenue, BadScan
  <2>5. PICK v : v = I!User(apSmoke, r) /\ v.terms = u.terms /\ v.nickname = u.nickname
                 /\ v.redeemed = u.redeemed /\ v.coins = u.coins
    <3>1. I!User(apSmoke, r) = [u EXCEPT !.venue = TRUE]
      BY <1>3, <2>2 DEF I!User, I!Pays
    <3> QED
      BY <1>3, <3>1 DEF Profile
  <2>6. PICK reply : /\ reply = I!Reply(apSmoke, r) /\ reply.status = 200
                     /\ reply.code \in {"complete", "incomplete"}
    BY <2>2, <2>4, <2>5, AnswerIs DEF I!Success, I!UserAnswer
  <2>7. I!Handle(apSmoke, r) /\ UNCHANGED apDeployment /\ apWalk'.at = 21
        /\ apWalk'.failed = apWalk.failed
        /\ apWalk'.balance = apWalk.balance
    BY <1>5, <2>2, <2>3, <2>6, SmokeCall DEF I!Any
  <2>8. /\ apJar'[apSmoke] /\ apOtp'[apSmoke] = apOtp[apSmoke] /\ apUsers'[apSmoke] = v
    <3>1. /\ apJar'[apSmoke] = I!Cookie(apSmoke, r) /\ apOtp'[apSmoke] = I!NewOtp(apSmoke, r)
          /\ apUsers'[apSmoke] = I!User(apSmoke, r)
      BY <2>2, <2>4, <2>6, <2>7, SmokeDoes
    <3> QED
      BY <1>1, <2>2, <2>5, <3>1 DEF I!Cookie, I!NewOtp
  <2> QED
    BY <1>1, <1>2, <1>3, <1>5, <2>5, <2>7, <2>8 DEF SmokeInv
<1>6. CASE apWalk.at = 24
  <2>1. PICK r : r = I!Redeem("code")
    OBVIOUS
  <2>2. /\ r.method = "POST" /\ r.path = "/redemptions" /\ r.csrf = TRUE
        /\ r.origin = "front" /\ r.body = "code"
    BY <2>1 DEF I!Get, I!Post, I!Patch, I!Redeem, I!Preflight, I!Call
  <2>3. I!Walk[24] = I!Step(r, {200}, {"first"})
    BY <2>1, WalkIs
  <2>4. apDeployment.code /\ ~u.redeemed
    <3>1. I!Walk[24].call = r
      BY <2>3, StepIs
    <3> QED
      BY <1>3, <1>6, <2>2, <3>1 DEF I!Skipped, SmokeInv
  <2>5. ~I!Refused(apSmoke, r) /\ I!Reply(apSmoke, r) = I!Success(apSmoke, r)
    BY <1>1, <1>2, <1>6, <2>2, Replied, Routes
    DEF I!CsrfRejected, I!Unsafe, Unknown, WrongMethod, SignedOut, I!Gated, NoProfile,
     I!Complete, I!Invalid, TooSoon, BadCode, I!WrongCode, BadName, BadVenue, BadScan
  <2>6. PICK v : v = I!User(apSmoke, r) /\ v.terms = u.terms /\ v.nickname = u.nickname
                 /\ v.redeemed
    <3>1. PICK n : n = u.coins + apCodeCoins + apBonus
      OBVIOUS
    <3>2. I!User(apSmoke, r) = [u EXCEPT !.redeemed = TRUE, !.coins = n]
      BY <1>3, <2>2, <2>4, <3>1 DEF I!User, I!Pays
    <3> QED
      BY <1>3, <3>2 DEF Profile
  <2>7. PICK reply : /\ reply = I!Reply(apSmoke, r) /\ reply.status = 200
                     /\ reply.code = "first" /\ reply.coins = v.coins
    <3>1. I!Success(apSmoke, r) = [I!Answer(200, "first") EXCEPT !.coins = v.coins]
      BY <1>3, <2>2, <2>6, <2>4 DEF I!Success, I!RedemptionAnswer
    <3> QED
      BY <2>5, <3>1 DEF I!Answer
  <2>8. I!Handle(apSmoke, r) /\ UNCHANGED apDeployment /\ apWalk'.at = 25
        /\ apWalk'.failed = apWalk.failed
        /\ apWalk'.balance = v.coins
    BY <1>6, <2>2, <2>3, <2>7, SmokeCall DEF I!Any
  <2>9. /\ apJar'[apSmoke] /\ apOtp'[apSmoke] = apOtp[apSmoke] /\ apUsers'[apSmoke] = v
    <3>1. /\ apJar'[apSmoke] = I!Cookie(apSmoke, r) /\ apOtp'[apSmoke] = I!NewOtp(apSmoke, r)
          /\ apUsers'[apSmoke] = I!User(apSmoke, r)
      BY <2>2, <2>5, <2>7, <2>8, SmokeDoes
    <3> QED
      BY <1>1, <2>2, <2>6, <3>1 DEF I!Cookie, I!NewOtp
  <2> QED
    BY <1>1, <1>2, <1>3, <1>6, <2>6, <2>8, <2>9 DEF SmokeInv
<1>7. CASE apWalk.at = 27
  <2>1. PICK r : r = I!Call("POST", "/auth/logout", TRUE, "front", "none")
    OBVIOUS
  <2>2. /\ r.method = "POST" /\ r.path = "/auth/logout" /\ r.csrf = TRUE
        /\ r.origin = "front" /\ r.body = "none"
    BY <2>1 DEF I!Get, I!Post, I!Patch, I!Redeem, I!Preflight, I!Call
  <2>3. I!Walk[27] = I!Step(r, {204}, I!Any)
    BY <2>1, WalkIs
  <2>4. ~I!Refused(apSmoke, r) /\ I!Reply(apSmoke, r) = I!Success(apSmoke, r)
    BY <1>1, <2>2, Replied, Routes
    DEF I!CsrfRejected, I!Unsafe, Unknown, WrongMethod, SignedOut, I!Gated, NoProfile,
     I!Complete, I!Invalid, TooSoon, BadCode, I!WrongCode, BadName, BadVenue, BadScan
  <2>5. PICK v : v = I!User(apSmoke, r) /\ v = u
    BY <1>3, <2>2 DEF I!User, I!Pays
  <2>6. PICK reply : reply = I!Reply(apSmoke, r) /\ reply.status = 204 /\ reply.code = "ok"
    BY <2>2, <2>4, AnswerIs DEF I!Success
  <2>7. I!Handle(apSmoke, r) /\ UNCHANGED apDeployment /\ apWalk'.at = 28
        /\ apWalk'.failed = apWalk.failed
        /\ apWalk'.balance = apWalk.balance
    BY <1>7, <2>2, <2>3, <2>6, SmokeCall DEF I!Any
  <2>8. /\ ~apJar'[apSmoke] /\ apOtp'[apSmoke] = apOtp[apSmoke] /\ apUsers'[apSmoke] = v
    <3>1. /\ apJar'[apSmoke] = I!Cookie(apSmoke, r) /\ apOtp'[apSmoke] = I!NewOtp(apSmoke, r)
          /\ apUsers'[apSmoke] = I!User(apSmoke, r)
      BY <2>2, <2>4, <2>6, <2>7, SmokeDoes
    <3> QED
      BY <1>1, <2>2, <2>5, <3>1 DEF I!Cookie, I!NewOtp
  <2> QED
    BY <1>1, <1>2, <1>3, <1>7, <2>5, <2>7, <2>8 DEF SmokeInv
<1> QED
  BY <1>4, <1>5, <1>6, <1>7

LEMMA SmokeSkips ==
  ASSUME ApiInv, SmokeInv, I!TakeStep, I!Skipped(apWalk.at)
  PROVE  SmokeInv'
<1>1. PICK n : n = apWalk.at
  OBVIOUS
<1>2. n \in 1..28 /\ n \notin {11, 12, 13, 19, 27} /\ (n = 24 => ~apDeployment.code)
  <2>1. n \in 1..28
    BY <1>1, WalkIsLong DEF I!TakeStep, ApiInv
  <2>2. \A m \in {11, 12, 13, 19, 27} :
          /\ I!Walk[m].call.body # "venue"
          /\ I!Walk[m].call.path \notin {"/redemptions", "/me/wallet"} \/ m <= 19
    <3>1. /\ I!Walk[11].call = I!Post("/auth/request", "phone")
          /\ I!Walk[12].call = I!Post("/auth/verify", "wrong")
          /\ I!Walk[13].call = I!Post("/auth/verify", "right")
      BY WalkIs, StepIs
    <3>2. I!Walk[19].call = I!Patch("complete")
      BY WalkIs, StepIs
    <3>3. I!Walk[27].call = I!Call("POST", "/auth/logout", TRUE, "front", "none")
      BY CallsAre
    <3> QED
      BY <3>1, <3>2, <3>3 DEF I!Post, I!Patch, I!Call
  <2>3. I!Walk[24].call.body # "venue"
    <3>1. I!Walk[24].call = I!Redeem("code")
      BY WalkIs, StepIs
    <3> QED
      BY <3>1 DEF I!Redeem, I!Call
  <2> QED
    BY <1>1, <2>1, <2>2, <2>3 DEF I!Skipped
<1>3. apWalk' = [apWalk EXCEPT !.at = @ + 1] /\ UNCHANGED <<apJar, apOtp, apUsers, apDeployment>>
  BY DEF I!TakeStep
<1>4. apWalk'.at = apWalk.at + 1 /\ apWalk'.failed = apWalk.failed
      /\ apWalk'.balance = apWalk.balance
  BY <1>3 DEF ApiInv
<1> QED
  BY <1>1, <1>2, <1>3, <1>4, SmokeQuiet

LEMMA SmokeStep ==
  ASSUME ApiInv, SmokeInv, apMaxAttempts > 1, I!TakeStep
  PROVE  SmokeInv'
<1>1. apWalk.at \in 1..28 /\ (apWalk.at > 11 => apDeployment.testNumbers)
  BY WalkIsLong DEF I!TakeStep, ApiInv, SmokeInv
<1> QED
  BY <1>1, SmokeSkips, SmokeBefore, SmokeSignsIn, SmokeLater, SmokeChanges

\* The balance of an answer is a number.
LEMMA ReplyCoins ==
  ASSUME ApiInv, NEW c \in I!Clients, NEW r
  PROVE  I!Reply(c, r).coins \in Nat
<1>1. CASE r.method = "OPTIONS"
  BY <1>1, AnswerIs DEF I!Reply
<1>2. CASE r.method # "OPTIONS" /\ I!Refused(c, r)
  <2>1. \E status, code : I!Reply(c, r) = I!Answer(status, code)
    BY <1>2, Replied
  <2> QED
    BY <2>1, AnswerIs
<1>3. CASE r.method # "OPTIONS" /\ ~I!Refused(c, r)
  <2>1. I!Reply(c, r) = I!Success(c, r)
    BY <1>3, Replied
  <2>2. apUsers[c].coins \in Nat /\ I!User(c, r).coins \in Nat
    BY ProfileGrows DEF ApiInv, Profile
  <2>3. \/ \E status, code : I!Success(c, r) = I!Answer(status, code)
        \/ I!Success(c, r) = I!RedemptionAnswer(c, I!User(c, r))
        \/ I!Success(c, r) = I!WalletAnswer(c)
    <3>1. \/ I!Success(c, r) = I!RequestedAnswer(c) \/ I!Success(c, r) = I!Answer(204, "ok")
          \/ I!Success(c, r) = I!UserAnswer(I!User(c, r)) \/ I!Success(c, r) = I!Answer(200, "ok")
          \/ I!Success(c, r) = I!RedemptionAnswer(c, I!User(c, r))
          \/ I!Success(c, r) = I!WalletAnswer(c)
      BY DEF I!Success
    <3>2. \E status, code : I!RequestedAnswer(c) = I!Answer(status, code)
      BY DEF I!RequestedAnswer
    <3>3. \E status, code : I!UserAnswer(I!User(c, r)) = I!Answer(status, code)
      BY DEF I!UserAnswer
    <3> QED
      BY <3>1, <3>2, <3>3
  <2>4. I!RedemptionAnswer(c, I!User(c, r)).coins = I!User(c, r).coins
        /\ I!WalletAnswer(c).coins = apUsers[c].coins
    BY DEF I!RedemptionAnswer, I!WalletAnswer, I!Answer
  <2> QED
    BY <2>1, <2>2, <2>3, <2>4, AnswerIs
<1> QED
  BY <1>1, <1>2, <1>3

LEMMA TakeStepTypes ==
  ASSUME ApiInv, I!TakeStep
  PROVE  ApiInv'
<1>1. apSmoke \in I!Clients /\ apWalk.at \in 1..28 /\ UNCHANGED apDeployment
  BY WalkIsLong DEF I!TakeStep, I!Clients, ApiInv
<1>2. CASE I!Skipped(apWalk.at)
  <2>1. apWalk' = [apWalk EXCEPT !.at = @ + 1] /\ UNCHANGED <<apJar, apOtp, apUsers>>
    BY <1>2 DEF I!TakeStep
  <2>2. apWalk' \in [at : 1..29, failed : SUBSET (1..28), balance : Nat]
    BY <1>1, <2>1 DEF ApiInv
  <2> QED
    BY <1>1, <2>1, <2>2 DEF ApiInv, I!Complete
<1>3. CASE ~I!Skipped(apWalk.at)
  <2>1. PICK call : call = I!Walk[apWalk.at].call
    OBVIOUS
  <2>2. PICK reply : reply = I!Reply(apSmoke, call) /\ reply.coins \in Nat
    BY <1>1, ReplyCoins
  <2>3. PICK at \in 1..29, failed \in SUBSET (1..28), balance \in Nat :
          apWalk' = [at |-> at, failed |-> failed, balance |-> balance]
    <3>1. PICK passes \in BOOLEAN :
            apWalk' = [at |-> IF reply.status = 202 /\ reply.code # "test_code"
                             THEN I!Walked ELSE apWalk.at + 1,
                      failed |-> apWalk.failed \cup (IF passes THEN {} ELSE {apWalk.at}),
                      balance |-> IF reply.code = "first" THEN reply.coins ELSE apWalk.balance]
      BY <1>3, <2>1, <2>2 DEF I!TakeStep
    <3>2. apWalk.failed \in SUBSET (1..28) /\ apWalk.balance \in Nat
      BY DEF ApiInv
    <3>3. (IF reply.status = 202 /\ reply.code # "test_code" THEN I!Walked ELSE apWalk.at + 1)
            \in 1..29
      BY <1>1, WalkIsLong
    <3>4. apWalk.failed \cup (IF passes THEN {} ELSE {apWalk.at}) \in SUBSET (1..28)
      BY <1>1, <3>2
    <3>5. (IF reply.code = "first" THEN reply.coins ELSE apWalk.balance) \in Nat
      BY <2>2, <3>2
    <3> QED
      BY <3>1, <3>3, <3>4, <3>5
  <2>4. apWalk' \in [at : 1..29, failed : SUBSET (1..28), balance : Nat]
    BY <2>3
  <2>5. I!Handle(apSmoke, call)
    BY <1>3, <2>1 DEF I!TakeStep
  <2> QED
    BY <1>1, <2>4, <2>5, HandleStep
<1> QED
  BY <1>2, <1>3

\* Other people change nothing of the script's account.
LEMMA OthersStep ==
  ASSUME ApiInv, NEW c \in apOthers, I!Use(c) \/ I!Elapse(c)
  PROVE  ApiInv' /\ (SmokeInv => SmokeInv')
<1>1. c \in I!Clients /\ apSmoke \in I!Clients \ {c} /\ UNCHANGED <<apDeployment, apWalk>>
  BY ApiNumbers DEF I!Clients, I!Use, I!Elapse
<1>2. CASE I!Use(c)
  <2>1. PICK r \in I!Calls : I!Handle(c, r)
    BY <1>2 DEF I!Use
  <2>2. apWalk' \in [at : 1..29, failed : SUBSET (1..28), balance : Nat]
    BY <1>1 DEF ApiInv
  <2>3. /\ ApiInv' /\ apJar'[apSmoke] = apJar[apSmoke] /\ apOtp'[apSmoke] = apOtp[apSmoke]
        /\ apUsers'[apSmoke] = apUsers[apSmoke]
    BY <1>1, <2>1, <2>2, HandleStep
  <2> QED
    BY <1>1, <2>3 DEF SmokeInv
<1>3. CASE I!Elapse(c)
  <2>1. ApiInv'
    BY <1>1, <1>3, ElapseStep
  <2>2. apOtp'[apSmoke] = apOtp[apSmoke] /\ UNCHANGED <<apJar, apUsers>>
    BY <1>1, <1>3 DEF I!Elapse, ApiInv
  <2> QED
    BY <1>1, <2>1, <2>2 DEF SmokeInv
<1> QED
  BY <1>2, <1>3

LEMMA ApiAlways == Spec => [](ApiInv /\ (apMaxAttempts > 1 => SmokeInv))
<1> DEFINE Inv == ApiInv /\ (apMaxAttempts > 1 => SmokeInv)
<1>1. I!Init => Inv
  BY ApiInit, SmokeInit
<1>2. Inv /\ [I!Next]_(I!vars) => Inv'
  <2> SUFFICES ASSUME Inv, [I!Next]_(I!vars) PROVE Inv'
    OBVIOUS
  <2>1. CASE I!TakeStep
    BY <2>1, TakeStepTypes, SmokeStep
  <2>2. CASE \E c \in apOthers : I!Use(c) \/ I!Elapse(c)
    BY <2>2, OthersStep
  <2>3. CASE UNCHANGED I!vars
    BY <2>3 DEF I!vars, ApiInv, SmokeInv, I!Complete
  <2> QED
    BY <2>1, <2>2, <2>3 DEF I!Next
<1> QED
  BY <1>1, <1>2, ApiRun, PTL DEF I!Spec

LEMMA ApiTypes == ApiInv => I!TypeOK
<1> SUFFICES ASSUME ApiInv PROVE I!TypeOK
  OBVIOUS
<1> QED
  BY WalkIsLong DEF ApiInv, I!TypeOK, Otp, Profile

\* What the smoke script reports, for every deployment: nothing where the
\* server has test numbers, and otherwise the request for the code.
\* Only the eleventh call asks for a sign-in code.
LEMMA OneCallAsks ==
  {n \in DOMAIN I!Walk : I!Walk[n].call = I!Post("/auth/request", "phone")} = {11}
<1> DEFINE Asks(call) == call = I!Post("/auth/request", "phone")
<1>1. ~Asks(I!Walk[1].call)
  BY CallsAre DEF I!Get, I!Post, I!Patch, I!Redeem, I!Preflight, I!Call
<1>2. ~Asks(I!Walk[2].call)
  BY CallsAre DEF I!Get, I!Post, I!Patch, I!Redeem, I!Preflight, I!Call
<1>3. ~Asks(I!Walk[3].call)
  BY CallsAre DEF I!Get, I!Post, I!Patch, I!Redeem, I!Preflight, I!Call
<1>4. ~Asks(I!Walk[4].call)
  BY CallsAre DEF I!Get, I!Post, I!Patch, I!Redeem, I!Preflight, I!Call
<1>5. ~Asks(I!Walk[5].call)
  BY CallsAre DEF I!Get, I!Post, I!Patch, I!Redeem, I!Preflight, I!Call
<1>6. ~Asks(I!Walk[6].call)
  BY CallsAre DEF I!Get, I!Post, I!Patch, I!Redeem, I!Preflight, I!Call
<1>7. ~Asks(I!Walk[7].call)
  BY CallsAre DEF I!Get, I!Post, I!Patch, I!Redeem, I!Preflight, I!Call
<1>8. ~Asks(I!Walk[8].call)
  BY CallsAre DEF I!Get, I!Post, I!Patch, I!Redeem, I!Preflight, I!Call
<1>9. ~Asks(I!Walk[9].call)
  BY CallsAre DEF I!Get, I!Post, I!Patch, I!Redeem, I!Preflight, I!Call
<1>10. ~Asks(I!Walk[10].call)
  BY CallsAre DEF I!Get, I!Post, I!Patch, I!Redeem, I!Preflight, I!Call
<1>12. ~Asks(I!Walk[12].call)
  BY CallsAre DEF I!Get, I!Post, I!Patch, I!Redeem, I!Preflight, I!Call
<1>13. ~Asks(I!Walk[13].call)
  BY CallsAre DEF I!Get, I!Post, I!Patch, I!Redeem, I!Preflight, I!Call
<1>14. ~Asks(I!Walk[14].call)
  BY CallsAre DEF I!Get, I!Post, I!Patch, I!Redeem, I!Preflight, I!Call
<1>15. ~Asks(I!Walk[15].call)
  BY CallsAre DEF I!Get, I!Post, I!Patch, I!Redeem, I!Preflight, I!Call
<1>16. ~Asks(I!Walk[16].call)
  BY CallsAre DEF I!Get, I!Post, I!Patch, I!Redeem, I!Preflight, I!Call
<1>17. ~Asks(I!Walk[17].call)
  BY CallsAre DEF I!Get, I!Post, I!Patch, I!Redeem, I!Preflight, I!Call
<1>18. ~Asks(I!Walk[18].call)
  BY CallsAre DEF I!Get, I!Post, I!Patch, I!Redeem, I!Preflight, I!Call
<1>19. ~Asks(I!Walk[19].call)
  BY CallsAre DEF I!Get, I!Post, I!Patch, I!Redeem, I!Preflight, I!Call
<1>20. ~Asks(I!Walk[20].call)
  BY CallsAre DEF I!Get, I!Post, I!Patch, I!Redeem, I!Preflight, I!Call
<1>21. ~Asks(I!Walk[21].call)
  BY CallsAre DEF I!Get, I!Post, I!Patch, I!Redeem, I!Preflight, I!Call
<1>22. ~Asks(I!Walk[22].call)
  BY CallsAre DEF I!Get, I!Post, I!Patch, I!Redeem, I!Preflight, I!Call
<1>23. ~Asks(I!Walk[23].call)
  BY CallsAre DEF I!Get, I!Post, I!Patch, I!Redeem, I!Preflight, I!Call
<1>24. ~Asks(I!Walk[24].call)
  BY CallsAre DEF I!Get, I!Post, I!Patch, I!Redeem, I!Preflight, I!Call
<1>25. ~Asks(I!Walk[25].call)
  BY CallsAre DEF I!Get, I!Post, I!Patch, I!Redeem, I!Preflight, I!Call
<1>26. ~Asks(I!Walk[26].call)
  BY CallsAre DEF I!Get, I!Post, I!Patch, I!Redeem, I!Preflight, I!Call
<1>27. ~Asks(I!Walk[27].call)
  BY CallsAre DEF I!Get, I!Post, I!Patch, I!Redeem, I!Preflight, I!Call
<1>28. ~Asks(I!Walk[28].call)
  BY CallsAre DEF I!Get, I!Post, I!Patch, I!Redeem, I!Preflight, I!Call
<1>11. Asks(I!Walk[11].call)
  BY CallsAre
<1> HIDE DEF Asks
<1>29. \A n \in 1..28 : Asks(I!Walk[n].call) <=> n = 11
  <2> SUFFICES ASSUME NEW n \in 1..28 PROVE Asks(I!Walk[n].call) <=> n = 11
    OBVIOUS
  <2>1. CASE n \in 1..7
    <3>1. n = 1 \/ n = 2 \/ n = 3 \/ n = 4 \/ n = 5 \/ n = 6 \/ n = 7
      BY <2>1
    <3> QED
      BY <3>1, <1>1, <1>2, <1>3, <1>4, <1>5, <1>6, <1>7
  <2>2. CASE n \in 8..14
    <3>1. n = 8 \/ n = 9 \/ n = 10 \/ n = 11 \/ n = 12 \/ n = 13 \/ n = 14
      BY <2>2
    <3> QED
      BY <3>1, <1>8, <1>9, <1>10, <1>11, <1>12, <1>13, <1>14
  <2>3. CASE n \in 15..21
    <3>1. n = 15 \/ n = 16 \/ n = 17 \/ n = 18 \/ n = 19 \/ n = 20 \/ n = 21
      BY <2>3
    <3> QED
      BY <3>1, <1>15, <1>16, <1>17, <1>18, <1>19, <1>20, <1>21
  <2>4. CASE n \in 22..28
    <3>1. n = 22 \/ n = 23 \/ n = 24 \/ n = 25 \/ n = 26 \/ n = 27 \/ n = 28
      BY <2>4
    <3> QED
      BY <3>1, <1>22, <1>23, <1>24, <1>25, <1>26, <1>27, <1>28
  <2> QED
    BY <2>1, <2>2, <2>3, <2>4
<1> QED
  BY <1>29, WalkIsLong DEF Asks

\* The script's verdict is right.
LEMMA SmokeIsRight == ApiInv /\ (apMaxAttempts > 1 => SmokeInv) => I!SmokeTellsTheTruth
<1> SUFFICES ASSUME ApiInv, SmokeInv
             PROVE  apWalk.failed = IF ~apDeployment.testNumbers /\ apWalk.at = I!Walked
                                    THEN {n \in DOMAIN I!Walk :
                                            I!Walk[n].call = I!Post("/auth/request", "phone")}
                                    ELSE {}
  BY DEF I!SmokeTellsTheTruth
<1> QED
  BY OneCallAsks, WalkIsLong DEF SmokeInv, ApiInv

LEMMA ScansAreEarned == ApiInv => I!ScansNeedAProfile
<1> SUFFICES ASSUME ApiInv, NEW c \in I!Clients, apUsers[c].redeemed
             PROVE  /\ I!Complete(c) /\ apOtp[c].state \in {"used", "sent"}
                    /\ apDeployment.termsRequired => apUsers[c].terms
  BY DEF I!ScansNeedAProfile
<1> QED
  BY DEF ApiInv, Otp, I!Complete

-----------------------------------------------------------------------------
(* The components together                                                 *)

\* Whoever of the middlewares answers, the browser can read it (app.py's
\* chain); a server that boots and is ready has the formats and the peppers
\* of the printed codes (the checks at start-up and /ready); the smoke script
\* fails at the calls it should and nowhere else, and nobody redeems before
\* the gates of phone, name and terms let them (deps.py, smoke_demo.py).
THEOREM GuardsStand == Spec => []GuardsHold
<1>1. ChainInv => W!ChainHolds
  BY DEF ChainInv
<1>2. StartupInv => S!BootIsGuarded /\ S!ReadyIsTrue /\ S!StampsAgree
  BY StartupSound
<1>3. ApiInv /\ (apMaxAttempts > 1 => SmokeInv) => I!SmokeTellsTheTruth /\ I!ScansNeedAProfile
  BY SmokeIsRight, ScansAreEarned
<1> QED
  BY <1>1, <1>2, <1>3, ChainAlways, StartupAlways, ApiAlways, PTL DEF GuardsHold

\* Every component of Services keeps its types, whoever takes the steps.
THEOREM TypesHold == Spec => []TypeOK
<1>1. /\ PrintInv => P!TypeOK
      /\ AccountInv /\ Catalogued => A!TypeOK
      /\ MediaInv => M!TypeOK
      /\ ListInv => L!TypeOK
      /\ BoardInv => B!TypeOK
  BY PrintTypes, AccountTypes, MediaTypes, ListTypes, BoardTypes
<1>2. /\ LimiterInv /\ ChainInv => W!TypeOK
      /\ BackupsInv => K!TypeOK
      /\ ResetInv => R!TypeOK
      /\ StartupInv => S!TypeOK
      /\ ApiInv => I!TypeOK
  BY MiddlewareTypes, BackupsSound, ResetSound, StartupSound, ApiTypes
<1> QED
  BY <1>1, <1>2, PrintAlways, AlwaysAccountInv, AlwaysCatalogued, MediaAlways, ListAlways,
     BoardAlways, LimiterAlways, ChainAlways, BackupsAlways, ResetAlways, StartupAlways,
     ApiAlways, PTL DEF TypeOK

-----------------------------------------------------------------------------
(* The pure functions                                                      *)

\* What has been asked is a question that the functions' callers have.
Questioned == question = None \/ Askable(question)

LEMMA QuestionedStays == Spec => []Questioned
<1>1. Init => Questioned
  BY DEF Init, Questioned
<1>2. Questioned /\ [Next]_vars => Questioned'
  <2> SUFFICES ASSUME Questioned, [Next]_vars
               PROVE  Questioned'
    OBVIOUS
  <2>1. CASE Ask
    <3>1. PICK about \in DOMAIN Questions : question' \in Questions[about]
      BY <2>1 DEF Ask
    <3>2. Askable(question')
      BY <3>1, QuestionsAssumption
    <3> QED
      BY <3>2 DEF Questioned, Askable
  <2>2. CASE UNCHANGED question
    BY <2>2 DEF Questioned, Askable
  <2>3. Next => Ask \/ UNCHANGED question
    BY DEF Next
  <2>4. UNCHANGED vars => UNCHANGED question
    BY DEF vars
  <2> QED
    BY <2>1, <2>2, <2>3, <2>4
<1> QED
  BY <1>1, <1>2, PTL DEF Spec

\* The pure functions do what their documents say, whatever they are asked,
\* for every setting: codes, splits, draws, boards, pages, refusals, phone
\* numbers, settings and server checks.
THEOREM FunctionsStayExact == Spec => []FunctionsAreExact
<1>1. Questioned => FunctionsAreExact
  BY AnswersAreExact DEF Questioned, FunctionsAreExact
<1> QED
  BY <1>1, QuestionedStays, PTL
=============================================================================
