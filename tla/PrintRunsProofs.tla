-------------------------- MODULE PrintRunsProofs ---------------------------
(***************************************************************************)
(* Theorems about PrintRuns, for any flavors, quotas, requests and number  *)
(* of commands, of which any may be killed at any step.                    *)
(*                                                                         *)
(* A run that holds the lock knows what every batch of the table has of    *)
(* each flavor, because nobody else inserts while it does; what it still   *)
(* has to do fits what is left (QuotaInv).  What it created is told apart  *)
(* from every other run's by its label, so what it takes back is its own   *)
(* (PrintInv).                                                              *)
(***************************************************************************)
EXTENDS Services, SumProofs, SequenceTheorems

LEMMA PrintRunsRun == Spec => P!Spec
<1>1. Init => P!Init
  BY DEF Init
<1>2. [Next]_vars => [P!Next]_(P!vars)
  BY DEF Next, Ask, components, vars, P!vars, prVars
<1> QED
  BY <1>1, <1>2, PTL DEF Spec, P!Spec

LEMMA OneSum == \A f, T : P!SumFunctionOnSet(f, T) = Sum(f, T)
  BY DEF P!SumFunctionOnSet, P!FoldFunctionOnSet, P!MapThenFoldSet, Sum, SumFunctionOnSet,
     FoldFunctionOnSet, MapThenFoldSet

LEMMA PrintNumbers ==
  /\ prQuota \in Nat /\ prChunk \in Nat \ {0} /\ prUnit \in Nat \ {0} /\ None \notin Actors
  /\ prSkus \in Seq(P!Flavors) /\ \A m, n \in DOMAIN prSkus : prSkus[m] = prSkus[n] => m = n
  /\ prRequests \subseteq [kind : {"run", "loose", "freeze"}, k : Nat,
                           weights : [P!Flavors -> Int]]
  BY ServicesAssumption DEF P!PrintRunsAssumption, P!AllocationAssumption

LEMMA FlavorsAreFinite == IsFiniteSet(P!Flavors)
<1>1. DOMAIN prSkus = 1..Len(prSkus) /\ Len(prSkus) \in Nat
  BY PrintNumbers
<1> DEFINE f == [n \in 1..Len(prSkus) |-> prSkus[n]]
<1>2. f \in Surjection(1..Len(prSkus), P!Flavors)
  BY <1>1 DEF P!Flavors, Surjection
<1> QED
  BY <1>1, <1>2, FS_Interval, FS_Surjection

Weights == [P!Flavors -> Int]

LEMMA AllocationType ==
  ASSUME NEW k \in Nat, NEW w \in Weights
  PROVE  P!Allocate(k, w) \in Weights
<1>1. \A c \in P!Flavors : (w[c] * k) \div prUnit \in Int
  BY PrintNumbers DEF Weights
<1> DEFINE floor == [c \in P!Flavors |-> (w[c] * k) \div prUnit]
<1> QED
  BY <1>1 DEF P!Allocate, Weights

LEMMA LeastOf ==
  ASSUME NEW T, T \subseteq Nat, T # {}
  PROVE  P!Min(T) \in T /\ \A n \in T : P!Min(T) <= n
<1>1. PICK m \in T : \A n \in T : m <= n
  BY LeastNatural
<1> QED
  BY <1>1 DEF P!Min

-----------------------------------------------------------------------------
(* The invariant                                                           *)

Stops == P!Going \cup {"new", "done", "killed", "rolled_back"}
PrintBatch == [label : Nat, by : Actors, sku : P!Flavors, status : {"generated", "active", "void"},
          quantity : Nat, inserted : Nat, frozen : BOOLEAN]
Command == [at : Stops, kind : {"none", "run", "loose", "freeze"}, k : Nat, weights : Weights,
            id : Nat, todo : SUBSET DOMAIN prSkus, allocation : Weights, batch : Nat,
            orphans : SUBSET Nat, seen : Nat, frozen : BOOLEAN]

\* Where a run has the lock, where its label is its own, and where batches
\* that its rollback has voided may be.
Held == P!Making \cup {"plan", "unlock", "orphans", "void", "unlink", "release"}
Labelling == P!Making \cup {"orphans", "void"}
Undone == {"void", "unlink", "release", "rolled_back", "killed"}

\* What a command's progress says of the batches, the files and the lock.
Fine(i, q, table, files, holder) ==
  /\ q \in Command
  /\ q.at = "new" <=> q.kind = "none"
  /\ q.kind = "loose" => q.at \in {"open", "create", "insert", "done", "killed"} /\ q.id = 0
  /\ q.kind = "freeze" => q.at \in {"read", "freeze", "done", "killed"}
  /\ q.kind = "run" /\ q.at \in Held => holder = i
  /\ \A n \in q.todo : q.allocation[prSkus[n]] > 0
  /\ q.at \in {"create", "insert"} => q.todo # {}
  /\ q.kind = "run" /\ q.at \in {"read", "freeze"} => q.todo # {}
  /\ q.at \in {"insert", "read", "freeze"} => q.batch \in DOMAIN table
  /\ q.at \in {"new", "lock", "plan"} =>
       /\ \A b \in DOMAIN table : table[b].by # i
       /\ \A f \in files : f.by # i
  /\ q.kind = "run" /\ q.at \in Labelling =>
       q.id > 0 /\ \A b \in DOMAIN table : table[b].label = q.id <=> table[b].by = i
  /\ q.at = "void" =>
       /\ \A b \in q.orphans : b \in DOMAIN table /\ table[b].by = i
       /\ \A b \in DOMAIN table : table[b].by = i => b \in q.orphans \/ table[b].status = "void"
  /\ q.kind = "run" /\ q.at \in {"unlink", "release", "rolled_back"} =>
       \A b \in DOMAIN table : table[b].by = i => table[b].status = "void"
  /\ q.kind = "run" /\ q.at \in {"release", "rolled_back"} => \A f \in files : f.by # i

PrintInv ==
  /\ prBatches \in Seq(PrintBatch)
  /\ \A b \in DOMAIN prBatches : prBatches[b].inserted <= prBatches[b].quantity
  /\ prProc \in [Actors -> Command]
  /\ \A i \in Actors : Fine(i, prProc[i], prBatches, prFiles, prHolder)
  /\ \A e \in prEvents :
       /\ e.batch \in DOMAIN prBatches
       /\ e.type = "void" /\ e.actor = "rollback" =>
            prProc[prBatches[e.batch].by].at \in Undone
  /\ prHolder \in Actors \cup {None}

LEMMA PrintInit == P!Init => PrintInv
<1> SUFFICES ASSUME P!Init PROVE PrintInv
  OBVIOUS
<1>1. /\ prBatches = <<>> /\ prEvents = {} /\ prFiles = {} /\ prHolder = None
      /\ prProc = [i \in Actors |-> P!Idle]
  BY DEF P!Init
<1>2. P!Idle \in Command
  BY DEF P!Idle, Command, Stops, Weights
<1>3. DOMAIN <<>> = {} /\ <<>> \in Seq(PrintBatch)
  OBVIOUS
<1>4. \A i \in Actors : Fine(i, P!Idle, <<>>, {}, None)
  BY <1>2, <1>3 DEF Fine, P!Idle, Held, Labelling, P!Making
<1> QED
  BY <1>1, <1>2, <1>3, <1>4 DEF PrintInv

-----------------------------------------------------------------------------
(* Steps                                                                   *)

\* One command moves from its record to q; the batches it had a part in keep
\* their labels, and no batch comes back from the void.
LEMMA CommandStep ==
  ASSUME PrintInv, NEW i \in Actors, NEW q, prProc' = [prProc EXCEPT ![i] = q],
         prBatches' \in Seq(PrintBatch),
         \A b \in DOMAIN prBatches' : prBatches'[b].inserted <= prBatches'[b].quantity,
         \A b \in DOMAIN prBatches :
           /\ b \in DOMAIN prBatches'
           /\ prBatches'[b].label = prBatches[b].label /\ prBatches'[b].by = prBatches[b].by
           /\ prBatches[b].status = "void" => prBatches'[b].status = "void",
         \A b \in DOMAIN prBatches' \ DOMAIN prBatches :
           /\ prBatches'[b].by = i
           /\ prBatches'[b].label = 0 \/ prHolder = i,
         \A f \in prFiles' : f \in prFiles \/ f.by = i,
         prHolder' \in Actors \cup {None},
         prHolder' # prHolder => prHolder \in {None, i},
         Fine(i, q, prBatches', prFiles', prHolder'),
         prProc[i].at \in Undone => q.at \in Undone,
         \A e \in prEvents' :
           \/ e \in prEvents
           \/ /\ e.batch \in DOMAIN prBatches'
              /\ e.type = "void" /\ e.actor = "rollback" =>
                   prBatches'[e.batch].by = i /\ q.at \in Undone
  PROVE  PrintInv'
<1>1. prProc'[i] = q /\ DOMAIN prProc' = Actors /\ \A j \in Actors \ {i} : prProc'[j] = prProc[j]
  BY DEF PrintInv
<1>2. ASSUME NEW j \in Actors \ {i} PROVE Fine(j, prProc[j], prBatches', prFiles', prHolder')
  <2>1. Fine(j, prProc[j], prBatches, prFiles, prHolder)
    BY DEF PrintInv
  <2>2. PICK p : p = prProc[j]
    OBVIOUS
  <2>3. p \in Command /\ None # j
    BY <2>1, <2>2, PrintNumbers DEF Fine
  <2>4. p.kind = "run" /\ p.at \in Held => prHolder = j /\ prHolder' = j
    BY <2>1, <2>2, <2>3 DEF Fine
  <2>5. Labelling \subseteq Held
    BY DEF Labelling, Held
  <2>6. p.kind = "run" /\ p.at \in Labelling =>
          p.id > 0 /\ \A b \in DOMAIN prBatches' : prBatches'[b].label = p.id <=> prBatches'[b].by = j
    <3> SUFFICES ASSUME p.kind = "run", p.at \in Labelling, NEW b \in DOMAIN prBatches'
                 PROVE  p.id > 0 /\ (prBatches'[b].label = p.id <=> prBatches'[b].by = j)
      BY <2>1, <2>2 DEF Fine
    <3>1. prHolder = j /\ p.id > 0
      BY <2>1, <2>2, <2>4, <2>5 DEF Fine
    <3>2. CASE b \in DOMAIN prBatches
      BY <2>1, <2>2, <3>1, <3>2 DEF Fine
    <3>3. CASE b \notin DOMAIN prBatches
      BY <2>3, <3>1, <3>3
    <3> QED
      BY <3>2, <3>3
  <2>7. \A b \in DOMAIN prBatches' : prBatches'[b].by = j => b \in DOMAIN prBatches
    OBVIOUS
  <2> QED
    BY <2>1, <2>2, <2>4, <2>6, <2>7 DEF Fine
<1>3. ASSUME NEW e \in prEvents'
      PROVE  /\ e.batch \in DOMAIN prBatches'
             /\ e.type = "void" /\ e.actor = "rollback" => prProc'[prBatches'[e.batch].by].at \in Undone
  <2>1. CASE e \in prEvents
    <3>1. e.batch \in DOMAIN prBatches /\ prBatches'[e.batch].by = prBatches[e.batch].by
          /\ prBatches[e.batch].by \in Actors
      <4>1. e.batch \in DOMAIN prBatches /\ prBatches \in Seq(PrintBatch)
        BY <2>1 DEF PrintInv
      <4>2. prBatches[e.batch] \in PrintBatch
        BY <4>1
      <4> QED
        BY <4>1, <4>2 DEF PrintBatch
    <3>2. e.type = "void" /\ e.actor = "rollback" => prProc[prBatches[e.batch].by].at \in Undone
      BY <2>1 DEF PrintInv
    <3> QED
      BY <1>1, <3>1, <3>2
  <2>2. CASE e \notin prEvents
    BY <1>1, <2>2
  <2> QED
    BY <2>1, <2>2
<1>4. \A j \in Actors : Fine(j, prProc'[j], prBatches', prFiles', prHolder')
  BY <1>1, <1>2
<1>5. prProc' \in [Actors -> Command]
  <2>1. q \in Command
    BY DEF Fine
  <2> QED
    BY <2>1 DEF PrintInv
<1> QED
  BY <1>3, <1>4, <1>5 DEF PrintInv

\* A step that leaves the batches and their events alone.
LEMMA QuietStep ==
  ASSUME PrintInv, NEW i \in Actors, NEW q, prProc' = [prProc EXCEPT ![i] = q],
         UNCHANGED <<prBatches, prEvents>>,
         \A f \in prFiles' : f \in prFiles \/ f.by = i,
         prHolder' \in Actors \cup {None},
         prHolder' # prHolder => prHolder \in {None, i},
         Fine(i, q, prBatches, prFiles', prHolder'),
         prProc[i].at \in Undone => q.at \in Undone
  PROVE  PrintInv'
  BY CommandStep DEF PrintInv

LEMMA Known ==
  ASSUME PrintInv, NEW i \in Actors
  PROVE  /\ Fine(i, prProc[i], prBatches, prFiles, prHolder) /\ prProc[i] \in Command
         /\ prHolder \in Actors \cup {None} /\ prBatches \in Seq(PrintBatch)
         /\ DOMAIN prBatches = 1..Len(prBatches) /\ Len(prBatches) \in Nat
         /\ \A b \in DOMAIN prBatches : prBatches[b] \in PrintBatch
  BY DEF PrintInv, Fine

LEMMA StartStep ==
  ASSUME PrintInv, NEW i \in Actors, NEW r \in prRequests, P!Start(i, r)
  PROVE  PrintInv'
<1> DEFINE loose == r.kind = "loose"
<1>1. PICK b \in IF r.kind = "freeze" THEN DOMAIN prBatches ELSE {0} :
        prProc' = [prProc EXCEPT ![i] =
          [P!Idle EXCEPT !.kind = r.kind, !.k = r.k, !.weights = r.weights, !.batch = b,
             !.at = CASE r.kind = "run" -> "lock" [] r.kind = "loose" -> "open"
                      [] r.kind = "freeze" -> "read",
             !.allocation = IF loose THEN P!Allocate(r.k, r.weights) ELSE @,
             !.todo = IF loose THEN P!Positions(P!Allocate(r.k, r.weights)) ELSE @]]
  BY DEF P!Start
<1> DEFINE q == [P!Idle EXCEPT !.kind = r.kind, !.k = r.k, !.weights = r.weights, !.batch = b,
             !.at = CASE r.kind = "run" -> "lock" [] r.kind = "loose" -> "open"
                      [] r.kind = "freeze" -> "read",
             !.allocation = IF loose THEN P!Allocate(r.k, r.weights) ELSE @,
             !.todo = IF loose THEN P!Positions(P!Allocate(r.k, r.weights)) ELSE @]
<1>2. prProc[i].at = "new" /\ UNCHANGED <<prBatches, prEvents, prFiles, prHolder>>
  BY DEF P!Start
<1>3. r.kind \in {"run", "loose", "freeze"} /\ r.k \in Nat /\ r.weights \in Weights
  BY PrintNumbers DEF Weights
<1>4. PICK a \in Weights : a = P!Allocate(r.k, r.weights)
  BY <1>3, AllocationType
<1>5. P!Positions(a) \in SUBSET DOMAIN prSkus /\ \A n \in P!Positions(a) : a[prSkus[n]] > 0
  BY DEF P!Positions
<1>6. P!Idle \in Command /\ b \in Nat /\ (r.kind = "freeze" => b \in DOMAIN prBatches)
  BY <1>1, Known DEF P!Idle, Command, Stops, Weights
<1>7. /\ q.kind = r.kind /\ q.batch = b /\ q.id = 0 /\ q.orphans = {}
      /\ q.at = (CASE r.kind = "run" -> "lock" [] r.kind = "loose" -> "open"
                   [] r.kind = "freeze" -> "read")
      /\ q.todo = (IF loose THEN P!Positions(a) ELSE {})
      /\ loose => q.allocation = a
  BY <1>4 DEF P!Idle
<1>8. q.at = (IF r.kind = "run" THEN "lock" ELSE IF loose THEN "open" ELSE "read")
  BY <1>3, <1>7
<1>9. q \in Command
  BY <1>3, <1>4, <1>5, <1>6, <1>8 DEF Command, Stops, P!Going, P!Making
<1>10. prProc' = [prProc EXCEPT ![i] = q]
  BY <1>1
<1> HIDE DEF q
<1>11. Fine(i, q, prBatches, prFiles, prHolder)
  <2>1. \A n \in q.todo : q.allocation[prSkus[n]] > 0
    BY <1>5, <1>7
  <2>2. (\A c \in DOMAIN prBatches : prBatches[c].by # i) /\ (\A f \in prFiles : f.by # i)
    BY <1>2, Known DEF Fine
  <2> QED
    BY <1>3, <1>6, <1>7, <1>8, <1>9, <2>1, <2>2 DEF Fine, Held, Labelling, P!Making
<1> QED
  BY <1>2, <1>10, <1>11, QuietStep, Known DEF Undone

\* A step that only moves on, and a command that has ended.
LEMMA GoStep ==
  ASSUME PrintInv, NEW i \in Actors, NEW at \in Stops, P!Go(i, at),
         UNCHANGED <<prBatches, prEvents>>,
         \A f \in prFiles' : f \in prFiles \/ f.by = i,
         prHolder' \in Actors \cup {None},
         prHolder' # prHolder => prHolder \in {None, i},
         NEW q, q = [prProc[i] EXCEPT !.at = at],
         Fine(i, q, prBatches, prFiles', prHolder'),
         prProc[i].at \in Undone => at \in Undone
  PROVE  PrintInv'
<1>1. prProc' = [prProc EXCEPT ![i] = q]
  BY DEF P!Go, PrintInv
<1>2. q.at = at
  BY Known DEF Command
<1> QED
  BY <1>1, <1>2, QuietStep

LEMMA EndedFine ==
  ASSUME PrintInv, NEW i \in Actors, NEW at \in {"done", "killed"}, NEW files, NEW holder,
         prProc[i].at # "new"
  PROVE  /\ Fine(i, P!Ended(i, at), prBatches, files, holder)
         /\ P!Ended(i, at).at = at
<1> DEFINE q == P!Ended(i, at)
<1>1. prProc[i] \in Command /\ prProc[i].kind # "none"
  BY Known DEF Fine
<1>2. P!Idle \in Command
  BY DEF P!Idle, Command, Stops, Weights
<1>3. q \in Command
  BY <1>1, <1>2 DEF P!Ended, Command, Stops
<1>4. q.at = at /\ q.kind = prProc[i].kind /\ q.todo = {} /\ q.id = 0
  BY DEF P!Ended, P!Idle
<1> HIDE DEF q
<1>5. Fine(i, q, prBatches, files, holder)
  BY <1>1, <1>3, <1>4 DEF Fine, Held, Labelling, P!Making
<1> QED
  BY <1>4, <1>5 DEF q

LEMMA LockStep ==
  ASSUME PrintInv, NEW i \in Actors, P!Lock(i)
  PROVE  PrintInv'
<1> DEFINE q == [prProc[i] EXCEPT !.at = "plan"]
<1>1. /\ prProc[i].at = "lock" /\ prHolder = None /\ prHolder' = i /\ P!Go(i, "plan")
      /\ UNCHANGED <<prBatches, prEvents, prFiles>>
  BY DEF P!Lock
<1>2. prProc[i] \in Command /\ Fine(i, prProc[i], prBatches, prFiles, prHolder)
  BY Known
<1>3. q \in Command /\ q.at = "plan" /\ q.kind = prProc[i].kind /\ q.todo = prProc[i].todo
      /\ q.allocation = prProc[i].allocation
  BY <1>2 DEF Command, Stops, P!Going
<1> HIDE DEF q
<1>4. Fine(i, q, prBatches, prFiles', prHolder')
  BY <1>1, <1>2, <1>3 DEF Fine, Labelling, P!Making
<1> QED
  BY <1>1, <1>4, GoStep DEF Undone, Stops, P!Going, q

\* The id of a run is one no label has: there are more ids than batches.
LEMMA RunIdIsNew ==
  ASSUME PrintInv
  PROVE  P!UniqueRunId \in Nat \ {0} /\ P!Labelled(P!UniqueRunId) = {}
<1> DEFINE len == Len(prBatches)
           Labels == {n \in 1..(len + 1) : P!Labelled(n) = {}}
<1>1. len \in Nat /\ DOMAIN prBatches = 1..len
  BY DEF PrintInv
<1>2. Labels # {}
  <2> SUFFICES ASSUME Labels = {} PROVE FALSE
    OBVIOUS
  <2> DEFINE f == [n \in 1..(len + 1) |-> CHOOSE b \in 1..len : prBatches[b].label = n]
  <2>1. ASSUME NEW n \in 1..(len + 1) PROVE f[n] \in 1..len /\ prBatches[f[n]].label = n
    <3>1. P!Labelled(n) # {}
      OBVIOUS
    <3>2. \E b \in 1..len : prBatches[b].label = n
      BY <1>1, <3>1 DEF P!Labelled
    <3> QED
      BY <3>2
  <2>2. /\ IsFiniteSet(1..(len + 1)) /\ Cardinality(1..(len + 1)) = len + 1
        /\ IsFiniteSet(1..len) /\ Cardinality(1..len) = len
    <3> HIDE DEF len, f
    <3>1. 1 \in Int /\ len \in Int /\ len + 1 \in Int /\ ~(1 > len + 1) /\ (1 > len => len = 0)
      BY <1>1
    <3>2. IsFiniteSet(1..(len + 1)) /\ Cardinality(1..(len + 1)) = len + 1
      BY <3>1, FS_Interval
    <3>3. IsFiniteSet(1..len) /\ Cardinality(1..len) = len
      BY <3>1, FS_Interval
    <3> QED
      BY <3>2, <3>3
  <2>3. f \in [1..(len + 1) -> 1..len]
    BY <2>1
  <2> HIDE DEF f
  <2>4. \E m, n \in 1..(len + 1) : m # n /\ f[m] = f[n]
    BY <1>1, <2>2, <2>3, FS_PigeonHole
  <2> QED
    BY <2>1, <2>4
<1>3. Labels \subseteq Nat
  OBVIOUS
<1>4. P!UniqueRunId = P!Min(Labels)
  BY DEF P!UniqueRunId
<1>5. P!Min(Labels) \in Labels
  <2> HIDE DEF Labels
  <2> QED
    BY <1>2, <1>3, LeastOf
<1>6. P!UniqueRunId \in Labels
  <2> HIDE DEF Labels
  <2> QED
    BY <1>5, <1>4
<1> QED
  BY <1>1, <1>6

LEMMA PlanStep ==
  ASSUME PrintInv, NEW i \in Actors, P!Plan(i)
  PROVE  PrintInv'
<1>1. PICK p : p = prProc[i]
  OBVIOUS
<1>2. /\ p.at = "plan" /\ p \in Command /\ Fine(i, p, prBatches, prFiles, prHolder)
      /\ p.kind = "run" /\ UNCHANGED <<prBatches, prEvents, prFiles, prHolder>>
  BY <1>1, Known DEF P!Plan, Fine, Command
<1>3. PICK a \in Weights : a = P!Allocate(p.k, p.weights)
  BY <1>2, AllocationType DEF Command
<1>4. P!Positions(a) \in SUBSET DOMAIN prSkus /\ \A n \in P!Positions(a) : a[prSkus[n]] > 0
  BY DEF P!Positions
<1>5. PICK id \in Nat \ {0} : id = P!UniqueRunId /\ P!Labelled(id) = {}
  BY RunIdIsNew
<1>6. PICK fits \in BOOLEAN : fits = P!Fits(a, P!Remaining(P!IssuedPerCity))
  BY DEF P!Fits
<1> DEFINE q == [p EXCEPT !.at = IF fits THEN "open" ELSE "release", !.id = id,
                          !.seen = Len(prBatches), !.allocation = a,
                          !.todo = IF fits THEN P!Positions(a) ELSE {}]
<1>7. prProc' = [prProc EXCEPT ![i] = q]
  BY <1>1, <1>3, <1>5, <1>6 DEF P!Plan, PrintInv
<1>8. Len(prBatches) \in Nat
  BY Known
<1>9. q \in Command
  BY <1>2, <1>3, <1>4, <1>5, <1>8 DEF Command, Stops, P!Going, P!Making
<1>10. /\ q.at = (IF fits THEN "open" ELSE "release") /\ q.id = id /\ q.kind = "run"
       /\ q.allocation = a /\ q.todo = (IF fits THEN P!Positions(a) ELSE {})
  BY <1>2 DEF Command
<1> HIDE DEF q
<1>11. \A b \in DOMAIN prBatches : prBatches[b].by # i /\ prBatches[b].label # id
  BY <1>2, <1>5 DEF Fine, P!Labelled
<1>12. \A n \in q.todo : q.allocation[prSkus[n]] > 0
  BY <1>4, <1>10
<1>13. prHolder = i /\ \A f \in prFiles : f.by # i
  BY <1>2 DEF Fine, Held
<1>14. Fine(i, q, prBatches, prFiles, prHolder)
  BY <1>9, <1>10, <1>11, <1>12, <1>13 DEF Fine
<1>15. i \in Actors \cup {None} /\ p.at \notin Undone
  BY <1>2 DEF Undone
<1> QED
  BY <1>1, <1>2, <1>7, <1>13, <1>14, <1>15, QuietStep

LEMMA OpenStep ==
  ASSUME PrintInv, NEW i \in Actors, P!OpenCsv(i)
  PROVE  PrintInv'
<1>1. PICK p : p = prProc[i]
  OBVIOUS
<1>2. /\ p.at = "open" /\ p \in Command /\ Fine(i, p, prBatches, prFiles, prHolder)
      /\ prHolder \in Actors \cup {None} /\ UNCHANGED <<prBatches, prEvents, prHolder>>
  BY <1>1, Known DEF P!OpenCsv
<1>3. CASE p.todo = {} /\ p.kind = "run"
  <2> DEFINE q == [p EXCEPT !.at = "unlock"]
  <2>1. P!Go(i, "unlock") /\ UNCHANGED prFiles
    BY <1>1, <1>3 DEF P!OpenCsv
  <2>2. q \in Command /\ q.at = "unlock" /\ q.kind = p.kind /\ q.todo = {}
    BY <1>2, <1>3 DEF Command, Stops, P!Going
  <2> HIDE DEF q
  <2>3. Fine(i, q, prBatches, prFiles, prHolder)
    BY <1>2, <1>3, <2>2 DEF Fine, Held, Labelling, P!Making
  <2> QED
    BY <1>1, <1>2, <2>1, <2>3, GoStep DEF Undone, Stops, P!Going, q
<1>4. CASE p.todo = {} /\ p.kind # "run"
  <2>1. prProc' = [prProc EXCEPT ![i] = P!Ended(i, "done")] /\ UNCHANGED prFiles
    BY <1>1, <1>4 DEF P!OpenCsv, P!End
  <2>2. Fine(i, P!Ended(i, "done"), prBatches, prFiles, prHolder)
    BY <1>1, <1>2, EndedFine
  <2> QED
    BY <1>1, <1>2, <2>1, <2>2, QuietStep DEF Undone
<1>5. CASE p.todo # {}
  <2> DEFINE q == [p EXCEPT !.at = "create"]
  <2>1. P!Go(i, "create") /\ prFiles' = prFiles \cup {[by |-> i, sku |-> P!Sku(i)]}
    BY <1>1, <1>5 DEF P!OpenCsv
  <2>2. /\ q \in Command /\ q.at = "create" /\ q.kind = p.kind /\ q.todo = p.todo
        /\ q.allocation = p.allocation /\ q.id = p.id
    BY <1>2 DEF Command, Stops, P!Going, P!Making
  <2> HIDE DEF q
  <2>3. Fine(i, q, prBatches, prFiles', prHolder)
    BY <1>2, <1>5, <2>2 DEF Fine, Held, Labelling, P!Making
  <2>4. \A f \in prFiles' : f \in prFiles \/ f.by = i
    BY <2>1
  <2> QED
    BY <1>1, <1>2, <2>1, <2>3, <2>4, GoStep DEF Undone, Stops, P!Going, P!Making, q
<1> QED
  BY <1>3, <1>4, <1>5

\* The flavor whose batch is being made.
LEMMA SkuIsAFlavor ==
  ASSUME PrintInv, NEW i \in Actors, prProc[i].todo # {}
  PROVE  /\ P!Min(prProc[i].todo) \in prProc[i].todo
         /\ P!Min(prProc[i].todo) \in DOMAIN prSkus
         /\ P!Sku(i) = prSkus[P!Min(prProc[i].todo)] /\ P!Sku(i) \in P!Flavors
<1>1. prProc[i].todo \subseteq DOMAIN prSkus /\ DOMAIN prSkus \subseteq Nat
  BY Known, PrintNumbers DEF Command
<1>2. P!Min(prProc[i].todo) \in prProc[i].todo
  BY <1>1, LeastOf
<1> QED
  BY <1>1, <1>2 DEF P!Sku, P!Flavors

LEMMA CreateBatchStep ==
  ASSUME PrintInv, NEW i \in Actors, P!CreateBatch(i)
  PROVE  PrintInv'
<1>1. PICK p : p = prProc[i]
  OBVIOUS
<1>2. /\ p.at = "create" /\ p \in Command /\ Fine(i, p, prBatches, prFiles, prHolder)
      /\ prHolder \in Actors \cup {None} /\ UNCHANGED <<prFiles, prHolder>>
  BY <1>1, Known DEF P!CreateBatch
<1>3. PICK c \in P!Flavors : c = P!Sku(i) /\ p.allocation[c] \in Nat /\ p.todo # {}
  <2>1. p.todo # {}
    BY <1>2 DEF Fine
  <2>2. P!Sku(i) \in P!Flavors /\ p.allocation[P!Sku(i)] > 0
    BY <1>1, <1>2, <2>1, SkuIsAFlavor DEF Fine
  <2> QED
    BY <1>2, <2>1, <2>2 DEF Command, Weights
<1> DEFINE b == [label |-> p.id, by |-> i, sku |-> c, status |-> "generated",
                 quantity |-> p.allocation[c], inserted |-> 0, frozen |-> FALSE]
           table == Append(prBatches, b)
           q == [p EXCEPT !.batch = Len(table), !.at = "insert"]
<1>4. /\ prBatches' = table /\ prProc' = [prProc EXCEPT ![i] = q]
      /\ prEvents' = prEvents \cup {P!Event(Len(table), "generated", "none")}
  BY <1>1, <1>3 DEF P!CreateBatch, PrintInv
<1>5. b \in PrintBatch /\ b.by = i /\ b.label = p.id /\ b.inserted = 0 /\ b.quantity \in Nat
  BY <1>2, <1>3 DEF PrintBatch, Command
<1> HIDE DEF b
<1>6. /\ prBatches \in Seq(PrintBatch) /\ Len(prBatches) \in Nat /\ DOMAIN prBatches = 1..Len(prBatches)
      /\ \A n \in DOMAIN prBatches : prBatches[n].inserted <= prBatches[n].quantity
  BY Known DEF PrintInv
<1>7. /\ table \in Seq(PrintBatch) /\ Len(table) = Len(prBatches) + 1 /\ Len(table) \in DOMAIN table
      /\ \A n \in DOMAIN prBatches : n \in DOMAIN table /\ table[n] = prBatches[n]
      /\ \A n \in DOMAIN table \ DOMAIN prBatches : table[n] = b
      /\ Len(table) \in Nat
  BY <1>5, <1>6
<1> HIDE DEF table
<1>8. /\ q \in Command /\ q.at = "insert" /\ q.kind = p.kind /\ q.todo = p.todo
      /\ q.allocation = p.allocation /\ q.id = p.id /\ q.batch = Len(table)
  BY <1>2, <1>7 DEF Command, Stops, P!Going, P!Making
<1> HIDE DEF q
<1>9. \A n \in DOMAIN table : n \in DOMAIN prBatches \/ (table[n].by = i /\ table[n].label = p.id)
  BY <1>5, <1>7
<1>10. p.kind = "run" => p.id > 0 /\ \A n \in DOMAIN table : table[n].label = p.id <=> table[n].by = i
  BY <1>2, <1>7, <1>9 DEF Fine, Labelling, P!Making
<1>11. p.kind = "run" \/ (p.kind = "loose" /\ p.id = 0)
  BY <1>2 DEF Fine, Command
<1>12. Fine(i, q, table, prFiles, prHolder)
  BY <1>2, <1>3, <1>7, <1>8, <1>10, <1>11 DEF Fine, Held, Labelling, P!Making
<1>13. p.kind = "run" => prHolder = i
  BY <1>2 DEF Fine, Held, P!Making
<1>14. \A n \in DOMAIN table : table[n].inserted <= table[n].quantity
  BY <1>5, <1>6, <1>7
<1>15. \A e \in prEvents' : e \in prEvents \/ (e.batch \in DOMAIN table /\ e.type # "void")
  BY <1>4, <1>7 DEF P!Event
<1>16. p.at \notin Undone
  BY <1>2 DEF Undone
<1> QED
  BY <1>1, <1>2, <1>4, <1>7, <1>9, <1>11, <1>12, <1>13, <1>14, <1>15, <1>16, CommandStep

\* A batch is rewritten, but for its label and who made it.
Rewrites(b, row) ==
  /\ b \in DOMAIN prBatches /\ row \in PrintBatch /\ row.inserted <= row.quantity
  /\ row.label = prBatches[b].label /\ row.by = prBatches[b].by
  /\ prBatches[b].status = "void" => row.status = "void"

Rewritten(b, row) == [prBatches EXCEPT ![b] = row]

LEMMA RewrittenTable ==
  ASSUME PrintInv, NEW b, NEW row, Rewrites(b, row)
  PROVE  LET table == Rewritten(b, row) IN
         /\ table \in Seq(PrintBatch) /\ DOMAIN table = DOMAIN prBatches /\ table[b] = row
         /\ \A n \in DOMAIN prBatches :
              /\ table[n].label = prBatches[n].label /\ table[n].by = prBatches[n].by
              /\ n # b => table[n] = prBatches[n]
              /\ prBatches[n].status = "void" => table[n].status = "void"
              /\ table[n].inserted <= table[n].quantity
<1> DEFINE table == Rewritten(b, row)
<1>1. prBatches \in Seq(PrintBatch) /\ \A n \in DOMAIN prBatches : prBatches[n].inserted <= prBatches[n].quantity
  BY DEF PrintInv
<1>2. /\ table \in Seq(PrintBatch) /\ DOMAIN table = DOMAIN prBatches
      /\ \A n \in DOMAIN prBatches : table[n] = IF n = b THEN row ELSE prBatches[n]
  BY <1>1 DEF Rewrites, Rewritten
<1> HIDE DEF table
<1>3. \A n \in DOMAIN prBatches :
        /\ table[n].label = prBatches[n].label /\ table[n].by = prBatches[n].by
        /\ n # b => table[n] = prBatches[n]
        /\ prBatches[n].status = "void" => table[n].status = "void"
        /\ table[n].inserted <= table[n].quantity
  BY <1>1, <1>2 DEF Rewrites
<1>4. table[b] = row
  BY <1>2 DEF Rewrites
<1> QED
  BY <1>2, <1>3, <1>4 DEF table

\* What the events say of a step of i to q that rewrites b.
Told(i, q, b, row) ==
  \A e \in prEvents' :
    \/ e \in prEvents
    \/ /\ e.batch = b
       /\ e.type = "void" /\ e.actor = "rollback" => row.by = i /\ q.at \in Undone

LEMMA BatchStep ==
  ASSUME PrintInv, NEW i \in Actors, NEW q, prProc' = [prProc EXCEPT ![i] = q],
         NEW b, NEW row, Rewrites(b, row),
         prBatches' = Rewritten(b, row), UNCHANGED <<prFiles, prHolder>>,
         Fine(i, q, Rewritten(b, row), prFiles, prHolder),
         prProc[i].at \in Undone => q.at \in Undone, Told(i, q, b, row)
  PROVE  PrintInv'
<1>1. PICK table : table = Rewritten(b, row)
  OBVIOUS
<1>2. /\ table \in Seq(PrintBatch) /\ DOMAIN table = DOMAIN prBatches /\ table[b] = row
      /\ \A n \in DOMAIN prBatches :
           /\ table[n].label = prBatches[n].label /\ table[n].by = prBatches[n].by
           /\ prBatches[n].status = "void" => table[n].status = "void"
           /\ table[n].inserted <= table[n].quantity
  BY <1>1, RewrittenTable
<1>3. prHolder' \in Actors \cup {None} /\ prHolder' = prHolder /\ prFiles' = prFiles
  BY DEF PrintInv
<1>4. Fine(i, q, table, prFiles', prHolder') /\ table = prBatches' /\ b \in DOMAIN table
  BY <1>1, <1>2, <1>3 DEF Rewrites
<1>5. \A e \in prEvents' :
        \/ e \in prEvents
        \/ /\ e.batch \in DOMAIN table
           /\ e.type = "void" /\ e.actor = "rollback" => table[e.batch].by = i /\ q.at \in Undone
  BY <1>2, <1>4 DEF Told
<1>6. /\ \A n \in DOMAIN table : table[n].inserted <= table[n].quantity
      /\ \A n \in DOMAIN prBatches :
           /\ n \in DOMAIN table
           /\ table[n].label = prBatches[n].label /\ table[n].by = prBatches[n].by
           /\ prBatches[n].status = "void" => table[n].status = "void"
      /\ \A n \in DOMAIN table \ DOMAIN prBatches :
           /\ table[n].by = i
           /\ table[n].label = 0 \/ prHolder = i
      /\ \A f \in prFiles' : f \in prFiles \/ f.by = i
  BY <1>2, <1>3
<1>7. table = prBatches' /\ table \in Seq(PrintBatch)
  BY <1>2, <1>4
<1>8. Fine(i, q, table, prFiles', prHolder')
  BY <1>4
<1>9. /\ \A n \in DOMAIN prBatches' : prBatches'[n].inserted <= prBatches'[n].quantity
      /\ \A n \in DOMAIN prBatches :
           /\ n \in DOMAIN prBatches'
           /\ prBatches'[n].label = prBatches[n].label /\ prBatches'[n].by = prBatches[n].by
           /\ prBatches[n].status = "void" => prBatches'[n].status = "void"
      /\ \A n \in DOMAIN prBatches' \ DOMAIN prBatches :
           /\ prBatches'[n].by = i
           /\ prBatches'[n].label = 0 \/ prHolder = i
  BY <1>6, <1>7
<1>10. \A e \in prEvents' :
         \/ e \in prEvents
         \/ /\ e.batch \in DOMAIN prBatches'
            /\ e.type = "void" /\ e.actor = "rollback" =>
                 prBatches'[e.batch].by = i /\ q.at \in Undone
  BY <1>5, <1>7
<1>11. Fine(i, q, prBatches', prFiles', prHolder') /\ prBatches' \in Seq(PrintBatch)
  BY <1>7, <1>8
<1>12. /\ prHolder' \in Actors \cup {None}
       /\ prHolder' # prHolder => prHolder \in {None, i}
       /\ \A f \in prFiles' : f \in prFiles \/ f.by = i
       /\ prProc[i].at \in Undone => q.at \in Undone
  BY <1>3, <1>6
<1> QED
  BY <1>9, <1>10, <1>11, <1>12, CommandStep

\* What no status enters is as fine as before.
LEMMA FineStays ==
  ASSUME PrintInv, NEW i \in Actors, NEW q, Fine(i, q, prBatches, prFiles, prHolder),
         NEW b, NEW row, Rewrites(b, row)
  PROVE  Fine(i, q, Rewritten(b, row), prFiles, prHolder)
<1>1. PICK table : table = Rewritten(b, row)
  OBVIOUS
<1>2. /\ DOMAIN table = DOMAIN prBatches
      /\ \A n \in DOMAIN prBatches :
           /\ table[n].label = prBatches[n].label /\ table[n].by = prBatches[n].by
           /\ prBatches[n].status = "void" => table[n].status = "void"
  BY <1>1, RewrittenTable
<1>3. Fine(i, q, table, prFiles, prHolder)
  BY <1>2 DEF Fine
<1> QED
  BY <1>1, <1>3

LEMMA InsertStep ==
  ASSUME PrintInv, NEW i \in Actors, P!InsertCodes(i)
  PROVE  PrintInv'
<1>1. PICK p : p = prProc[i]
  OBVIOUS
<1>2. PICK b : b = p.batch
  OBVIOUS
<1>3. PICK old : old = prBatches[b]
  OBVIOUS
<1>4. /\ p.at = "insert" /\ p \in Command /\ Fine(i, p, prBatches, prFiles, prHolder)
      /\ UNCHANGED <<prEvents, prFiles, prHolder>>
  BY <1>1, Known DEF P!InsertCodes
<1>5. b \in DOMAIN prBatches /\ old \in PrintBatch /\ old.inserted <= old.quantity
      /\ p.kind \in {"run", "loose"} /\ p.todo # {}
  BY <1>2, <1>3, <1>4, Known DEF Fine, PrintInv, Command
<1>6. PICK rest \in Nat : rest = old.quantity - old.inserted
  BY <1>5 DEF PrintBatch
<1>15. /\ prProc[i].batch = b /\ prBatches[b].quantity - prBatches[b].inserted = rest
       /\ prProc[i].kind = p.kind
  BY <1>1, <1>2, <1>3, <1>6
<1>7. PICK n \in 1..P!Min({prChunk, rest}) :
        /\ prBatches' = [prBatches EXCEPT ![b].inserted = @ + n]
        /\ prProc' = [prProc EXCEPT
             ![i].at = IF n < rest THEN "insert" ELSE IF p.kind = "run" THEN "read" ELSE "open",
             ![i].todo = IF n = rest /\ p.kind = "loose" THEN P!Later(@) ELSE @]
  <2>1. \E n \in 1..P!Min({prChunk, rest}) :
          /\ prBatches' = [prBatches EXCEPT ![b].inserted = @ + n]
          /\ prProc' = [prProc EXCEPT
               ![i].at = IF n < rest THEN "insert"
                         ELSE IF prProc[i].kind = "run" THEN "read" ELSE "open",
               ![i].todo = IF n = rest /\ prProc[i].kind = "loose" THEN P!Later(@) ELSE @]
    BY <1>15, Zenon DEF P!InsertCodes
  <2> QED
    BY <1>1, <2>1
<1>8. n \in Nat /\ n <= rest
  <2>1. P!Min({prChunk, rest}) \in Nat /\ P!Min({prChunk, rest}) <= rest
    BY PrintNumbers, LeastOf
  <2> QED
    BY <2>1
<1> DEFINE row == [old EXCEPT !.inserted = @ + n]
           q == [p EXCEPT !.at = IF n < rest THEN "insert"
                                 ELSE IF p.kind = "run" THEN "read" ELSE "open",
                          !.todo = IF n = rest /\ p.kind = "loose" THEN P!Later(@) ELSE @]
<1>9. prBatches' = Rewritten(b, row) /\ prProc' = [prProc EXCEPT ![i] = q]
  BY <1>1, <1>3, <1>5, <1>7 DEF PrintInv, Rewritten
<1>10. Rewrites(b, row)
  BY <1>3, <1>5, <1>6, <1>8 DEF PrintBatch, Rewrites
<1>11. P!Later(p.todo) \in SUBSET DOMAIN prSkus /\ P!Later(p.todo) \subseteq p.todo
  BY <1>4 DEF P!Later, Command
<1>16. p.kind \in {"run", "loose"} /\ ~(n < rest /\ n = rest)
  BY <1>5, <1>8
<1>12. /\ q \in Command /\ q.kind = p.kind /\ q.allocation = p.allocation /\ q.id = p.id
       /\ q.batch = b /\ q.todo \subseteq p.todo
       /\ q.at = "insert" => q.todo = p.todo
       /\ p.kind = "run" => q.at \in {"insert", "read"} /\ q.todo = p.todo
       /\ p.kind = "loose" => q.at \in {"insert", "open"}
  BY <1>2, <1>4, <1>11, <1>16 DEF Command, Stops, P!Going, P!Making
<1> HIDE DEF row, q
<1>13. Fine(i, q, prBatches, prFiles, prHolder)
  BY <1>4, <1>5, <1>12 DEF Fine, Held, Labelling, P!Making
<1>14. p.at \notin Undone
  BY <1>4 DEF Undone
<1>17. Fine(i, q, Rewritten(b, row), prFiles, prHolder)
  BY <1>10, <1>13, FineStays
<1>18. Told(i, q, b, row)
  BY <1>4 DEF Told
<1> QED
  BY <1>1, <1>4, <1>9, <1>10, <1>14, <1>17, <1>18, BatchStep

LEMMA FreezeReadStep ==
  ASSUME PrintInv, NEW i \in Actors, P!FreezeRead(i)
  PROVE  PrintInv'
<1>1. PICK p : p = prProc[i]
  OBVIOUS
<1>2. /\ p.at = "read" /\ p \in Command /\ Fine(i, p, prBatches, prFiles, prHolder)
      /\ prHolder \in Actors \cup {None} /\ UNCHANGED <<prBatches, prEvents, prFiles, prHolder>>
  BY <1>1, Known DEF P!FreezeRead
<1>3. prBatches[p.batch].frozen \in BOOLEAN
  <2>1. prBatches[p.batch] \in PrintBatch
    BY <1>2, Known DEF Fine
  <2> QED
    BY <2>1 DEF PrintBatch
<1> DEFINE q == [p EXCEPT !.frozen = prBatches[p.batch].frozen, !.at = "freeze"]
<1>4. prProc' = [prProc EXCEPT ![i] = q]
  BY <1>1 DEF P!FreezeRead, PrintInv
<1>5. /\ q \in Command /\ q.at = "freeze" /\ q.kind = p.kind /\ q.todo = p.todo
      /\ q.allocation = p.allocation /\ q.id = p.id /\ q.batch = p.batch
  BY <1>2, <1>3 DEF Command, Stops, P!Going, P!Making
<1> HIDE DEF q
<1>6. Fine(i, q, prBatches, prFiles, prHolder)
  BY <1>2, <1>5 DEF Fine, Held, Labelling, P!Making
<1> QED
  BY <1>1, <1>2, <1>4, <1>6, QuietStep DEF Undone

LEMMA FreezeStep ==
  ASSUME PrintInv, NEW i \in Actors, P!Freeze(i)
  PROVE  PrintInv'
<1>1. PICK p : p = prProc[i]
  OBVIOUS
<1>2. /\ p.at = "freeze" /\ p \in Command /\ Fine(i, p, prBatches, prFiles, prHolder)
      /\ prHolder \in Actors \cup {None} /\ UNCHANGED <<prFiles, prHolder>>
      /\ p.batch \in DOMAIN prBatches /\ p.kind \in {"run", "freeze"}
  BY <1>1, Known DEF P!Freeze, Fine, Command
<1> DEFINE q == IF p.kind = "run" THEN [p EXCEPT !.at = "open", !.todo = P!Later(@), !.batch = 0]
                ELSE P!Ended(i, "done")
<1>3. prProc' = [prProc EXCEPT ![i] = q]
  BY <1>1, <1>2 DEF P!Freeze, PrintInv
<1>4. Fine(i, q, prBatches, prFiles, prHolder)
  <2>1. CASE p.kind # "run"
    BY <1>1, <1>2, <2>1, EndedFine
  <2>2. CASE p.kind = "run"
    <3> DEFINE r == [p EXCEPT !.at = "open", !.todo = P!Later(@), !.batch = 0]
    <3>1. P!Later(p.todo) \in SUBSET DOMAIN prSkus /\ P!Later(p.todo) \subseteq p.todo
      BY <1>2 DEF P!Later, Command
    <3>2. /\ r \in Command /\ r.at = "open" /\ r.kind = p.kind /\ r.todo = P!Later(p.todo)
          /\ r.allocation = p.allocation /\ r.id = p.id
      BY <1>2, <3>1 DEF Command, Stops, P!Going, P!Making
    <3> HIDE DEF r
    <3>3. Fine(i, r, prBatches, prFiles, prHolder)
      BY <1>2, <2>2, <3>1, <3>2 DEF Fine, Held, Labelling, P!Making
    <3> QED
      BY <2>2, <3>3 DEF r
  <2> QED
    BY <2>1, <2>2
<1> HIDE DEF q
<1>5. CASE UNCHANGED <<prBatches, prEvents>>
  BY <1>1, <1>2, <1>3, <1>4, <1>5, QuietStep DEF Undone
<1>6. CASE /\ prBatches' = [prBatches EXCEPT ![p.batch].frozen = TRUE]
           /\ prEvents' = prEvents \cup
                {P!Event(p.batch, IF p.kind = "run" THEN "exported" ELSE "frozen", p.kind)}
  <2> DEFINE row == [prBatches[p.batch] EXCEPT !.frozen = TRUE]
  <2>1. prBatches[p.batch] \in PrintBatch
        /\ prBatches[p.batch].inserted <= prBatches[p.batch].quantity
    BY <1>2, Known DEF PrintInv
  <2>2. Rewrites(p.batch, row)
    BY <1>2, <2>1 DEF Rewrites, PrintBatch
  <2>3. prBatches' = Rewritten(p.batch, row)
    BY <1>2, <1>6 DEF Rewritten
  <2>4. \A e \in prEvents' : e \in prEvents \/ (e.batch = p.batch /\ e.type # "void")
    BY <1>6 DEF P!Event
  <2>5. p.at \notin Undone
    BY <1>2 DEF Undone
  <2> HIDE DEF row
  <2>6. Fine(i, q, Rewritten(p.batch, row), prFiles, prHolder)
    BY <1>4, <2>2, FineStays
  <2>7. Told(i, q, p.batch, row)
    BY <2>4 DEF Told
  <2>8. prProc[i].at \in Undone => q.at \in Undone
    BY <1>1, <2>5
  <2> QED
    BY <1>2, <1>3, <2>2, <2>3, <2>6, <2>7, <2>8, BatchStep
<1> QED
  BY <1>1, <1>5, <1>6 DEF P!Freeze

LEMMA UnlockStep ==
  ASSUME PrintInv, NEW i \in Actors, P!Unlock(i)
  PROVE  PrintInv'
<1>1. PICK p : p = prProc[i]
  OBVIOUS
<1>2. /\ p.at = "unlock" /\ p \in Command /\ Fine(i, p, prBatches, prFiles, prHolder)
      /\ prHolder \in Actors \cup {None} /\ UNCHANGED <<prBatches, prEvents, prFiles>>
      /\ prHolder' = P!Unlocked(i) /\ P!Go(i, "manifest")
  BY <1>1, Known DEF P!Unlock
<1> DEFINE q == [p EXCEPT !.at = "manifest"]
<1>3. /\ q \in Command /\ q.at = "manifest" /\ q.kind = p.kind /\ q.todo = p.todo
      /\ q.allocation = p.allocation
  BY <1>2 DEF Command, Stops, P!Going
<1> HIDE DEF q
<1>4. Fine(i, q, prBatches, prFiles, prHolder')
  BY <1>2, <1>3 DEF Fine, Held, Labelling, P!Making
<1>5. prHolder' \in Actors \cup {None} /\ (prHolder' # prHolder => prHolder = i)
  BY <1>2 DEF P!Unlocked
<1> QED
  BY <1>1, <1>2, <1>4, <1>5, GoStep DEF Undone, Stops, P!Going, q

LEMMA EndStep ==
  ASSUME PrintInv, NEW i \in Actors, P!Manifest(i) \/ P!Kill(i)
  PROVE  PrintInv'
<1>1. PICK at \in {"done", "killed"} : P!End(i, at) /\ (P!Kill(i) => at = "killed")
  BY DEF P!Manifest, P!Kill, P!Going, P!Making
<1>2. /\ UNCHANGED <<prBatches, prEvents>> /\ prProc[i].at # "new"
      /\ \A f \in prFiles' : f \in prFiles \/ f.by = i
      /\ prHolder' \in {prHolder, P!Unlocked(i)}
  BY DEF P!Manifest, P!Kill, P!Going, P!Making
<1>3. prHolder' \in Actors \cup {None} /\ (prHolder' # prHolder => prHolder = i)
  BY <1>2, Known DEF P!Unlocked
<1>4. prProc[i].at \in Undone => at \in Undone
  BY <1>1 DEF P!Manifest, Undone
<1>5. prProc' = [prProc EXCEPT ![i] = P!Ended(i, at)]
  BY <1>1 DEF P!End
<1>6. /\ Fine(i, P!Ended(i, at), prBatches, prFiles', prHolder')
      /\ P!Ended(i, at).at = at
  BY <1>2, EndedFine
<1> QED
  BY <1>2, <1>3, <1>4, <1>5, <1>6, QuietStep

LEMMA RaiseStep ==
  ASSUME PrintInv, NEW i \in Actors, P!Raise(i)
  PROVE  PrintInv'
<1>1. PICK p : p = prProc[i]
  OBVIOUS
<1>2. PICK at \in {"release", "orphans"} :
        at = (IF p.at = "plan" THEN "release" ELSE "orphans") /\ P!Go(i, at)
  BY <1>1 DEF P!Raise
<1>3. /\ p.kind = "run" /\ p.at \in P!Making \cup {"plan"} /\ p \in Command
      /\ Fine(i, p, prBatches, prFiles, prHolder) /\ prHolder \in Actors \cup {None}
      /\ UNCHANGED <<prBatches, prEvents, prFiles, prHolder>>
  BY <1>1, Known DEF P!Raise
<1> DEFINE q == [p EXCEPT !.at = at]
<1>4. /\ q \in Command /\ q.at = at /\ q.kind = "run" /\ q.todo = p.todo
      /\ q.allocation = p.allocation /\ q.id = p.id
  BY <1>3 DEF Command, Stops, P!Going
<1> HIDE DEF q
<1>5. Fine(i, q, prBatches, prFiles, prHolder)
  BY <1>2, <1>3, <1>4 DEF Fine, Held, Labelling, P!Making
<1>6. p.at \notin Undone /\ at \in Stops
  BY <1>3 DEF Undone, P!Making, Stops, P!Going
<1> QED
  BY <1>1, <1>2, <1>3, <1>5, <1>6, GoStep DEF q

LEMMA OrphansStep ==
  ASSUME PrintInv, NEW i \in Actors, P!Orphans(i)
  PROVE  PrintInv'
<1>1. PICK p : p = prProc[i]
  OBVIOUS
<1>2. /\ p.at = "orphans" /\ p \in Command /\ p.kind = "run"
      /\ Fine(i, p, prBatches, prFiles, prHolder) /\ prHolder \in Actors \cup {None}
      /\ UNCHANGED <<prBatches, prEvents, prFiles, prHolder>>
  BY <1>1, Known DEF P!Orphans, Fine, Command
<1>3. PICK mine : mine = P!Labelled(p.id)
  OBVIOUS
<1>4. mine \in SUBSET Nat /\ mine = {b \in DOMAIN prBatches : prBatches[b].by = i}
  BY <1>2, <1>3, Known DEF P!Labelled, Fine, Labelling
<1> DEFINE q == [p EXCEPT !.at = "void", !.orphans = mine]
<1>5. prProc' = [prProc EXCEPT ![i] = q]
  BY <1>1, <1>3 DEF P!Orphans, PrintInv
<1>6. /\ q \in Command /\ q.at = "void" /\ q.kind = "run" /\ q.todo = p.todo
      /\ q.allocation = p.allocation /\ q.id = p.id /\ q.orphans = mine
  BY <1>2, <1>4 DEF Command, Stops, P!Going
<1> HIDE DEF q
<1>7. Fine(i, q, prBatches, prFiles, prHolder)
  BY <1>2, <1>4, <1>6 DEF Fine, Held, Labelling, P!Making
<1> QED
  BY <1>1, <1>2, <1>5, <1>6, <1>7, QuietStep DEF Undone

LEMMA VoidStep ==
  ASSUME PrintInv, NEW i \in Actors, P!VoidOrphan(i)
  PROVE  PrintInv'
<1>1. PICK p : p = prProc[i]
  OBVIOUS
<1>2. /\ p.at = "void" /\ p \in Command /\ p.kind = "run"
      /\ Fine(i, p, prBatches, prFiles, prHolder) /\ prHolder \in Actors \cup {None}
      /\ UNCHANGED <<prFiles, prHolder>>
  BY <1>1, Known DEF P!VoidOrphan, Fine, Command
<1>3. CASE p.orphans = {}
  <2> DEFINE q == [p EXCEPT !.at = "unlink"]
  <2>1. P!Go(i, "unlink") /\ UNCHANGED <<prBatches, prEvents>>
    BY <1>1, <1>3 DEF P!VoidOrphan
  <2>2. /\ q \in Command /\ q.at = "unlink" /\ q.kind = "run" /\ q.todo = p.todo
        /\ q.allocation = p.allocation
    BY <1>2 DEF Command, Stops, P!Going
  <2> HIDE DEF q
  <2>3. Fine(i, q, prBatches, prFiles, prHolder)
    BY <1>2, <1>3, <2>2 DEF Fine, Held, Labelling, P!Making
  <2> QED
    BY <1>1, <1>2, <2>1, <2>3, GoStep DEF Undone, Stops, P!Going, q
<1>4. ASSUME NEW b \in p.orphans, P!SetStatus(b, {"generated", "active"}, "void", "rollback"),
             prProc' = [prProc EXCEPT ![i].orphans = @ \ {b}]
      PROVE  PrintInv'
  <2> DEFINE q == [p EXCEPT !.orphans = @ \ {b}]
  <2>1. prProc' = [prProc EXCEPT ![i] = q]
    BY <1>1, <1>4 DEF PrintInv
  <2>2. /\ q \in Command /\ q.at = "void" /\ q.kind = "run" /\ q.todo = p.todo
        /\ q.allocation = p.allocation /\ q.id = p.id /\ q.orphans = p.orphans \ {b}
    BY <1>2 DEF Command
  <2> HIDE DEF q
  <2>3. b \in DOMAIN prBatches /\ prBatches[b] \in PrintBatch /\ prBatches[b].by = i
        /\ prBatches[b].inserted <= prBatches[b].quantity
    BY <1>2, Known DEF Fine, PrintInv
  <2>4. CASE prBatches[b].status \notin {"generated", "active"}
    <3>1. prBatches[b].status = "void"
      BY <2>3, <2>4 DEF PrintBatch
    <3>2. UNCHANGED <<prBatches, prEvents>>
      BY <1>4, <2>4 DEF P!SetStatus
    <3>3. Fine(i, q, prBatches, prFiles, prHolder)
      BY <1>2, <2>2, <3>1 DEF Fine, Held, Labelling, P!Making
    <3> QED
      BY <1>1, <1>2, <2>1, <2>2, <3>2, <3>3, QuietStep DEF Undone
  <2>5. CASE prBatches[b].status \in {"generated", "active"}
    <3> DEFINE row == [prBatches[b] EXCEPT !.status = "void"]
    <3>1. Rewrites(b, row) /\ row.status = "void" /\ row.by = i
      BY <2>3 DEF Rewrites, PrintBatch
    <3>2. /\ prBatches' = Rewritten(b, row)
          /\ prEvents' = prEvents \cup {P!Event(b, "void", "rollback")}
      BY <1>4, <2>3, <2>5 DEF P!SetStatus, Rewritten
    <3> HIDE DEF row
    <3>3. PICK table : table = Rewritten(b, row)
      OBVIOUS
    <3>4. /\ DOMAIN table = DOMAIN prBatches /\ table[b] = row
          /\ \A n \in DOMAIN prBatches :
               /\ table[n].label = prBatches[n].label /\ table[n].by = prBatches[n].by
               /\ prBatches[n].status = "void" => table[n].status = "void"
      BY <3>1, <3>3, RewrittenTable
    <3>5. Fine(i, q, table, prFiles, prHolder)
      BY <1>2, <2>2, <3>1, <3>4 DEF Fine, Held, Labelling, P!Making
    <3>6. \A e \in prEvents' : e \in prEvents \/ e.batch = b
      BY <3>2 DEF P!Event
    <3>7. q.at \in Undone
      BY <2>2 DEF Undone
    <3>8. Told(i, q, b, row)
      BY <3>1, <3>6, <3>7 DEF Told
    <3>9. Fine(i, q, Rewritten(b, row), prFiles, prHolder)
      BY <3>3, <3>5
    <3> QED
      BY <1>2, <2>1, <3>1, <3>2, <3>7, <3>8, <3>9, BatchStep
  <2> QED
    BY <2>4, <2>5
<1> QED
  BY <1>1, <1>3, <1>4 DEF P!VoidOrphan

LEMMA UnlinkStep ==
  ASSUME PrintInv, NEW i \in Actors, P!Unlink(i)
  PROVE  PrintInv'
<1>1. PICK p : p = prProc[i]
  OBVIOUS
<1>2. /\ p.at = "unlink" /\ p \in Command /\ p.kind = "run"
      /\ Fine(i, p, prBatches, prFiles, prHolder) /\ prHolder \in Actors \cup {None}
      /\ UNCHANGED <<prBatches, prEvents, prHolder>>
      /\ prFiles' = {f \in prFiles : f.by # i} /\ P!Go(i, "release")
  BY <1>1, Known DEF P!Unlink, Fine, Command
<1> DEFINE q == [p EXCEPT !.at = "release"]
<1>3. /\ q \in Command /\ q.at = "release" /\ q.kind = "run" /\ q.todo = p.todo
      /\ q.allocation = p.allocation
  BY <1>2 DEF Command, Stops, P!Going
<1> HIDE DEF q
<1>4. Fine(i, q, prBatches, prFiles', prHolder)
  BY <1>2, <1>3 DEF Fine, Held, Labelling, P!Making
<1> QED
  BY <1>1, <1>2, <1>4, GoStep DEF Undone, Stops, P!Going, q

LEMMA ReleaseStep ==
  ASSUME PrintInv, NEW i \in Actors, P!Release(i)
  PROVE  PrintInv'
<1>1. PICK p : p = prProc[i]
  OBVIOUS
<1>2. /\ p.at = "release" /\ p \in Command /\ p.kind = "run"
      /\ Fine(i, p, prBatches, prFiles, prHolder) /\ prHolder \in Actors \cup {None}
      /\ UNCHANGED <<prBatches, prEvents, prFiles>> /\ prHolder' = P!Unlocked(i)
      /\ prProc' = [prProc EXCEPT ![i] = P!Ended(i, "rolled_back")]
  BY <1>1, Known DEF P!Release, P!End, Fine, Command
<1> DEFINE q == P!Ended(i, "rolled_back")
<1>3. P!Idle \in Command
  BY DEF P!Idle, Command, Stops, Weights
<1>4. /\ q \in Command /\ q.at = "rolled_back" /\ q.kind = "run" /\ q.todo = {}
  BY <1>1, <1>2, <1>3 DEF P!Ended, P!Idle, Command, Stops
<1> HIDE DEF q
<1>5. Fine(i, q, prBatches, prFiles, prHolder')
  BY <1>2, <1>4 DEF Fine, Held, Labelling, P!Making
<1>6. prHolder' \in Actors \cup {None} /\ (prHolder' # prHolder => prHolder = i)
  BY <1>2 DEF P!Unlocked
<1>7. q.at \in Undone /\ prProc' = [prProc EXCEPT ![i] = q]
  BY <1>2, <1>4 DEF Undone, q
<1> QED
  BY <1>2, <1>5, <1>6, <1>7, QuietStep

LEMMA OperateStep ==
  ASSUME PrintInv, NEW b \in DOMAIN prBatches, P!Operate(b)
  PROVE  PrintInv'
<1>1. /\ prBatches[b] \in PrintBatch /\ prBatches[b].inserted <= prBatches[b].quantity
      /\ UNCHANGED <<prFiles, prHolder, prProc>>
  BY Known DEF PrintInv, P!Operate
<1>2. PICK i \in Actors : i = prBatches[b].by
  BY <1>1 DEF PrintBatch
<1>3. PICK q : q = prProc[i]
  OBVIOUS
<1>4. prProc' = [prProc EXCEPT ![i] = q] /\ Fine(i, q, prBatches, prFiles, prHolder)
      /\ prHolder \in Actors \cup {None} /\ (prProc[i].at \in Undone => q.at \in Undone)
  BY <1>1, <1>3, Known DEF PrintInv
<1>5. CASE UNCHANGED <<prBatches, prEvents>>
  BY <1>1, <1>4, <1>5, QuietStep
<1>6. ASSUME NEW from, NEW to \in {"active", "void"}, "void" \notin from,
             prBatches[b].status \in from, prBatches' = [prBatches EXCEPT ![b].status = to],
             prEvents' = prEvents \cup {P!Event(b, to, "operator")}
      PROVE  PrintInv'
  <2> DEFINE row == [prBatches[b] EXCEPT !.status = to]
  <2>1. Rewrites(b, row)
    BY <1>1, <1>6 DEF Rewrites, PrintBatch
  <2>2. prBatches' = Rewritten(b, row)
    BY <1>6 DEF Rewritten
  <2>3. \A e \in prEvents' : e \in prEvents \/ (e.batch = b /\ e.actor # "rollback")
    BY <1>6 DEF P!Event
  <2> HIDE DEF row
  <2>4. Fine(i, q, Rewritten(b, row), prFiles, prHolder)
    BY <1>4, <2>1, FineStays
  <2>5. Told(i, q, b, row)
    BY <2>3 DEF Told
  <2> QED
    BY <1>1, <1>4, <2>1, <2>2, <2>4, <2>5, BatchStep
<1> QED
  BY <1>5, <1>6 DEF P!Operate, P!SetStatus

LEMMA PrintNext == PrintInv /\ [P!Next]_(P!vars) => PrintInv'
<1> SUFFICES ASSUME PrintInv, [P!Next]_(P!vars) PROVE PrintInv'
  OBVIOUS
<1>1. CASE UNCHANGED P!vars
  BY <1>1 DEF P!vars, PrintInv
<1>2. ASSUME NEW i \in Actors,
             \/ \E r \in prRequests : P!Start(i, r)
             \/ P!Lock(i) \/ P!Plan(i) \/ P!OpenCsv(i) \/ P!CreateBatch(i) \/ P!InsertCodes(i)
             \/ P!FreezeRead(i) \/ P!Freeze(i) \/ P!Unlock(i) \/ P!Manifest(i)
             \/ P!Raise(i) \/ P!Orphans(i) \/ P!VoidOrphan(i) \/ P!Unlink(i) \/ P!Release(i)
             \/ P!Kill(i)
      PROVE  PrintInv'
  BY <1>2, StartStep, LockStep, PlanStep, OpenStep, CreateBatchStep, InsertStep, FreezeReadStep,
     FreezeStep, UnlockStep, EndStep, RaiseStep, OrphansStep, VoidStep, UnlinkStep, ReleaseStep
<1> QED
  BY <1>1, <1>2, OperateStep DEF P!Next

LEMMA PrintAlways == Spec => []PrintInv
  BY PrintRunsRun, PrintInit, PrintNext, PTL DEF P!Spec

LEMMA PrintTypes == PrintInv => P!TypeOK
<1> SUFFICES ASSUME PrintInv PROVE P!TypeOK
  OBVIOUS
<1>1. \A b \in DOMAIN prBatches :
        prBatches[b] \in PrintBatch /\ prBatches[b].inserted <= prBatches[b].quantity
  BY Known DEF PrintInv
<1>2. \A i \in Actors : prProc[i].at \in Stops
  BY Known DEF Command
<1> QED
  BY <1>1, <1>2 DEF PrintInv, PrintBatch, Stops, P!TypeOK

\* When a print run has given up, all its batches are void, its files are
\* gone, and its rollback has voided no batch of another run, whatever
\* generate_codes, operators and killed runs did meanwhile (_generate_all).
THEOREM RollbacksAreExact == Spec => []RollbackIsExact
<1>1. PrintInv => RollbackIsExact
  BY DEF PrintInv, Fine, Undone, RollbackIsExact, P!RollbackIsExact
<1> QED
  BY <1>1, PrintAlways, PTL

-----------------------------------------------------------------------------
(* The quota                                                               *)

\* The positions a command will still draw for.
Pending(q) ==
  IF q.at \in {"insert", "read", "freeze"} THEN P!Later(q.todo) ELSE q.todo

Quantities == [b \in DOMAIN prBatches |-> prBatches[b].quantity]

\* What counts for a run planned when there were so many batches.
Counted(seen, c) ==
  {d \in DOMAIN prBatches : prBatches[d].sku = c /\ (P!ByRun(d) \/ d <= seen)}

HasRoom(q) ==
  \A n \in Pending(q) :
    Sum(Quantities, Counted(q.seen, prSkus[n])) + q.allocation[prSkus[n]] <= prQuota

QuotaInv ==
  /\ P!QuotaHolds
  /\ \A i \in Actors :
       /\ prProc[i].seen <= Len(prBatches)
       /\ prProc[i].kind = "run" /\ prProc[i].at \in P!Making => HasRoom(prProc[i])

\* The part of P!QuotaHolds that is about one batch.
Upto(b) ==
  {d \in 1..b : /\ prBatches[d].sku = prBatches[b].sku
                /\ P!ByRun(d) \/ d <= prProc[prBatches[b].by].seen}

LEMMA QuotaIsASum ==
  P!QuotaHolds <=>
    \A d \in DOMAIN prBatches : P!ByRun(d) => Sum(Quantities, Upto(d)) <= prQuota
  BY OneSum DEF P!QuotaHolds, P!Drawn, Quantities, Upto

LEMMA QuotaIsASumNext ==
  P!QuotaHolds' <=>
    \A d \in DOMAIN prBatches' : P!ByRun(d)' => Sum(Quantities', Upto(d)') <= prQuota
<1>1. (P!QuotaHolds <=>
         \A d \in DOMAIN prBatches : P!ByRun(d) => Sum(Quantities, Upto(d)) <= prQuota)'
  BY QuotaIsASum, PTL
<1> QED
  BY <1>1

LEMMA BatchesAreFinite ==
  ASSUME PrintInv
  PROVE  /\ DOMAIN prBatches = 1..Len(prBatches) /\ Len(prBatches) \in Nat
         /\ IsFiniteSet(DOMAIN prBatches)
         /\ \A T \in SUBSET DOMAIN prBatches : IsFiniteSet(T)
         /\ \A b \in DOMAIN prBatches : Quantities[b] \in Nat
         /\ \A b \in DOMAIN prBatches : Upto(b) \in SUBSET DOMAIN prBatches
         /\ \A seen, c : Counted(seen, c) \in SUBSET DOMAIN prBatches
<1>1. DOMAIN prBatches = 1..Len(prBatches) /\ Len(prBatches) \in Nat
  BY Known DEF PrintInv
<1>2. IsFiniteSet(DOMAIN prBatches)
  BY <1>1, FS_Interval
<1>3. \A T \in SUBSET DOMAIN prBatches : IsFiniteSet(T)
  BY <1>2, FS_Subset
<1>4. \A b \in DOMAIN prBatches : Quantities[b] \in Nat
  <2>1. \A b \in DOMAIN prBatches : prBatches[b] \in PrintBatch
    BY <1>1 DEF PrintInv
  <2> QED
    BY <2>1 DEF Quantities, PrintBatch
<1>5. \A b \in DOMAIN prBatches : Upto(b) \in SUBSET DOMAIN prBatches
  BY <1>1 DEF Upto
<1> QED
  BY <1>1, <1>2, <1>3, <1>4, <1>5 DEF Counted

LEMMA QuotaInit == P!Init => QuotaInv
<1> SUFFICES ASSUME P!Init PROVE QuotaInv
  OBVIOUS
<1>1. prBatches = <<>> /\ prProc = [i \in Actors |-> P!Idle]
  BY DEF P!Init
<1>2. P!QuotaHolds
  BY <1>1 DEF P!QuotaHolds
<1>3. P!Idle.seen = 0 /\ P!Idle.at = "new"
  BY DEF P!Idle
<1>4. \A i \in Actors : prProc[i].seen <= Len(prBatches) /\ prProc[i].at \notin P!Making
  BY <1>1, <1>3 DEF P!Making
<1> QED
  BY <1>2, <1>4 DEF QuotaInv

\* No batch is added, none changes hands, flavor or size.
SameBatches ==
  /\ DOMAIN prBatches' = DOMAIN prBatches /\ Len(prBatches') = Len(prBatches)
  /\ \A b \in DOMAIN prBatches :
       /\ prBatches'[b].sku = prBatches[b].sku /\ prBatches'[b].by = prBatches[b].by
       /\ prBatches'[b].quantity = prBatches[b].quantity

\* A step that makes no batch, of a command whose batches count as before.
LEMMA QuotaStep ==
  ASSUME PrintInv, QuotaInv, SameBatches, NEW i \in Actors, NEW q \in Command,
         prProc' = [prProc EXCEPT ![i] = q], q.seen <= Len(prBatches),
         \/ \A b \in DOMAIN prBatches : prBatches[b].by # i
         \/ q.kind = prProc[i].kind /\ q.seen = prProc[i].seen,
         q.kind = "run" /\ q.at \in P!Making => HasRoom(q)
  PROVE  QuotaInv'
<1>1. prProc'[i] = q /\ \A j \in Actors \ {i} : prProc'[j] = prProc[j]
  BY DEF PrintInv
<1>2. \A b \in DOMAIN prBatches : prBatches[b].by \in Actors
  <2>1. \A b \in DOMAIN prBatches : prBatches[b] \in PrintBatch
    BY DEF PrintInv
  <2> QED
    BY <2>1 DEF PrintBatch
<1>3. \A b \in DOMAIN prBatches :
        /\ P!ByRun(b)' <=> P!ByRun(b)
        /\ prProc'[prBatches'[b].by].seen = prProc[prBatches[b].by].seen
  BY <1>1, <1>2 DEF P!ByRun, SameBatches
<1>4. \A seen, c : Counted(seen, c)' = Counted(seen, c)
  BY <1>3 DEF Counted, SameBatches
<1>5. \A b \in DOMAIN prBatches : Upto(b)' = Upto(b)
  <2> SUFFICES ASSUME NEW b \in DOMAIN prBatches PROVE Upto(b)' = Upto(b)
    OBVIOUS
  <2>1. \A d \in 1..b : d \in DOMAIN prBatches
    BY BatchesAreFinite
  <2> QED
    BY <1>3, <2>1 DEF Upto, SameBatches
<1>6. \A T \in SUBSET DOMAIN prBatches : Sum(Quantities', T) = Sum(Quantities, T)
  <2> SUFFICES ASSUME NEW T \in SUBSET DOMAIN prBatches
               PROVE  Sum(Quantities', T) = Sum(Quantities, T)
    OBVIOUS
  <2>1. \A b \in T : Quantities'[b] = Quantities[b]
    BY DEF Quantities, SameBatches
  <2>2. IsFiniteSet(T)
    BY BatchesAreFinite
  <2> QED
    BY <2>1, <2>2, SumSame
<1>7. P!QuotaHolds'
  <2>1. \A b \in DOMAIN prBatches' : P!ByRun(b)' => Sum(Quantities', Upto(b)') <= prQuota
    <3> SUFFICES ASSUME NEW b \in DOMAIN prBatches, P!ByRun(b)
                 PROVE  Sum(Quantities', Upto(b)') <= prQuota
      BY <1>3 DEF SameBatches
    <3>1. Upto(b) \in SUBSET DOMAIN prBatches
      BY BatchesAreFinite
    <3>2. Sum(Quantities, Upto(b)) <= prQuota
      BY QuotaIsASum DEF QuotaInv
    <3> QED
      BY <1>5, <1>6, <3>1, <3>2
  <2> QED
    BY <2>1, QuotaIsASumNext
<1>8. \A seen, c : Sum(Quantities', Counted(seen, c)') = Sum(Quantities, Counted(seen, c))
  BY <1>4, <1>6, BatchesAreFinite
<1>9. ASSUME NEW j \in Actors, prProc'[j].kind = "run", prProc'[j].at \in P!Making
      PROVE  HasRoom(prProc[j])'
  <2>1. PICK r : r = prProc'[j]
    OBVIOUS
  <2>2. HasRoom(r)
    BY <1>1, <1>9, <2>1 DEF QuotaInv
  <2>3. HasRoom(r)'
    BY <1>8, <2>2 DEF HasRoom, Pending
  <2> QED
    BY <2>1, <2>3 DEF HasRoom, Pending
<1>10. \A j \in Actors : prProc'[j].seen <= Len(prBatches')
  BY <1>1 DEF QuotaInv, SameBatches
<1> QED
  BY <1>7, <1>9, <1>10 DEF QuotaInv

\* Rewriting a row's status, stamp or count leaves the quota's account alone.
LEMMA SameAfter ==
  ASSUME PrintInv
  PROVE  /\ UNCHANGED prBatches => SameBatches
         /\ \A b \in DOMAIN prBatches : \A v :
              \/ prBatches' = [prBatches EXCEPT ![b].status = v]
              \/ prBatches' = [prBatches EXCEPT ![b].frozen = v]
              \/ prBatches' = [prBatches EXCEPT ![b].inserted = v]
              => SameBatches
<1>1. /\ DOMAIN prBatches = 1..Len(prBatches) /\ Len(prBatches) \in Nat
      /\ \A b \in DOMAIN prBatches : prBatches[b] \in PrintBatch
  BY Known DEF PrintInv
<1>2. ASSUME NEW b \in DOMAIN prBatches, NEW row, prBatches' = [prBatches EXCEPT ![b] = row],
             row.sku = prBatches[b].sku, row.by = prBatches[b].by,
             row.quantity = prBatches[b].quantity
      PROVE  SameBatches
  <2>1. /\ DOMAIN prBatches' = DOMAIN prBatches /\ prBatches' \in Seq({row} \cup PrintBatch)
        /\ \A n \in DOMAIN prBatches : prBatches'[n] = IF n = b THEN row ELSE prBatches[n]
    BY <1>1, <1>2 DEF PrintInv
  <2>2. Len(prBatches') = Len(prBatches)
    BY <1>1, <2>1
  <2> QED
    BY <1>2, <2>1, <2>2 DEF SameBatches
<1>3. ASSUME NEW b \in DOMAIN prBatches, NEW v PROVE
      /\ prBatches' = [prBatches EXCEPT ![b].status = v] => SameBatches
      /\ prBatches' = [prBatches EXCEPT ![b].frozen = v] => SameBatches
      /\ prBatches' = [prBatches EXCEPT ![b].inserted = v] => SameBatches
  <2>1. prBatches[b] \in PrintBatch
    BY <1>1
  <2>2. PICK old : old = prBatches[b] /\ old \in PrintBatch
    BY <2>1
  <2>3. ASSUME prBatches' = [prBatches EXCEPT ![b].status = v] PROVE SameBatches
    <3>1. PICK row : row = [old EXCEPT !.status = v]
      OBVIOUS
    <3>2. row.sku = old.sku /\ row.by = old.by /\ row.quantity = old.quantity
      BY <2>2, <3>1 DEF PrintBatch
    <3> QED
      BY <1>2, <2>2, <2>3, <3>1, <3>2
  <2>4. ASSUME prBatches' = [prBatches EXCEPT ![b].frozen = v] PROVE SameBatches
    <3>1. PICK row : row = [old EXCEPT !.frozen = v]
      OBVIOUS
    <3>2. row.sku = old.sku /\ row.by = old.by /\ row.quantity = old.quantity
      BY <2>2, <3>1 DEF PrintBatch
    <3> QED
      BY <1>2, <2>2, <2>4, <3>1, <3>2
  <2>5. ASSUME prBatches' = [prBatches EXCEPT ![b].inserted = v] PROVE SameBatches
    <3>1. PICK row : row = [old EXCEPT !.inserted = v]
      OBVIOUS
    <3>2. row.sku = old.sku /\ row.by = old.by /\ row.quantity = old.quantity
      BY <2>2, <3>1 DEF PrintBatch
    <3> QED
      BY <1>2, <2>2, <2>5, <3>1, <3>2
  <2> QED
    BY <2>3, <2>4, <2>5
<1>4. UNCHANGED prBatches => SameBatches
  BY DEF SameBatches
<1> QED
  BY <1>3, <1>4

\* A command that goes on with what it has left to draw, or draws no more.
LEMMA GoesOn ==
  ASSUME PrintInv, QuotaInv, SameBatches, NEW i \in Actors, NEW q \in Command,
         prProc' = [prProc EXCEPT ![i] = q],
         q.kind = prProc[i].kind /\ q.seen = prProc[i].seen,
         q.kind = "run" /\ q.at \in P!Making =>
           /\ prProc[i].at \in P!Making /\ q.allocation = prProc[i].allocation
           /\ Pending(q) \subseteq Pending(prProc[i])
  PROVE  QuotaInv'
<1>1. q.kind = "run" /\ q.at \in P!Making => HasRoom(q)
  BY DEF QuotaInv, HasRoom
<1>2. q.seen <= Len(prBatches)
  BY DEF QuotaInv
<1> QED
  BY <1>1, <1>2, QuotaStep

LEMMA QuotaCreate ==
  ASSUME PrintInv, QuotaInv, NEW i \in Actors, P!CreateBatch(i)
  PROVE  QuotaInv'
<1>1. PICK p : p = prProc[i]
  OBVIOUS
<1>2. PICK c : c = P!Sku(i)
  OBVIOUS
<1>3. /\ p.at = "create" /\ p \in Command /\ Fine(i, p, prBatches, prFiles, prHolder)
      /\ p.todo # {} /\ c \in P!Flavors /\ c = prSkus[P!Min(p.todo)]
      /\ P!Min(p.todo) \in p.todo /\ p.todo \subseteq DOMAIN prSkus
  <2>1. p.at = "create" /\ p \in Command /\ Fine(i, p, prBatches, prFiles, prHolder)
    BY <1>1, Known DEF P!CreateBatch
  <2>2. p.todo # {} /\ p.todo \subseteq DOMAIN prSkus
    BY <2>1 DEF Fine, Command
  <2> QED
    BY <1>1, <1>2, <2>1, <2>2, SkuIsAFlavor
<1>4. p.allocation[c] \in Nat
  <2>1. p.allocation[c] \in Int /\ p.allocation[c] > 0
    BY <1>3 DEF Fine, Command, Weights
  <2> QED
    BY <2>1
<1>5. PICK last : last = Len(prBatches) + 1
  OBVIOUS
<1> DEFINE b == [label |-> p.id, by |-> i, sku |-> c, status |-> "generated",
                 quantity |-> p.allocation[c], inserted |-> 0, frozen |-> FALSE]
           q == [p EXCEPT !.batch = last, !.at = "insert"]
<1>6. prBatches \in Seq(PrintBatch) /\ DOMAIN prBatches = 1..Len(prBatches) /\ Len(prBatches) \in Nat
  BY Known
<1>7. prBatches' = Append(prBatches, b) /\ Len(prBatches') = last
  BY <1>1, <1>2, <1>5, <1>6 DEF P!CreateBatch
<1>8. prProc' = [prProc EXCEPT ![i] = q]
  BY <1>1, <1>7 DEF P!CreateBatch, PrintInv
<1>9. b.sku = c /\ b.by = i /\ b.quantity = p.allocation[c]
  OBVIOUS
<1> HIDE DEF b
<1>10. /\ DOMAIN prBatches' = DOMAIN prBatches \cup {last} /\ last \notin DOMAIN prBatches
       /\ prBatches'[last] = b /\ \A d \in DOMAIN prBatches : prBatches'[d] = prBatches[d]
       /\ last \in Nat
  BY <1>5, <1>6, <1>7
<1>11. /\ q.kind = p.kind /\ q.seen = p.seen /\ q.allocation = p.allocation
       /\ q.at = "insert" /\ q.todo = p.todo /\ p.seen \in Nat
  BY <1>3 DEF Command
<1> HIDE DEF q
<1>12. prProc'[i] = q /\ \A j \in Actors \ {i} : prProc'[j] = prProc[j]
  BY <1>8 DEF PrintInv
<1>13. \A d \in DOMAIN prBatches : prBatches[d].by \in Actors
  <2>1. \A d \in DOMAIN prBatches : prBatches[d] \in PrintBatch
    BY <1>6
  <2> QED
    BY <2>1 DEF PrintBatch
<1>14. /\ \A d \in DOMAIN prBatches :
            /\ P!ByRun(d)' <=> P!ByRun(d)
            /\ prProc'[prBatches'[d].by].seen = prProc[prBatches[d].by].seen
       /\ P!ByRun(last)' <=> p.kind = "run"
  BY <1>1, <1>9, <1>10, <1>11, <1>12, <1>13 DEF P!ByRun
<1>15. \A j \in Actors : prProc[j].seen < last /\ prProc[j].seen \in Nat
  BY <1>5, <1>6, Known DEF QuotaInv, Command
<1>16. \A d \in DOMAIN prBatches : Upto(d)' = Upto(d)
  <2> SUFFICES ASSUME NEW d \in DOMAIN prBatches PROVE Upto(d)' = Upto(d)
    OBVIOUS
  <2>1. \A e \in 1..d : e \in DOMAIN prBatches
    BY <1>6
  <2> QED
    BY <1>10, <1>14, <2>1 DEF Upto
<1>17. \A T \in SUBSET DOMAIN prBatches : Sum(Quantities', T) = Sum(Quantities, T)
  <2> SUFFICES ASSUME NEW T \in SUBSET DOMAIN prBatches
               PROVE  Sum(Quantities', T) = Sum(Quantities, T)
    OBVIOUS
  <2>1. \A d \in T : Quantities'[d] = Quantities[d]
    BY <1>10 DEF Quantities
  <2>2. IsFiniteSet(T)
    BY BatchesAreFinite
  <2> QED
    BY <2>1, <2>2, SumSame
<1>18. CASE p.kind # "run"
  <2>1. P!QuotaHolds'
    <3>1. \A d \in DOMAIN prBatches' : P!ByRun(d)' => Sum(Quantities', Upto(d)') <= prQuota
      <4> SUFFICES ASSUME NEW d \in DOMAIN prBatches, P!ByRun(d)
                   PROVE  Sum(Quantities', Upto(d)') <= prQuota
        BY <1>10, <1>14, <1>18
      <4>1. Upto(d) \in SUBSET DOMAIN prBatches
        BY BatchesAreFinite
      <4>2. Sum(Quantities, Upto(d)) <= prQuota
        BY QuotaIsASum DEF QuotaInv
      <4> QED
        BY <1>16, <1>17, <4>1, <4>2
    <3> QED
      BY <3>1, QuotaIsASumNext
  <2>2. ASSUME NEW j \in Actors, prProc'[j].kind = "run", prProc'[j].at \in P!Making
        PROVE  HasRoom(prProc[j])'
    <3>1. j # i
      BY <1>11, <1>12, <1>18, <2>2
    <3>2. PICK r : r = prProc[j] /\ r = prProc'[j]
      BY <1>12, <3>1
    <3>3. HasRoom(r) /\ r.seen \in Nat /\ r.seen < last
      BY <1>15, <2>2, <3>2 DEF QuotaInv
    <3>4. \A sku : Counted(r.seen, sku)' = Counted(r.seen, sku)
      BY <1>10, <1>14, <1>18, <3>3 DEF Counted
    <3>5. \A sku : Sum(Quantities', Counted(r.seen, sku)') = Sum(Quantities, Counted(r.seen, sku))
      BY <1>17, <3>4, BatchesAreFinite
    <3>6. HasRoom(r)'
      BY <3>3, <3>5 DEF HasRoom, Pending
    <3> QED
      BY <3>2, <3>6 DEF HasRoom, Pending
  <2>3. \A j \in Actors : prProc'[j].seen <= Len(prBatches')
    BY <1>1, <1>5, <1>6, <1>7, <1>11, <1>12, <1>15
  <2> QED
    BY <2>1, <2>2, <2>3 DEF QuotaInv
<1>19. CASE p.kind = "run"
  <2>1. ASSUME NEW j \in Actors, j # i, prProc[j].kind = "run" PROVE prProc[j].at \notin P!Making
    <3>1. prHolder = i
      BY <1>3, <1>19 DEF Fine, Held, P!Making
    <3>2. Fine(j, prProc[j], prBatches, prFiles, prHolder)
      BY Known
    <3> QED
      BY <2>1, <3>1, <3>2 DEF Fine, Held
  <2>2. HasRoom(p) /\ Pending(p) = p.todo
    BY <1>1, <1>3, <1>19 DEF QuotaInv, Pending, P!Making
  <2>3. Sum(Quantities, Counted(p.seen, c)) + p.allocation[c] <= prQuota
    BY <1>3, <2>2 DEF HasRoom
  <2>4. Sum(Quantities', Counted(p.seen, c) \cup {last}) <= prQuota
    <3> DEFINE T == Counted(p.seen, c)
    <3>1. T \in SUBSET DOMAIN prBatches /\ IsFiniteSet(T)
      BY BatchesAreFinite
    <3>2. Quantities'[last] = p.allocation[c]
      BY <1>9, <1>10 DEF Quantities
    <3>3. \A d \in T : Quantities'[d] \in Int
      BY <1>10, <3>1, BatchesAreFinite DEF Quantities
    <3>4. last \notin T /\ \A d \in T \cup {last} : Quantities'[d] \in Int
      BY <1>4, <1>10, <3>1, <3>2, <3>3
    <3> HIDE DEF T
    <3>5. Sum(Quantities', T \cup {last}) = Sum(Quantities', T) + Quantities'[last]
      BY <3>1, <3>4, SumAdd
    <3>6. Sum(Quantities', T) = Sum(Quantities, T)
      BY <1>17, <3>1
    <3> QED
      BY <2>3, <3>2, <3>5, <3>6 DEF T
  <2>5. P!QuotaHolds'
    <3>1. Upto(last)' = Counted(p.seen, c) \cup {last}
      <4>1. 1..last = DOMAIN prBatches \cup {last}
        BY <1>5, <1>6
      <4>2. prBatches'[last].sku = c /\ prProc'[prBatches'[last].by].seen = p.seen
        BY <1>9, <1>10, <1>11, <1>12
      <4> QED
        BY <1>10, <1>14, <1>19, <4>1, <4>2 DEF Upto, Counted
    <3>2. \A d \in DOMAIN prBatches' : P!ByRun(d)' => Sum(Quantities', Upto(d)') <= prQuota
      <4>1. ASSUME NEW d \in DOMAIN prBatches, P!ByRun(d)
            PROVE  Sum(Quantities', Upto(d)') <= prQuota
        <5>1. Upto(d) \in SUBSET DOMAIN prBatches
          BY BatchesAreFinite
        <5>2. Sum(Quantities, Upto(d)) <= prQuota
          BY <4>1, QuotaIsASum DEF QuotaInv
        <5> QED
          BY <1>16, <1>17, <5>1, <5>2
      <4>2. Sum(Quantities', Upto(last)') <= prQuota
        BY <2>4, <3>1
      <4> QED
        BY <1>10, <1>14, <4>1, <4>2
    <3> QED
      BY <3>2, QuotaIsASumNext
  <2>6. HasRoom(q)'
    <3> SUFFICES ASSUME NEW n \in P!Later(p.todo)
                 PROVE  Sum(Quantities', Counted(p.seen, prSkus[n])') + p.allocation[prSkus[n]]
                          <= prQuota
      BY <1>11 DEF HasRoom, Pending
    <3>1. n \in p.todo /\ prSkus[n] # c
      BY <1>3, PrintNumbers DEF P!Later
    <3>2. Counted(p.seen, prSkus[n])' = Counted(p.seen, prSkus[n])
      BY <1>9, <1>10, <1>14, <3>1 DEF Counted
    <3>3. Counted(p.seen, prSkus[n]) \in SUBSET DOMAIN prBatches
      BY BatchesAreFinite
    <3>4. Sum(Quantities, Counted(p.seen, prSkus[n])) + p.allocation[prSkus[n]] <= prQuota
      BY <2>2, <3>1 DEF HasRoom
    <3> QED
      BY <1>17, <3>2, <3>3, <3>4
  <2>7. ASSUME NEW j \in Actors, prProc'[j].kind = "run", prProc'[j].at \in P!Making
        PROVE  HasRoom(prProc[j])'
    <3>1. j = i
      BY <1>12, <2>1, <2>7
    <3> QED
      BY <1>12, <2>6, <3>1 DEF HasRoom, Pending
  <2>8. \A j \in Actors : prProc'[j].seen <= Len(prBatches')
    BY <1>1, <1>5, <1>6, <1>7, <1>11, <1>12, <1>15
  <2> QED
    BY <2>5, <2>7, <2>8 DEF QuotaInv
<1> QED
  BY <1>18, <1>19

LEMMA IssuedType ==
  ASSUME PrintInv, NEW c
  PROVE  /\ P!Drawn({b \in DOMAIN prBatches : prBatches[b].sku = c}) \in Nat
         /\ P!Drawn({b \in DOMAIN prBatches : prBatches[b].sku = c}) =
              Sum(Quantities, {b \in DOMAIN prBatches : prBatches[b].sku = c})
<1> DEFINE T == {b \in DOMAIN prBatches : prBatches[b].sku = c}
<1>1. IsFiniteSet(T) /\ \A b \in T : Quantities[b] \in Nat
  BY BatchesAreFinite
<1>2. Sum(Quantities, T) \in Nat
  BY <1>1, SumNat
<1>3. P!Drawn(T) = Sum(Quantities, T)
  BY OneSum DEF P!Drawn, Quantities
<1> QED
  BY <1>2, <1>3

\* check_quota is what gives a run its room: it counts every batch there is.
LEMMA QuotaPlan ==
  ASSUME PrintInv, QuotaInv, NEW i \in Actors, P!Plan(i)
  PROVE  QuotaInv'
<1>1. PICK p : p = prProc[i]
  OBVIOUS
<1>2. /\ p.at = "plan" /\ p \in Command /\ Fine(i, p, prBatches, prFiles, prHolder)
      /\ UNCHANGED prBatches
  BY <1>1, Known DEF P!Plan
<1>3. PICK a \in Weights : a = P!Allocate(p.k, p.weights)
  BY <1>2, AllocationType DEF Command
<1>4. P!Positions(a) \in SUBSET DOMAIN prSkus /\ \A n \in P!Positions(a) : a[prSkus[n]] > 0
  BY DEF P!Positions
<1>5. PICK id \in Nat \ {0} : id = P!UniqueRunId
  BY RunIdIsNew
<1>6. PICK fits \in BOOLEAN : fits = P!Fits(a, P!Remaining(P!IssuedPerCity))
  BY DEF P!Fits
<1> DEFINE q == [p EXCEPT !.at = IF fits THEN "open" ELSE "release", !.id = id,
                          !.seen = Len(prBatches), !.allocation = a,
                          !.todo = IF fits THEN P!Positions(a) ELSE {}]
<1>7. prProc' = [prProc EXCEPT ![i] = q]
  BY <1>1, <1>3, <1>5, <1>6 DEF P!Plan, PrintInv
<1>8. Len(prBatches) \in Nat /\ DOMAIN prBatches = 1..Len(prBatches)
  BY Known
<1>9. q \in Command
  BY <1>2, <1>3, <1>4, <1>5, <1>8 DEF Command, Stops, P!Going, P!Making
<1>10. /\ q.at = (IF fits THEN "open" ELSE "release") /\ q.seen = Len(prBatches)
       /\ q.allocation = a /\ q.todo = (IF fits THEN P!Positions(a) ELSE {})
  BY <1>2 DEF Command
<1> HIDE DEF q
<1>11. ASSUME fits, NEW n \in P!Positions(a)
       PROVE  Sum(Quantities, Counted(Len(prBatches), prSkus[n])) + a[prSkus[n]] <= prQuota
  <2>1. PICK c \in P!Flavors : c = prSkus[n]
    BY <1>4, <1>11 DEF P!Flavors
  <2> DEFINE T == {b \in DOMAIN prBatches : prBatches[b].sku = c}
  <2>2. Counted(Len(prBatches), c) = T
    BY <1>8 DEF Counted
  <2>3. P!Drawn(T) \in Nat /\ P!Drawn(T) = Sum(Quantities, T)
    BY IssuedType
  <2>4. P!Remaining(P!IssuedPerCity)[c] = prQuota - P!Drawn(T)
    BY DEF P!Remaining, P!IssuedPerCity
  <2>5. a[c] \in Int /\ a[c] > 0
    BY <1>4, <1>11, <2>1 DEF Weights
  <2>6. a[c] <= P!Max({P!Remaining(P!IssuedPerCity)[c], 0})
    BY <1>6, <1>11 DEF P!Fits
  <2> HIDE DEF T
  <2>7. PICK left \in Int : left = prQuota - P!Drawn(T)
    BY <2>3, PrintNumbers
  <2>8. a[c] <= P!Max({left, 0})
    BY <2>4, <2>6, <2>7
  <2>9. P!Max({left, 0}) \in {left, 0}
    <3>1. \E m \in {left, 0} : \A n_ \in {left, 0} : m >= n_
      BY <2>7
    <3> QED
      BY <3>1 DEF P!Max
  <2>10. a[c] <= left
    BY <2>5, <2>8, <2>9
  <2> QED
    BY <2>1, <2>2, <2>3, <2>5, <2>7, <2>10, PrintNumbers
<1>12. q.at \in P!Making => HasRoom(q)
  BY <1>10, <1>11 DEF HasRoom, Pending, P!Making
<1>13. \A b \in DOMAIN prBatches : prBatches[b].by # i
  BY <1>2 DEF Fine
<1>14. SameBatches /\ q.seen <= Len(prBatches)
  BY <1>2, <1>8, <1>10 DEF SameBatches
<1> QED
  BY <1>7, <1>9, <1>12, <1>13, <1>14, QuotaStep

LEMMA QuotaStart ==
  ASSUME PrintInv, QuotaInv, NEW i \in Actors, NEW r \in prRequests, P!Start(i, r), PrintInv'
  PROVE  QuotaInv'
<1>1. prProc[i].at = "new" /\ UNCHANGED prBatches
  BY DEF P!Start
<1>2. PICK q : prProc' = [prProc EXCEPT ![i] = q] /\ q.seen = 0
               /\ (q.at \in P!Making /\ q.kind = "run" => FALSE)
  <2>1. PICK b : prProc' = [prProc EXCEPT ![i] =
          [P!Idle EXCEPT !.kind = r.kind, !.k = r.k, !.weights = r.weights, !.batch = b,
             !.at = CASE r.kind = "run" -> "lock" [] r.kind = "loose" -> "open"
                      [] r.kind = "freeze" -> "read",
             !.allocation = IF r.kind = "loose" THEN P!Allocate(r.k, r.weights) ELSE @,
             !.todo = IF r.kind = "loose" THEN P!Positions(P!Allocate(r.k, r.weights)) ELSE @]]
    BY DEF P!Start
  <2> DEFINE q == [P!Idle EXCEPT !.kind = r.kind, !.k = r.k, !.weights = r.weights, !.batch = b,
             !.at = CASE r.kind = "run" -> "lock" [] r.kind = "loose" -> "open"
                      [] r.kind = "freeze" -> "read",
             !.allocation = IF r.kind = "loose" THEN P!Allocate(r.k, r.weights) ELSE @,
             !.todo = IF r.kind = "loose" THEN P!Positions(P!Allocate(r.k, r.weights)) ELSE @]
  <2>2. q.seen = 0 /\ q.kind = r.kind /\ (r.kind = "run" => q.at = "lock")
    BY DEF P!Idle
  <2>3. prProc' = [prProc EXCEPT ![i] = q]
    BY <2>1
  <2> HIDE DEF q
  <2>4. q.at \in P!Making /\ q.kind = "run" => FALSE
    BY <2>2 DEF P!Making
  <2> QED
    BY <2>2, <2>3, <2>4
<1>3. q \in Command
  <2>1. prProc'[i] = q
    BY <1>2 DEF PrintInv
  <2> QED
    BY <2>1 DEF PrintInv
<1>4. \A b \in DOMAIN prBatches : prBatches[b].by # i
  BY <1>1, Known DEF Fine
<1>5. SameBatches /\ q.seen <= Len(prBatches)
  BY <1>1, <1>2, Known, SameAfter
<1>6. q.kind = "run" /\ q.at \in P!Making => HasRoom(q)
  BY <1>2
<1> QED
  BY <1>2, <1>3, <1>4, <1>5, <1>6, QuotaStep

\* The other steps of a command draw nothing: its batch has been made.
LEMMA QuotaOther ==
  ASSUME PrintInv, QuotaInv, PrintInv', NEW i \in Actors,
         \/ P!Lock(i) \/ P!OpenCsv(i) \/ P!InsertCodes(i) \/ P!FreezeRead(i) \/ P!Freeze(i)
         \/ P!Unlock(i) \/ P!Manifest(i) \/ P!Raise(i) \/ P!Orphans(i) \/ P!VoidOrphan(i)
         \/ P!Unlink(i) \/ P!Release(i) \/ P!Kill(i)
  PROVE  QuotaInv'
<1> DEFINE p == prProc[i]
           q == prProc'[i]
           Goes == /\ prProc' = [prProc EXCEPT ![i] = q]
                   /\ q.kind = p.kind /\ q.seen = p.seen
                   /\ q.kind = "run" /\ q.at \in P!Making =>
                        /\ p.at \in P!Making /\ q.allocation = p.allocation
                        /\ Pending(q) \subseteq Pending(p)
<1>1. /\ p \in Command /\ q \in Command /\ Fine(i, p, prBatches, prFiles, prHolder)
      /\ prProc \in [Actors -> Command]
  BY DEF PrintInv
<1>2. ASSUME NEW at, prProc' = [prProc EXCEPT ![i].at = at],
             at \in P!Making => p.at \in {"open", "create"} /\ at \in {"open", "create"}
      PROVE  Goes
  <2>1. q = [p EXCEPT !.at = at] /\ prProc' = [prProc EXCEPT ![i] = q]
    BY <1>1, <1>2
  <2>2. q.kind = p.kind /\ q.seen = p.seen /\ q.at = at /\ q.todo = p.todo
        /\ q.allocation = p.allocation
    BY <1>1, <2>1 DEF Command
  <2> HIDE DEF p, q
  <2> QED
    BY <1>2, <2>1, <2>2 DEF Pending, P!Making
<1>3. ASSUME NEW at, P!End(i, at), at \notin P!Making PROVE Goes
  <2>1. q = P!Ended(i, at) /\ prProc' = [prProc EXCEPT ![i] = q]
    BY <1>1, <1>3 DEF P!End
  <2>2. q.kind = p.kind /\ q.seen = p.seen /\ q.at = at
    BY <1>1, <2>1 DEF P!Ended, P!Idle
  <2> HIDE DEF p, q
  <2> QED
    BY <1>3, <2>1, <2>2
<1>4. CASE UNCHANGED prBatches /\ Goes
  <2>1. SameBatches
    BY <1>4, SameAfter
  <2> QED
    BY <1>1, <1>4, <2>1, GoesOn
<1>5. CASE P!Lock(i)
  <2>1. prProc' = [prProc EXCEPT ![i].at = "plan"] /\ UNCHANGED prBatches
    BY <1>5 DEF P!Lock, P!Go
  <2> QED
    BY <1>2, <1>4, <2>1 DEF P!Making
<1>6. CASE P!OpenCsv(i)
  <2>1. UNCHANGED prBatches /\ p.at = "open"
    BY <1>6 DEF P!OpenCsv
  <2>2. \/ \E at \in {"unlock", "create"} : P!Go(i, at)
        \/ P!End(i, "done")
    BY <1>6 DEF P!OpenCsv
  <2>3. Goes
    BY <1>2, <1>3, <2>1, <2>2 DEF P!Go, P!Making
  <2> QED
    BY <1>4, <2>1, <2>3
<1>7. CASE P!FreezeRead(i)
  <2>1. UNCHANGED prBatches /\ p.at = "read"
    BY <1>7 DEF P!FreezeRead
  <2>2. PICK v : prProc' = [prProc EXCEPT ![i].frozen = v, ![i].at = "freeze"]
    BY <1>7 DEF P!FreezeRead
  <2>3. q = [p EXCEPT !.frozen = v, !.at = "freeze"] /\ prProc' = [prProc EXCEPT ![i] = q]
    BY <1>1, <2>2
  <2>4. q.kind = p.kind /\ q.seen = p.seen /\ q.at = "freeze" /\ q.todo = p.todo
        /\ q.allocation = p.allocation
    BY <1>1, <2>3 DEF Command
  <2>5. Goes
    <3> HIDE DEF p, q
    <3> QED
      BY <2>1, <2>3, <2>4 DEF Pending, P!Making
  <2> QED
    BY <1>4, <2>1, <2>5
<1>8. CASE P!Unlock(i) \/ P!Manifest(i) \/ P!Raise(i) \/ P!Unlink(i) \/ P!Release(i) \/ P!Kill(i)
  <2>1. UNCHANGED prBatches
    BY <1>8 DEF P!Unlock, P!Manifest, P!Raise, P!Unlink, P!Release, P!Kill
  <2>2. \E at \in {"manifest", "release", "orphans", "done", "rolled_back", "killed"} :
          P!Go(i, at) \/ P!End(i, at)
    BY <1>8 DEF P!Unlock, P!Manifest, P!Raise, P!Unlink, P!Release, P!Kill
  <2>3. Goes
    BY <1>2, <1>3, <2>2 DEF P!Go, P!Making
  <2> QED
    BY <1>4, <2>1, <2>3
<1>9. CASE P!Orphans(i) \/ P!VoidOrphan(i)
  <2>1. Goes
    <3>1. CASE P!Go(i, "unlink")
      BY <1>2, <3>1 DEF P!Go, P!Making
    <3>2. CASE \E v : prProc' = [prProc EXCEPT ![i].at = "void", ![i].orphans = v]
      <4>1. PICK v : prProc' = [prProc EXCEPT ![i].at = "void", ![i].orphans = v]
        BY <3>2
      <4>2. q = [p EXCEPT !.at = "void", !.orphans = v] /\ prProc' = [prProc EXCEPT ![i] = q]
        BY <1>1, <4>1
      <4>3. q.kind = p.kind /\ q.seen = p.seen /\ q.at = "void"
        BY <1>1, <4>2 DEF Command
      <4> HIDE DEF p, q
      <4> QED
        BY <4>2, <4>3 DEF P!Making
    <3>3. CASE p.at = "void" /\ \E v : prProc' = [prProc EXCEPT ![i].orphans = v]
      <4>1. PICK v : prProc' = [prProc EXCEPT ![i].orphans = v]
        BY <3>3
      <4>2. q = [p EXCEPT !.orphans = v] /\ prProc' = [prProc EXCEPT ![i] = q]
        BY <1>1, <4>1
      <4>3. q.kind = p.kind /\ q.seen = p.seen /\ q.at = "void"
        BY <1>1, <3>3, <4>2 DEF Command
      <4> HIDE DEF p, q
      <4> QED
        BY <4>2, <4>3 DEF P!Making
    <3>4. P!Orphans(i) => \E v : prProc' = [prProc EXCEPT ![i].at = "void", ![i].orphans = v]
      BY DEF P!Orphans
    <3>5. P!VoidOrphan(i) =>
            \/ P!Go(i, "unlink")
            \/ p.at = "void" /\ \E v : prProc' = [prProc EXCEPT ![i].orphans = v]
      <4> SUFFICES ASSUME P!VoidOrphan(i), ~P!Go(i, "unlink")
                   PROVE  p.at = "void" /\ \E v : prProc' = [prProc EXCEPT ![i].orphans = v]
        OBVIOUS
      <4>1. PICK b \in p.orphans : prProc' = [prProc EXCEPT ![i].orphans = @ \ {b}]
        BY DEF P!VoidOrphan
      <4>2. prProc' = [prProc EXCEPT ![i].orphans = p.orphans \ {b}]
        BY <1>1, <4>1
      <4> QED
        BY <4>2 DEF P!VoidOrphan
    <3> QED
      BY <1>9, <3>1, <3>2, <3>3, <3>4, <3>5
  <2>2. SameBatches
    <3>1. CASE UNCHANGED prBatches
      BY <3>1, SameAfter
    <3>2. CASE \E b \in p.orphans : prBatches' = [prBatches EXCEPT ![b].status = "void"]
      <4>1. \A b \in p.orphans : p.at = "void" => b \in DOMAIN prBatches
        BY <1>1 DEF Fine
      <4>2. CASE P!Orphans(i)
        BY <4>2, SameAfter DEF P!Orphans
      <4>3. CASE P!VoidOrphan(i)
        BY <3>2, <4>1, <4>3, SameAfter DEF P!VoidOrphan
      <4> QED
        BY <1>9, <4>2, <4>3
    <3> QED
      BY <1>9, <3>1, <3>2 DEF P!Orphans, P!VoidOrphan, P!SetStatus
  <2> QED
    BY <1>1, <2>1, <2>2, GoesOn
<1>10. CASE P!InsertCodes(i)
  <2>1. p.at = "insert" /\ p.batch \in DOMAIN prBatches
    BY <1>1, <1>10 DEF P!InsertCodes, Fine
  <2>2. PICK rest : rest = prBatches[p.batch].quantity - prBatches[p.batch].inserted
    OBVIOUS
  <2>3. PICK n \in 1..P!Min({prChunk, rest}) :
          /\ prBatches' = [prBatches EXCEPT ![p.batch].inserted = @ + n]
          /\ prProc' = [prProc EXCEPT
               ![i].at = IF n < rest THEN "insert" ELSE IF p.kind = "run" THEN "read" ELSE "open",
               ![i].todo = IF n = rest /\ p.kind = "loose" THEN P!Later(@) ELSE @]
    BY <1>10, <2>2, Zenon DEF P!InsertCodes
  <2>4. PICK at, v :
          /\ prBatches' = [prBatches EXCEPT ![p.batch].inserted = @ + n]
          /\ prProc' = [prProc EXCEPT ![i].at = at, ![i].todo = v]
          /\ p.kind = "run" => at \in {"insert", "read"} /\ v = p.todo
    <3>1. prProc' = [prProc EXCEPT
            ![i].at = IF n < rest THEN "insert" ELSE IF p.kind = "run" THEN "read" ELSE "open",
            ![i].todo = IF n = rest /\ p.kind = "loose" THEN P!Later(p.todo) ELSE p.todo]
      BY <1>1, <2>3
    <3>2. PICK at, v :
            /\ at = (IF n < rest THEN "insert" ELSE IF p.kind = "run" THEN "read" ELSE "open")
            /\ v = (IF n = rest /\ p.kind = "loose" THEN P!Later(p.todo) ELSE p.todo)
      OBVIOUS
    <3> QED
      BY <2>3, <3>1, <3>2
  <2>5. SameBatches
    <3>1. \E m : prBatches' = [prBatches EXCEPT ![p.batch].inserted = m]
      BY <2>1, <2>4
    <3> QED
      BY <2>1, <3>1, SameAfter
  <2>6. Goes
    <3>1. q = [p EXCEPT !.at = at, !.todo = v] /\ prProc' = [prProc EXCEPT ![i] = q]
      BY <1>1, <2>4
    <3>2. q.kind = p.kind /\ q.seen = p.seen /\ q.at = at /\ q.todo = v
          /\ q.allocation = p.allocation
      BY <1>1, <3>1 DEF Command
    <3> HIDE DEF p, q
    <3> QED
      BY <2>1, <2>4, <3>1, <3>2 DEF Pending, P!Making
  <2> QED
    BY <1>1, <2>5, <2>6, GoesOn
<1>11. CASE P!Freeze(i)
  <2>1. p.at = "freeze" /\ p.batch \in DOMAIN prBatches
    BY <1>1, <1>11 DEF P!Freeze, Fine
  <2>2. SameBatches
    BY <1>11, <2>1, SameAfter DEF P!Freeze
  <2>3. Goes
    <3>1. CASE p.kind = "run"
      <4>1. /\ q = [p EXCEPT !.at = "open", !.todo = P!Later(@), !.batch = 0]
            /\ prProc' = [prProc EXCEPT ![i] = q]
        BY <1>1, <1>11, <3>1 DEF P!Freeze
      <4>2. q.kind = p.kind /\ q.seen = p.seen /\ q.at = "open" /\ q.todo = P!Later(p.todo)
            /\ q.allocation = p.allocation
        BY <1>1, <4>1 DEF Command
      <4> HIDE DEF p, q
      <4> QED
        BY <2>1, <4>1, <4>2 DEF Pending, P!Making
    <3>2. CASE p.kind # "run"
      <4>1. P!End(i, "done")
        BY <1>11, <3>2 DEF P!Freeze, P!End
      <4> QED
        BY <1>3, <4>1 DEF P!Making
    <3> QED
      BY <3>1, <3>2
  <2> QED
    BY <1>1, <2>2, <2>3, GoesOn
<1> HIDE DEF p, q, Goes
<1> QED
  BY <1>5, <1>6, <1>7, <1>8, <1>9, <1>10, <1>11

LEMMA QuotaOperate ==
  ASSUME PrintInv, QuotaInv, NEW b \in DOMAIN prBatches, P!Operate(b)
  PROVE  QuotaInv'
<1>1. SameBatches /\ UNCHANGED prProc
  BY SameAfter DEF P!Operate, P!SetStatus
<1>2. PICK i \in Actors : i = prBatches[b].by
  <2>1. prBatches[b] \in PrintBatch
    BY DEF PrintInv
  <2> QED
    BY <2>1 DEF PrintBatch
<1>3. PICK q : q = prProc[i]
  OBVIOUS
<1>4. q \in Command /\ prProc' = [prProc EXCEPT ![i] = q]
  BY <1>1, <1>3 DEF PrintInv
<1> QED
  BY <1>1, <1>3, <1>4, GoesOn

LEMMA QuotaNext == PrintInv /\ PrintInv' /\ QuotaInv /\ [P!Next]_(P!vars) => QuotaInv'
<1> SUFFICES ASSUME PrintInv, PrintInv', QuotaInv, [P!Next]_(P!vars) PROVE QuotaInv'
  OBVIOUS
<1>1. CASE UNCHANGED P!vars
  BY <1>1 DEF P!vars, QuotaInv, P!QuotaHolds, P!Drawn, P!ByRun, HasRoom, Pending, Quantities,
     Counted
<1>2. ASSUME NEW i \in Actors,
             \/ \E r \in prRequests : P!Start(i, r)
             \/ P!Lock(i) \/ P!Plan(i) \/ P!OpenCsv(i) \/ P!CreateBatch(i) \/ P!InsertCodes(i)
             \/ P!FreezeRead(i) \/ P!Freeze(i) \/ P!Unlock(i) \/ P!Manifest(i)
             \/ P!Raise(i) \/ P!Orphans(i) \/ P!VoidOrphan(i) \/ P!Unlink(i) \/ P!Release(i)
             \/ P!Kill(i)
      PROVE  QuotaInv'
  BY <1>2, QuotaStart, QuotaPlan, QuotaCreate, QuotaOther
<1> QED
  BY <1>1, <1>2, QuotaOperate DEF P!Next

\* No print run takes a flavor past its quota: what it could see when it was
\* planned, and what runs have drawn since, fit into it, whatever batches
\* failed, were voided or were left behind by killed runs (check_quota under
\* the advisory lock).
THEOREM QuotaIsKept == Spec => []QuotaHolds
<1>1. QuotaInv => QuotaHolds
  BY DEF QuotaInv, QuotaHolds
<1> QED
  BY <1>1, QuotaInit, QuotaNext, PrintRunsRun, PrintAlways, PTL DEF P!Spec

=============================================================================
