------------------------------ MODULE PrintRuns ------------------------------
(***************************************************************************)
(* Generating printed codes (scripts/print_run.py, generate_codes.py and   *)
(* code_batches.py, app/domain/print_runs.py).                             *)
(*                                                                         *)
(* Every invocation of a command is a process; each of its transactions    *)
(* and file operations is a step:                                          *)
(*                                                                         *)
(*   lock -> plan -> { open -> create -> insert -> read -> freeze }*       *)
(*        -> unlock -> manifest -> done                                    *)
(*                                                                         *)
(* An exception while the batches are made leads to                        *)
(*   orphans -> void -> unlink -> release -> rolled_back                   *)
(* generate_codes runs open .. insert alone, code_batches export/freeze    *)
(* runs read and freeze alone.  A label is the run id it starts with.      *)
(***************************************************************************)
EXTENDS Allocation, FiniteSetsExt

CONSTANTS
  Invocations,
  Quota,        \* quota_per_sku
  Chunk,        \* INSERT_CHUNK
  Requests,     \* [kind, k, weights]: what operators ask for
  MaxOperations,  \* activations and voids by hand: bound of the model
  NoOne

PrintRunsAssumption ==
  /\ AllocationAssumption
  /\ Quota \in Nat /\ Chunk \in Nat \ {0}
  /\ MaxOperations \in Nat /\ NoOne \notin Invocations
  /\ Requests \subseteq [kind : {"run", "loose", "freeze"}, k : Nat,
                         weights : [Flavors -> Int]]

VARIABLES
  batches,   \* code_batches with their codes, in the order of creation
  events,    \* code_batch_events [batch, type, actor]
  files,     \* [by, sku] in the output directories; the manifest's sku is NoOne
  holder,    \* who holds the advisory lock
  proc

vars == <<batches, events, files, holder, proc>>

-----------------------------------------------------------------------------
(* The quota                                                               *)

Remaining(issued) == [c \in Flavors |-> Quota - issued[c]]

\* check_quota: a flavor that is already over its quota blocks only runs
\* that want codes of it.
Fits(allocation, left) ==
  \A c \in Flavors : allocation[c] <= Max({left[c], 0})

-----------------------------------------------------------------------------
(* Batches                                                                 *)

Idle == [at |-> "new", kind |-> "none", k |-> 0, weights |-> [c \in Flavors |-> 0],
         id |-> 0, todo |-> {}, allocation |-> [c \in Flavors |-> 0],
         batch |-> 0, orphans |-> {}, seen |-> 0, frozen |-> FALSE]

Go(i, at) == proc' = [proc EXCEPT ![i].at = at]
\* What is kept of a command that has ended.
Ended(i, at) ==
  [Idle EXCEPT !.at = at, !.kind = proc[i].kind, !.seen = proc[i].seen]
End(i, at) == proc' = [proc EXCEPT ![i] = Ended(i, at)]
\* The loop over SKU_ORDER: todo is the positions whose batches are to be made.
Sku(i) == Skus[Min(proc[i].todo)]
Positions(wanted) == {n \in DOMAIN Skus : wanted[Skus[n]] > 0}
Later(todo) == todo \ {Min(todo)}
Event(b, type, actor) == [batch |-> b, type |-> type, actor |-> actor]

Drawn(set) == SumFunctionOnSet([b \in DOMAIN batches |-> batches[b].quantity], set)

\* Mutant: codes of voided batches go back to the pool.
IssuedPerCity_Live ==
  [c \in Flavors |->
     Drawn({b \in DOMAIN batches : batches[b].sku = c /\ batches[b].status # "void"})]

\* issued_per_city: the planned quantity counts, whatever was inserted.
IssuedPerCity ==
  [c \in Flavors |-> Drawn({b \in DOMAIN batches : batches[b].sku = c})]

Labelled(id) == {b \in DOMAIN batches : batches[b].label = id}

\* unique_run_id: the least suffix no label has.  All runs begin in one
\* second here; the ids of different seconds differ anyway.
UniqueRunId == Min({n \in 1..(Len(batches) + 1) : Labelled(n) = {}})

-----------------------------------------------------------------------------
(* run_print_run and _generate_all                                         *)

Start(i, r) ==
  /\ proc[i].at = "new"
  /\ r.kind # "freeze" => ValidWeights(r.weights) /\ r.k >= 1
  /\ \E b \in IF r.kind = "freeze" THEN DOMAIN batches ELSE {0} :
       proc' = [proc EXCEPT ![i] =
         [Idle EXCEPT !.kind = r.kind, !.k = r.k, !.weights = r.weights, !.batch = b,
            !.at = CASE r.kind = "run" -> "lock" [] r.kind = "loose" -> "open"
                     [] r.kind = "freeze" -> "read",
            !.allocation = IF r.kind = "loose" THEN Allocate(r.k, r.weights) ELSE @,
            !.todo = IF r.kind = "loose" THEN Positions(Allocate(r.k, r.weights)) ELSE @]]
  /\ UNCHANGED <<batches, events, files, holder>>

Lock(i) ==
  /\ proc[i].at = "lock" /\ holder = NoOne
  /\ holder' = i
  /\ Go(i, "plan")
  /\ UNCHANGED <<batches, events, files>>

\* unique_run_id, issued_per_city and plan_run: the whole run, or nothing.
\* Both reads are made under the lock; only a batch of generate_codes, which
\* has no run's label, can come between them.
Plan(i) ==
  LET allocation == Allocate(proc[i].k, proc[i].weights)
      fits == Fits(allocation, Remaining(IssuedPerCity)) IN
  /\ proc[i].at = "plan"
  /\ proc' = [proc EXCEPT
       ![i].at = IF fits THEN "open" ELSE "release",
       ![i].id = UniqueRunId, ![i].seen = Len(batches),
       ![i].allocation = allocation,
       ![i].todo = IF fits THEN Positions(allocation) ELSE {}]
  /\ UNCHANGED <<batches, events, files, holder>>

\* open_private_csv, or the end of the loop.
OpenCsv(i) ==
  /\ proc[i].at = "open"
  /\ IF proc[i].todo = {}
     THEN /\ IF proc[i].kind = "run" THEN Go(i, "unlock") ELSE End(i, "done")
          /\ UNCHANGED files
     ELSE /\ Go(i, "create")
          /\ files' = files \cup {[by |-> i, sku |-> Sku(i)]}
  /\ UNCHANGED <<batches, events, holder>>

CreateBatch(i) ==
  /\ proc[i].at = "create"
  /\ batches' = Append(batches,
       [label |-> proc[i].id, by |-> i, sku |-> Sku(i), status |-> "generated",
        quantity |-> proc[i].allocation[Sku(i)], inserted |-> 0, frozen |-> FALSE])
  /\ events' = events \cup {Event(Len(batches'), "generated", "none")}
  /\ proc' = [proc EXCEPT ![i].batch = Len(batches'), ![i].at = "insert"]
  /\ UNCHANGED <<files, holder>>

\* insert_codes: a code whose hash exists is skipped, and asked for again.
\* After the last chunk the rows and their checksum are written; a loose
\* batch ends here, unfrozen.
InsertCodes(i) ==
  LET b == proc[i].batch
      rest == batches[b].quantity - batches[b].inserted IN
  /\ proc[i].at = "insert"
  /\ \E n \in 1..Min({Chunk, rest}) :
       /\ batches' = [batches EXCEPT ![b].inserted = @ + n]
       /\ proc' = [proc EXCEPT
            ![i].at = IF n < rest THEN "insert"
                      ELSE IF proc[i].kind = "run" THEN "read" ELSE "open",
            ![i].todo = IF n = rest /\ proc[i].kind = "loose" THEN Later(@) ELSE @]
  /\ UNCHANGED <<events, files, holder>>

\* freeze_batch reads the row, then writes it by its key.
FreezeRead(i) ==
  /\ proc[i].at = "read"
  /\ proc' = [proc EXCEPT ![i].frozen = batches[proc[i].batch].frozen,
                          ![i].at = "freeze"]
  /\ UNCHANGED <<batches, events, files, holder>>

Freeze(i) ==
  LET p == proc[i] IN
  /\ p.at = "freeze"
  /\ IF p.frozen THEN UNCHANGED <<batches, events>>
     ELSE /\ batches' = [batches EXCEPT ![p.batch].frozen = TRUE]
          /\ events' = events \cup
               {Event(p.batch, IF p.kind = "run" THEN "exported" ELSE "frozen", p.kind)}
  /\ proc' = IF p.kind = "run"
             THEN [proc EXCEPT ![i].at = "open", ![i].todo = Later(@), ![i].batch = 0]
             ELSE [proc EXCEPT ![i] = Ended(i, "done")]
  /\ UNCHANGED <<files, holder>>

Unlocked(i) == IF holder = i THEN NoOne ELSE holder

Unlock(i) ==
  /\ proc[i].at = "unlock"
  /\ holder' = Unlocked(i)
  /\ Go(i, "manifest")
  /\ UNCHANGED <<batches, events, files>>

Manifest(i) ==
  /\ proc[i].at = "manifest"
  /\ files' = files \cup {[by |-> i, sku |-> NoOne]}
  /\ End(i, "done")
  /\ UNCHANGED <<batches, events, holder>>

-----------------------------------------------------------------------------
(* Failure and rollback                                                    *)

Making == {"open", "create", "insert", "read", "freeze"}
Going == Making \cup {"lock", "plan", "unlock", "manifest", "orphans", "void",
                      "unlink", "release"}

\* An exception under the lock, whether or not the step took effect.
Raise(i) ==
  /\ proc[i].kind = "run" /\ proc[i].at \in Making \cup {"plan"}
  /\ Go(i, IF proc[i].at = "plan" THEN "release" ELSE "orphans")
  /\ UNCHANGED <<batches, events, files, holder>>

\* Mutant: only batches whose generation returned their id are voided.
Orphans_Returned(i) ==
  /\ proc[i].at = "orphans"
  /\ proc' = [proc EXCEPT ![i].at = "void",
                          ![i].orphans = Labelled(proc[i].id) \ {proc[i].batch}]
  /\ UNCHANGED <<batches, events, files, holder>>

\* By label: also the batch that died half-way.
Orphans(i) ==
  /\ proc[i].at = "orphans"
  /\ proc' = [proc EXCEPT ![i].at = "void", ![i].orphans = Labelled(proc[i].id)]
  /\ UNCHANGED <<batches, events, files, holder>>

\* set_status: a conditional update and its event.
SetStatus(b, from, to, actor) ==
  IF batches[b].status \in from
  THEN /\ batches' = [batches EXCEPT ![b].status = to]
       /\ events' = events \cup {Event(b, to, actor)}
  ELSE UNCHANGED <<batches, events>>

VoidOrphan(i) ==
  /\ proc[i].at = "void"
  /\ IF proc[i].orphans = {}
     THEN Go(i, "unlink") /\ UNCHANGED <<batches, events>>
     ELSE \E b \in proc[i].orphans :
            /\ SetStatus(b, {"generated", "active"}, "void", "rollback")
            /\ proc' = [proc EXCEPT ![i].orphans = @ \ {b}]
  /\ UNCHANGED <<files, holder>>

Unlink(i) ==
  /\ proc[i].at = "unlink"
  /\ files' = {f \in files : f.by # i}
  /\ Go(i, "release")
  /\ UNCHANGED <<batches, events, holder>>

\* The finally clause after a refusal or a rollback.
Release(i) ==
  /\ proc[i].at = "release"
  /\ holder' = Unlocked(i)
  /\ End(i, "rolled_back")
  /\ UNCHANGED <<batches, events, files>>

\* The process is killed, and its connection and lock are gone; or an
\* exception that nothing undoes: in a loose batch, in the rollback itself,
\* after the last batch.
Kill(i) ==
  /\ proc[i].at \in Going
  /\ holder' = Unlocked(i)
  /\ End(i, "killed")
  /\ UNCHANGED <<batches, events, files>>

-----------------------------------------------------------------------------
(* code_batches activate and void                                          *)

Operate(b) ==
  /\ Cardinality({e \in events : e.actor = "operator"}) < MaxOperations
  /\ \/ SetStatus(b, {"generated"}, "active", "operator")
     \/ SetStatus(b, {"generated", "active"}, "void", "operator")
  /\ UNCHANGED <<files, holder, proc>>

Init ==
  /\ batches = <<>> /\ events = {} /\ files = {} /\ holder = NoOne
  /\ proc = [i \in Invocations |-> Idle]

Next ==
  \/ \E i \in Invocations :
       \/ \E r \in Requests : Start(i, r)
       \/ Lock(i) \/ Plan(i) \/ OpenCsv(i) \/ CreateBatch(i) \/ InsertCodes(i)
       \/ FreezeRead(i) \/ Freeze(i) \/ Unlock(i) \/ Manifest(i)
       \/ Raise(i) \/ Orphans(i) \/ VoidOrphan(i) \/ Unlink(i) \/ Release(i)
       \/ Kill(i)
  \/ \E b \in DOMAIN batches : Operate(b)

Spec == Init /\ [][Next]_vars

-----------------------------------------------------------------------------
(* Properties                                                              *)

ByRun(b) == proc[batches[b].by].kind = "run"

\* Types; the lock's holder is a run that took it.
TypeOK ==
  /\ \A b \in DOMAIN batches :
       /\ batches[b].by \in Invocations /\ batches[b].sku \in Flavors
       /\ batches[b].inserted \in 0..batches[b].quantity
       /\ batches[b].status \in {"generated", "active", "void"}
       /\ batches[b].frozen \in BOOLEAN
  /\ \A e \in events : e.batch \in DOMAIN batches
  /\ holder \in Invocations \cup {NoOne}
  /\ \A i \in Invocations : proc[i].at \in Going \cup
       {"new", "done", "killed", "rolled_back"}

\* Print runs never take a flavor past its quota (check_quota, under the
\* advisory lock): whatever failed, was voided or was killed, the batches a
\* run could see when it was planned and all that runs have drawn since fit
\* into it.  Batches of generate_codes that appear after the plan are not the
\* run's doing.
QuotaHolds ==
  \A b \in DOMAIN batches :
    ByRun(b) =>
      Drawn({d \in 1..b : /\ batches[d].sku = batches[b].sku
                          /\ ByRun(d) \/ d <= proc[batches[b].by].seen}) <= Quota

\* A rollback is exact (_generate_all's except clause): when it is over,
\* every batch of its run is void and its files are gone, and no batch of
\* another run was voided by it.
RollbackIsExact ==
  /\ \A i \in Invocations :
       proc[i].kind = "run" /\ proc[i].at = "rolled_back" =>
         /\ \A b \in DOMAIN batches : batches[b].by = i => batches[b].status = "void"
         /\ \A f \in files : f.by # i
  /\ \A e \in events :
       e.type = "void" /\ e.actor = "rollback" =>
         proc[batches[e.batch].by].at \in
           {"void", "unlink", "release", "rolled_back", "killed"}

=============================================================================
