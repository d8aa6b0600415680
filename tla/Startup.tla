-------------------------------- MODULE Startup --------------------------------
(***************************************************************************)
(* The guards against a wrong pepper or a changed code format: settings    *)
(* (core/config.py), the check at boot (app.py lifespan), GET /ready       *)
(* (api/routes.py, PepperGuard) and scripts/check_code.py.  Batches are    *)
(* made, frozen and activated by commands at any moment; a process keeps   *)
(* the release and the pepper it was started with.                         *)
(*                                                                         *)
(* A code format's fingerprint is the spec of the release that computed    *)
(* it; a pepper's fingerprint is the pepper.                               *)
(***************************************************************************)
EXTENDS Integers, Sequences, FiniteSets

CONSTANTS
  Processes,
  Specs,        \* what a registered format can look like in a release
  Peppers,
  Environment,  \* "development", "staging" or "production"
  MaxBatches,   \* bound of the model
  None          \* no pepper; no fingerprint

StartupAssumption ==
  /\ Environment \in {"development", "staging", "production"}
  /\ MaxBatches \in Nat /\ None \notin Specs \cup Peppers

VARIABLES
  env,      \* [spec, pepper] what a process or command is started with
  batches,  \* [spec, pepper, stamp, frozen, status]
  proc

vars == <<env, batches, proc>>

Off == [at |-> "off", spec |-> None, pepper |-> None, formats |-> {}, before |-> {},
        ready |-> FALSE, polled |-> {}]
Go(p, at) == proc' = [proc EXCEPT ![p].at = at]

Frozen == {b \in DOMAIN batches : batches[b].frozen # None}
Active == {b \in DOMAIN batches : batches[b].status = "active"}

-----------------------------------------------------------------------------
(* Boot                                                                    *)

\* Settings: only development runs without a pepper.
ValidSettings(e) == Environment = "development" \/ e.pepper # None

\* before is history: the batches frozen when the boot began.
Start(p) ==
  /\ proc[p].at = "off" /\ ValidSettings(env)
  /\ proc' = [proc EXCEPT ![p] =
       [Off EXCEPT !.at = "formats", !.spec = env.spec, !.pepper = env.pepper,
                   !.before = Frozen]]
  /\ UNCHANGED <<env, batches>>

\* frozen_batch_formats.  A database that does not answer skips every check.
ReadFormats(p) ==
  /\ proc[p].at = "formats"
  /\ \/ Go(p, "unchecked")
     \/ proc' = [proc EXCEPT ![p].at = "peppers",
                             ![p].formats = {batches[b].frozen : b \in Frozen}]
  /\ UNCHANGED <<env, batches>>

\* Mutant: a stamp that is missing counts as a mismatch, and one that is
\* there does not.
Mismatched_Legacy(b, pepper) == batches[b].stamp = None
\* find_pepper_mismatches: a batch from before the guard is never flagged.
Mismatched(b, pepper) == batches[b].stamp \notin {None, pepper}

PeppersMatch(pepper) == pepper = None \/ \A b \in Active : ~Mismatched(b, pepper)

\* active_batch_peppers, then both verifications: the boot goes on or dies.
ReadPeppers(p) ==
  /\ proc[p].at = "peppers"
  /\ \/ Go(p, "unchecked")
     \/ proc' = [proc EXCEPT ![p] =
          IF proc[p].formats \subseteq {proc[p].spec} /\ PeppersMatch(proc[p].pepper)
          THEN [@ EXCEPT !.at = "up", !.formats = {}] ELSE Off]
  /\ UNCHANGED <<env, batches>>

Stop(p) ==
  /\ proc[p].at # "off"
  /\ proc' = [proc EXCEPT ![p] = Off]
  /\ UNCHANGED <<env, batches>>

-----------------------------------------------------------------------------
(* GET /ready                                                              *)

Serving(p) == proc[p].at \in {"up", "unchecked"}

\* SELECT 1, then the active batches, by two connections; polled is history:
\* the batches active when the poll began.
Poll(p) ==
  /\ Serving(p)
  /\ \/ proc' = [proc EXCEPT ![p].ready = FALSE, ![p].polled = {}]
     \/ proc' = [proc EXCEPT ![p].ready = PeppersMatch(proc[p].pepper), ![p].polled = Active]
  /\ UNCHANGED <<env, batches>>

-----------------------------------------------------------------------------
(* Operators and commands                                                  *)

\* A deploy, or an edit of the environment file.
Configure ==
  /\ \E s \in Specs, k \in Peppers \cup {None} : env' = [spec |-> s, pepper |-> k]
  /\ UNCHANGED <<batches, proc>>

\* generate_codes refuses to run without a pepper.
Generate ==
  /\ Len(batches) < MaxBatches /\ env.pepper # None
  /\ batches' = Append(batches,
       [spec |-> env.spec, pepper |-> env.pepper, stamp |-> env.pepper,
        frozen |-> None, status |-> "generated"])
  /\ UNCHANGED <<env, proc>>

\* freeze_batch stamps what the command's own release computes.
Freeze(b) ==
  /\ batches[b].frozen = None
  /\ batches' = [batches EXCEPT ![b].frozen = env.spec]
  /\ UNCHANGED <<env, proc>>

SetStatus(b) ==
  /\ \/ batches[b].status = "generated" /\ batches' = [batches EXCEPT ![b].status = "active"]
     \/ batches[b].status # "void" /\ batches' = [batches EXCEPT ![b].status = "void"]
  /\ UNCHANGED <<env, proc>>

\* lookup_code: the hash under the command's pepper finds the row or does
\* not; of a row it finds it also compares the batch's stamp.
CheckCode(b) ==
  IF batches[b].pepper # env.pepper THEN "unknown"
  ELSE IF batches[b].stamp = None THEN "unstamped"
  ELSE IF batches[b].stamp = env.pepper THEN "matches" ELSE "column mismatch"

\* The oldest batch is from before the guard: nothing was stamped.
Init ==
  \E s \in Specs, k \in Peppers :
    /\ env = [spec |-> s, pepper |-> k]
    /\ batches = <<[spec |-> s, pepper |-> k, stamp |-> None, frozen |-> None,
                    status |-> "active"]>>
    /\ proc = [p \in Processes |-> Off]

Next ==
  \/ \E p \in Processes :
       Start(p) \/ ReadFormats(p) \/ ReadPeppers(p) \/ Stop(p) \/ Poll(p)
  \/ Configure \/ Generate
  \/ \E b \in DOMAIN batches : Freeze(b) \/ SetStatus(b)

Spec == Init /\ [][Next]_vars

-----------------------------------------------------------------------------
(* Properties                                                              *)

TypeOK ==
  /\ env \in [spec : Specs, pepper : Peppers \cup {None}]
  /\ \A b \in DOMAIN batches :
       /\ batches[b].status \in {"generated", "active", "void"}
       /\ batches[b].frozen \in Specs \cup {None} /\ batches[b].stamp \in Peppers \cup {None}
  /\ \A p \in Processes :
       proc[p].at \in {"off", "formats", "peppers", "up", "unchecked"}

\* A boot whose checks ran serves no batch that was frozen under another
\* spec before it began (verify_frozen_formats, "before the app serves a
\* single request").
BootIsGuarded ==
  \A p \in Processes : proc[p].at = "up" =>
    \A b \in proc[p].before : batches[b].frozen = proc[p].spec

\* What /ready promises while drift goes on: outside development, a process
\* that last answered 200 can find the codes of every batch that was active
\* then, unless the batch was never stamped.
ReadyIsTrue ==
  \A p \in Processes : Serving(p) /\ proc[p].ready /\ Environment # "development" =>
    \A b \in proc[p].polled :
      batches[b].stamp # None => batches[b].pepper = proc[p].pepper

\* check_code's comment on pepper_matches: a row that was found cannot
\* disagree with the stamp, for nothing in the program edits one.
StampsAgree ==
  \A b \in DOMAIN batches : env.pepper # None => CheckCode(b) # "column mismatch"
=============================================================================
