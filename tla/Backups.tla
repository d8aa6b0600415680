------------------------------- MODULE Backups -------------------------------
(***************************************************************************)
(* scripts/backup_pull.py on the office PC: pull a dump, prove that it     *)
(* restores, drop old ones.  The task scheduler starts it again and again; *)
(* it may be killed between any two of its steps.                          *)
(*                                                                         *)
(*   pulling -> named -> pruning -> idle                                   *)
(*                                                                         *)
(* A dump is known by the moment in its name.  Its checksum comes and goes *)
(* with it, and a partial file, which nothing reads, is not kept here.     *)
(***************************************************************************)
EXTENDS Integers, FiniteSets, FiniteSetsExt

CONSTANTS
  PerDay,       \* moments in a day
  KeepDaysAll, KeepDays,  \* in days
  MaxMoment     \* bound of the clock

BackupsAssumption ==
  /\ PerDay \in Nat \ {0} /\ KeepDaysAll \in Nat /\ KeepDays \in Nat
  /\ MaxMoment \in Nat

VARIABLES
  now,
  dumps,     \* moments of the *.dump files
  job,       \* [at, stamp, doomed]
  pulled,    \* history: every dump that was ever named
  verified   \* history: dumps that proved to restore

vars == <<now, dumps, job, pulled, verified>>

Resting == [at |-> "idle", stamp |-> 0, doomed |-> {}]
Go(at) == job' = [job EXCEPT !.at = at]

Day(t) == t \div PerDay
Age(t) == now - t

\* The timeouts of the subprocesses bound what one run can take.
Tick ==
  /\ now < MaxMoment
  /\ job.at # "idle" => Age(job.stamp) < PerDay
  /\ now' = now + 1
  /\ UNCHANGED <<dumps, job, pulled, verified>>

\* pull_dump takes the moment for the name.
Begin ==
  /\ job.at = "idle" /\ now \notin pulled
  /\ job' = [Resting EXCEPT !.at = "pulling", !.stamp = now]
  /\ UNCHANGED <<now, dumps, pulled, verified>>

\* The stream ended well and begins with the magic; or the run ends.
Name ==
  /\ job.at = "pulling"
  /\ \/ /\ dumps' = dumps \cup {job.stamp} /\ pulled' = pulled \cup {job.stamp}
        /\ Go("named")
     \/ job' = Resting /\ UNCHANGED <<dumps, pulled>>
  /\ UNCHANGED <<now, verified>>

\* Mutant: a day's dumps are looked at from the oldest on.
NewestOfDay_Oldest(t) == \A d \in dumps : Day(d) = Day(t) => d >= t
\* day not in seen_days, newest first.
NewestOfDay(t) == \A d \in dumps : Day(d) = Day(t) => d <= t

\* prune: every dump of the last days, the newest of each day before.
Kept(t) ==
  \/ Age(t) <= KeepDaysAll * PerDay
  \/ Age(t) <= KeepDays * PerDay /\ NewestOfDay(t)

\* verify_remote or verify_local and the row checks; a failure ends the run
\* before prune, and the dump stays.  prune decides by one reading of the
\* directory and of the clock.
Verify ==
  /\ job.at = "named"
  /\ \/ /\ verified' = verified \cup {job.stamp}
        /\ job' = [job EXCEPT !.at = "pruning", !.doomed = {t \in dumps : ~Kept(t)}]
     \/ job' = Resting /\ UNCHANGED verified
  /\ UNCHANGED <<now, dumps, pulled>>

\* The files go one by one, newest first.
Prune ==
  /\ job.at = "pruning"
  /\ IF job.doomed = {} THEN job' = Resting /\ UNCHANGED dumps
     ELSE /\ dumps' = dumps \ {Max(job.doomed)}
          /\ job' = [job EXCEPT !.doomed = @ \ {Max(@)}]
  /\ UNCHANGED <<now, pulled, verified>>

Kill ==
  /\ job.at # "idle"
  /\ job' = Resting
  /\ UNCHANGED <<now, dumps, pulled, verified>>

Init ==
  /\ now = 0 /\ dumps = {} /\ job = Resting
  /\ pulled = {} /\ verified = {}

Next == Tick \/ Begin \/ Name \/ Verify \/ Prune \/ Kill

Spec == Init /\ [][Next]_vars

-----------------------------------------------------------------------------
(* Properties                                                              *)

TypeOK ==
  /\ now \in 0..MaxMoment
  /\ dumps \subseteq pulled /\ verified \subseteq pulled
  /\ job.at \in {"idle", "pulling", "named", "pruning"}

\* Retention (docs/OPERATIONS.md): whatever was killed or failed, every dump
\* of the last KeepDaysAll days is there, each day of the last KeepDays still
\* has the newest dump that was ever pulled on it, and once a dump has proved
\* to restore, one that has is there (unless both options are zero: then
\* nothing is asked to be kept).
BackupsAreKept ==
  /\ \A t \in pulled : Age(t) <= KeepDaysAll * PerDay => t \in dumps
  /\ \A t \in pulled :
       Age(t) <= KeepDays * PerDay /\ (\A d \in pulled : Day(d) = Day(t) => d <= t) =>
         t \in dumps
  /\ KeepDaysAll + KeepDays > 0 /\ verified # {} => verified \cap dumps # {}
=============================================================================
