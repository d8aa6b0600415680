----------------------------- MODULE Leaderboards -----------------------------
(***************************************************************************)
(* GET /leaderboards/mini-games (application/leaderboards.py and           *)
(* PostgreSQLLeaderboardReader): the best runs of a period, from a cache   *)
(* of one process that is filled across an await, and the caller's own     *)
(* place, which is always read.                                            *)
(*                                                                         *)
(* What a board says is a function (Rankings) of the runs at the moment it *)
(* was read, so the cache keeps that moment.                               *)
(***************************************************************************)
EXTENDS Integers, FiniteSets, FiniteSetsExt

CONSTANTS
  Calls,
  TTL,
  Length,      \* of "today" and "week", in the clock's units
  MaxMoment,   \* bound of the clock
  None

\* "all" has no length.
Periods == DOMAIN Length \cup {"all"}

LeaderboardsAssumption ==
  /\ TTL \in Nat /\ MaxMoment \in Nat
  /\ DOMAIN Length \subseteq {"today", "week"}
  /\ \A period \in DOMAIN Length : Length[period] \in Nat \ {0}

VARIABLES
  now,     \* wall and monotonic clock
  cache,   \* by period: [updated, expires, read, since] or None
  calls

vars == <<now, cache, calls>>

Idle == [at |-> "idle", period |-> None, began |-> 0, since |-> 0, top |-> None]

\* _window_start; no window has no start.
WindowStart(period, moment) ==
  IF period = "all" THEN 0 ELSE (moment \div Length[period]) * Length[period]

-----------------------------------------------------------------------------
(* LeaderboardService                                                      *)

\* Mutant: the entry's life begins when the rows have come.
Expiry_Late(c) == now + TTL
\* monotonic_now is read before the rows are.
Expiry(c) == calls[c].began + TTL

\* get and _cached_top up to the first await.
Get(c, period) ==
  LET hit == cache[period] # None /\ now < cache[period].expires IN
  /\ calls[c].at = "idle"
  /\ calls' = [calls EXCEPT ![c] =
       [at |-> IF hit THEN "me" ELSE "read", period |-> period,
        began |-> now, since |-> WindowStart(period, now),
        top |-> IF hit THEN cache[period] ELSE None]]
  /\ UNCHANGED <<now, cache>>

\* reader.top; "read" and "since" of an entry are history.
ReadTop(c) ==
  /\ calls[c].at = "read"
  /\ calls' = [calls EXCEPT ![c].at = "store", ![c].top =
       [updated |-> calls[c].began, expires |-> 0, read |-> now, since |-> calls[c].since]]
  /\ UNCHANGED <<now, cache>>

\* The rows are back: the entry replaces whatever another call put there.
StoreTop(c) ==
  LET fresh == [calls[c].top EXCEPT !.expires = Expiry(c)] IN
  /\ calls[c].at = "store"
  /\ cache' = [cache EXCEPT ![calls[c].period] = fresh]
  /\ calls' = [calls EXCEPT ![c].at = "me", ![c].top = fresh]
  /\ UNCHANGED now

\* _me reads the caller's place since calls[c].since, and the answer is out;
\* or the call ends with its process or an error.
Answer(c) ==
  /\ calls[c].at # "idle"
  /\ calls' = [calls EXCEPT ![c] = Idle]
  /\ UNCHANGED <<now, cache>>

Tick ==
  /\ now < MaxMoment
  /\ now' = now + 1
  /\ UNCHANGED <<cache, calls>>

Restart ==
  /\ cache' = [period \in Periods |-> None]
  /\ calls' = [c \in Calls |-> Idle]
  /\ UNCHANGED now

Init ==
  now = 0 /\ cache = [period \in Periods |-> None] /\ calls = [c \in Calls |-> Idle]

Next ==
  \/ \E c \in Calls :
       (\E period \in Periods : Get(c, period)) \/ ReadTop(c) \/ StoreTop(c) \/ Answer(c)
  \/ Tick \/ Restart

Spec == Init /\ [][Next]_vars

-----------------------------------------------------------------------------
(* Properties                                                              *)

TypeOK ==
  /\ now \in 0..MaxMoment
  /\ \A period \in Periods : cache[period] # None => cache[period].read <= now
  /\ \A c \in Calls : calls[c].at \in {"idle", "read", "store", "me"}

\* "Cached up to 60 seconds -- see updated_at": what a call serves was read
\* less than TTL before the call began, or during it, whichever fill came
\* last; it is never older than the updated_at it claims; and it counts from
\* the start of a period that had not ended TTL before.
BoardsAreFresh ==
  \A c \in Calls :
    calls[c].at = "me" =>
      LET top == calls[c].top IN
      /\ top.read > calls[c].began - TTL \/ top.read >= calls[c].began
      /\ top.read >= top.updated
      /\ top.since \in {WindowStart(calls[c].period, t) :
                          t \in Max({0, calls[c].began - TTL})..now}
=============================================================================
