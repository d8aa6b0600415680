------------------------------ MODULE Periods ------------------------------
(***************************************************************************)
(* Days, weeks and months of the campaign's clock (app/domain/periods.py). *)
(* An instant is a number of ticks in UTC; a date is the number of days    *)
(* since a Monday, so that date % 7 is Python's weekday().                 *)
(***************************************************************************)
EXTENDS Integers, FiniteSetsExt

CONSTANTS
  DayLength,     \* ticks per day
  Offset,        \* of the campaign's zone from UTC, in ticks
  FirstOfMonth   \* dates on which a month begins

ASSUME PeriodsAssumption ==
  /\ DayLength \in Nat \ {0}
  /\ Offset \in Int
  /\ FirstOfMonth \subseteq Int

Saturday == 5

LocalDate(t) == (t + Offset) \div DayLength
LocalMidnight(d) == (d * DayLength) - Offset

SaturdayBefore(d) == d - (((d % 7) - Saturday) % 7)
MonthOf(d) == Max({m \in FirstOfMonth : m <= d})

DayKey(t) == <<"day", LocalDate(t)>>
WeekKey(t) == <<"week", SaturdayBefore(LocalDate(t))>>
MonthKey(t) == <<"month", MonthOf(LocalDate(t))>>

DayStart(t) == LocalMidnight(LocalDate(t))
WeekStart(t) == LocalMidnight(SaturdayBefore(LocalDate(t)))
MonthStart(t) == LocalMidnight(MonthOf(LocalDate(t)))

\* Mutant: today's claim, already in the table, is added once more.
CurrentStreak_TodayTwice(claimed, today) ==
  LET walk[day \in Int] == IF day \in claimed THEN 1 + walk[day - 1] ELSE 0
  IN  IF today \in claimed THEN 1 + walk[today] ELSE walk[today - 1]

\* current_streak: the loop that walks back from today, or from yesterday
\* when there is no claim yet today.
CurrentStreak(claimed, today) ==
  LET walk[day \in Int] == IF day \in claimed THEN 1 + walk[day - 1] ELSE 0
  IN  walk[IF today \in claimed THEN today ELSE today - 1]
=============================================================================
