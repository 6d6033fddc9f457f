------------------------------ MODULE Calendar ------------------------------
(***************************************************************************)
(* The daily, weekly and monthly cadences of internal/model/recurrence.go.  *)
(* A time.Time is the instant it stands for, in ticks, and the zone it is   *)
(* shown in, as an offset in ticks: Year, Month, Day, Weekday, Hour, Minute  *)
(* and Second read it in that zone, Before, After and Equal compare         *)
(* instants.  The source reads dates and clocks in the zone a value happens  *)
(* to carry and puts them together again in UTC.                            *)
(***************************************************************************)
EXTENDS Recurrence, Sequences

CONSTANTS TicksPerSecond,   \* more than one where fractions of a second matter
          TicksPerDay,
          MonthLengths      \* the days of the months of a year

ASSUME CalendarAssumption ==
    /\ TicksPerSecond \in Nat \ {0}
    /\ TicksPerDay \in Nat \ {0}
    /\ TicksPerDay % TicksPerSecond = 0
    /\ MonthLengths \in Seq(Nat \ {0})
    /\ MonthLengths # <<>>

DaysPerWeek == 7
MonthsSearched == 120

(* time.Time values. *)
UTC(at) == [at |-> at, zone |-> 0]
Day(t) == (t.at + t.zone) \div TicksPerDay
Weekday(t) == Day(t) % DaysPerWeek

(* Hour, Minute and Second: what is left below a second is dropped. *)
Clock(t) ==
    LET tick == (t.at + t.zone) % TicksPerDay
    IN  tick - (tick % TicksPerSecond)

Date(day, clock) == UTC(day * TicksPerDay + clock)
AddDays(t, n) == [t EXCEPT !.at = @ + n * TicksPerDay]

(* Months are numbered from the origin of time; monthStart[m] is m's first day. *)
DaysIn(m) == MonthLengths[(m % Len(MonthLengths)) + 1]
monthStart[m \in Nat] == IF m = 0 THEN 0 ELSE monthStart[m - 1] + DaysIn(m - 1)
MonthOf(day) ==
    CHOOSE m \in 0..day : monthStart[m] <= day /\ day < monthStart[m + 1]

-----------------------------------------------------------------------------
(* The first occurrence at or after from. *)

computeDailyOnOrAfter(firstRunAt, from) ==
    LET candidate == Date(Day(from), Clock(firstRunAt))
    IN  IF from.at < firstRunAt.at THEN firstRunAt
        ELSE IF candidate.at < from.at THEN AddDays(candidate, 1) ELSE candidate

computeWeeklyOnOrAfter(firstRunAt, from) ==
    LET daysUntilTarget ==
            (Weekday(firstRunAt) - Weekday(from) + DaysPerWeek) % DaysPerWeek
        candidate == Date(Day(from) + daysUntilTarget, Clock(firstRunAt))
    IN  IF from.at < firstRunAt.at THEN firstRunAt
        ELSE IF candidate.at < from.at THEN AddDays(candidate, DaysPerWeek)
        ELSE candidate

(* Mutant: a month without the day runs over into the next one. *)
MonthSlotUnclamped(firstRunAt, dayOfMonth, m) ==
    Date(monthStart[m] + dayOfMonth - 1, Clock(firstRunAt))

(* The occurrence of month m: its last day when it has no dayOfMonth. *)
MonthSlot(firstRunAt, dayOfMonth, m) ==
    LET actualDay == IF dayOfMonth < DaysIn(m) THEN dayOfMonth ELSE DaysIn(m)
    IN  Date(monthStart[m] + actualDay - 1, Clock(firstRunAt))

computeMonthlyOnOrAfter(firstRunAt, dayOfMonth, from) ==
    LET slot(i) == MonthSlot(firstRunAt, dayOfMonth, MonthOf(Day(from)) + i)
    IN  IF from.at < firstRunAt.at THEN firstRunAt
        ELSE slot(CHOOSE i \in 0..(MonthsSearched - 1) :
                    /\ slot(i).at >= from.at
                    /\ \A j \in 0..(i - 1) : slot(j).at < from.at)

-----------------------------------------------------------------------------
(* The first occurrence strictly after from. *)

computeDailyAfter(firstRunAt, from) ==
    LET candidate == Date(Day(from), Clock(firstRunAt))
    IN  IF from.at < firstRunAt.at THEN firstRunAt
        ELSE IF candidate.at <= from.at THEN AddDays(candidate, 1) ELSE candidate

(* Counts from the weekday of from, which callers expect to be firstRunAt's. *)
computeWeeklyAfter(firstRunAt, from) ==
    LET candidate == Date(Day(from), Clock(firstRunAt))
    IN  IF from.at < firstRunAt.at THEN firstRunAt
        ELSE IF candidate.at <= from.at THEN AddDays(candidate, DaysPerWeek)
        ELSE candidate

computeMonthlyAfter(firstRunAt, dayOfMonth, from) ==
    LET slot(i) == MonthSlot(firstRunAt, dayOfMonth, MonthOf(Day(from)) + i)
    IN  IF from.at < firstRunAt.at THEN firstRunAt
        ELSE slot(CHOOSE i \in 0..(MonthsSearched - 1) :
                    /\ slot(i).at > from.at
                    /\ \A j \in 0..(i - 1) : slot(j).at <= from.at)

-----------------------------------------------------------------------------
(* The last occurrence at or before from, none when from precedes the first. *)

computeDailyLatestOnOrBefore(firstRunAt, from, none) ==
    LET candidate == Date(Day(from), Clock(firstRunAt))
    IN  IF from.at < firstRunAt.at THEN none
        ELSE IF candidate.at > from.at THEN AddDays(candidate, -1) ELSE candidate

(* Mutant: counts the days forward to the weekday. *)
computeWeeklyLatestForward(firstRunAt, from, none) ==
    IF from.at < firstRunAt.at THEN none ELSE computeWeeklyOnOrAfter(firstRunAt, from)

computeWeeklyLatestOnOrBefore(firstRunAt, from, none) ==
    LET daysBackToTarget ==
            (Weekday(from) - Weekday(firstRunAt) + DaysPerWeek) % DaysPerWeek
        candidate == Date(Day(from) - daysBackToTarget, Clock(firstRunAt))
    IN  IF from.at < firstRunAt.at THEN none
        ELSE IF candidate.at > from.at THEN AddDays(candidate, -DaysPerWeek)
        ELSE candidate

computeMonthlyLatestOnOrBefore(firstRunAt, dayOfMonth, from, none) ==
    LET slot(i) == MonthSlot(firstRunAt, dayOfMonth, MonthOf(Day(from)) - i)
    IN  IF from.at < firstRunAt.at THEN none
        ELSE slot(CHOOSE i \in 0..(MonthsSearched - 1) :
                    /\ slot(i).at <= from.at
                    /\ \A j \in 0..(i - 1) : slot(j).at > from.at)

-----------------------------------------------------------------------------
(* The dispatch on the cadence.  A schedule's config has its firstRunAt, and  *)
(* seconds (interval, in ticks here) or dayOfMonth (monthly).  The weekly     *)
(* cadence never looks at a day of the week: firstRunAt's stands for it.      *)

Cadences == {"interval", "daily", "weekly", "monthly"}

(* An interval occurrence is shown in the zone of firstRunAt. *)
Shifted(firstRunAt, at) == [firstRunAt EXCEPT !.at = at]

ComputeNextRunOnOrAfter(cfg, from) ==
    CASE cfg.cadence = "interval" ->
            Shifted(cfg.firstRunAt,
                    computeIntervalOnOrAfter(cfg.firstRunAt.at, cfg.seconds, from.at))
      [] cfg.cadence = "daily"   -> computeDailyOnOrAfter(cfg.firstRunAt, from)
      [] cfg.cadence = "weekly"  -> computeWeeklyOnOrAfter(cfg.firstRunAt, from)
      [] cfg.cadence = "monthly" ->
            computeMonthlyOnOrAfter(cfg.firstRunAt, cfg.dayOfMonth, from)

ComputeNextRunAfter(cfg, from) ==
    CASE cfg.cadence = "interval" ->
            Shifted(cfg.firstRunAt,
                    computeIntervalAfter(cfg.firstRunAt.at, cfg.seconds, from.at))
      [] cfg.cadence = "daily"   -> computeDailyAfter(cfg.firstRunAt, from)
      [] cfg.cadence = "weekly"  -> computeWeeklyAfter(cfg.firstRunAt, from)
      [] cfg.cadence = "monthly" ->
            computeMonthlyAfter(cfg.firstRunAt, cfg.dayOfMonth, from)

ComputeLatestRunOnOrBefore(cfg, from, none) ==
    LET latest == computeIntervalLatestOnOrBefore(cfg.firstRunAt.at, cfg.seconds,
                                                  from.at, none)
    IN  CASE cfg.cadence = "interval" ->
                IF latest = none THEN none ELSE Shifted(cfg.firstRunAt, latest)
          [] cfg.cadence = "daily"   ->
                computeDailyLatestOnOrBefore(cfg.firstRunAt, from, none)
          [] cfg.cadence = "weekly"  ->
                computeWeeklyLatestOnOrBefore(cfg.firstRunAt, from, none)
          [] cfg.cadence = "monthly" ->
                computeMonthlyLatestOnOrBefore(cfg.firstRunAt, cfg.dayOfMonth,
                                               from, none)
=============================================================================
