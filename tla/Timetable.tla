----------------------------- MODULE Timetable ------------------------------
(***************************************************************************)
(* One recurring schedule and its clockwork, for every cadence: what         *)
(* create_schedule, resume_schedule and the end of an execution              *)
(* (internal/command) do to its next_run_at.  Everything else about a        *)
(* schedule and its executions is in module StateMachine, which has the      *)
(* interval cadence only.  A proposal carries the wall clock of the node     *)
(* that proposes it, in that node's time zone; clocks of two nodes differ,    *)
(* so nothing is assumed of the order of proposedAt.                         *)
(***************************************************************************)
EXTENDS Calendar, FiniteSets

CONSTANTS Configs,        \* the schedules clients ask for
          ProposedTimes,  \* the proposers' clock readings
          MaxExecutions,  \* bound on the executions of the schedule
          Nil             \* an absent row, a nil next_run_at

(* The schedules the properties are about: any cadence and any catch-up policy, *)
(* one that create_schedule did not check included.                          *)
ASSUME ConfigsAssumption ==
    \A c \in Configs :
        /\ c.cadence \in Cadences
        /\ c.firstRunAt \in [at : Nat, zone : Int]
        /\ c.cadence = "interval" => c.seconds \in Nat \ {0}
        (* A calendar's first run in UTC and whole seconds: its clock is read in  *)
        (* its own zone, and what is below a second is lost.                     *)
        /\ c.cadence # "interval" =>
             c.firstRunAt.zone = 0 /\ c.firstRunAt.at % TicksPerSecond = 0
        (* A day of the month, whatever day the first run is on; months are       *)
        (* counted from an earlier one.                                          *)
        /\ c.cadence = "monthly" =>
             c.dayOfMonth \in Nat \ {0} /\ MonthOf(Day(c.firstRunAt)) > 0

(* A zone is less than a day from UTC; no clock shows a date before the origin. *)
ASSUME TimesAssumption ==
    \A p \in ProposedTimes :
        /\ p \in [at : Int, zone : (1 - TicksPerDay)..(TicksPerDay - 1)]
        /\ p.at + p.zone >= 0

ASSUME NilAssumption == Nil \notin Int \cup [at : Int, zone : Int] \cup {"active", "paused"}

VARIABLES
    config,     \* the schedule's row: what the client asked for,
    status,     \* its status, Nil before it is created,
    nextRunAt,  \* and the instant it is due
    inFlight,   \* the instants of its executions in flight
    ended       \* the instants of its executions that have ended

vars == <<config, status, nextRunAt, inFlight, ended>>

Init ==
    /\ config \in Configs
    /\ status = Nil
    /\ nextRunAt = Nil
    /\ inFlight = {}
    /\ ended = {}

(* A recurring schedule is first due on or after its first run. *)
CreateSchedule ==
    /\ status = Nil
    /\ status' = "active"
    /\ nextRunAt' = ComputeNextRunOnOrAfter(config, config.firstRunAt)
    /\ UNCHANGED <<config, inFlight, ended>>

PauseSchedule ==
    /\ status = "active"
    /\ status' = "paused"
    /\ nextRunAt' = Nil
    /\ UNCHANGED <<config, inFlight, ended>>

(* The latest instant that has run to an end, Nil when none has. *)
Anchor ==
    IF ended = {} THEN Nil
    ELSE CHOOSE t \in ended : \A u \in ended : u.at <= t.at

(* Mutant: catch_up_all goes back to the first run. *)
ResumedNextRunFromStart(p) ==
    LET latest == ComputeLatestRunOnOrBefore(config, p, Nil)
    IN  CASE config.catchUpPolicy = "catch_up_all" ->
                ComputeNextRunOnOrAfter(config, config.firstRunAt)
          [] config.catchUpPolicy = "catch_up_latest_only" ->
                IF latest = Nil THEN config.firstRunAt ELSE latest
          [] config.catchUpPolicy = "skip_missed" -> ComputeNextRunAfter(config, p)
          [] OTHER -> Nil

(* The instant a schedule resumed by a proposal made at p is due; the switch on  *)
(* the policy has no case for one that create_schedule did not check.        *)
ResumedNextRun(p) ==
    LET latest == ComputeLatestRunOnOrBefore(config, p, Nil)
    IN  CASE config.catchUpPolicy = "catch_up_all" ->
                IF Anchor = Nil
                THEN ComputeNextRunOnOrAfter(config, config.firstRunAt)
                ELSE ComputeNextRunAfter(config, Anchor)
          [] config.catchUpPolicy = "catch_up_latest_only" ->
                IF latest = Nil THEN config.firstRunAt ELSE latest
          [] config.catchUpPolicy = "skip_missed" -> ComputeNextRunAfter(config, p)
          [] OTHER -> Nil

ResumeSchedule(p) ==
    /\ status = "paused"
    /\ status' = "active"
    /\ nextRunAt' = ResumedNextRun(p)
    /\ UNCHANGED <<config, inFlight, ended>>

(* A worker claims the instant it read, if there is one; the claim leaves       *)
(* next_run_at alone, and is refused when the schedule has an execution for    *)
(* that instant.                                                             *)
ClaimExecution ==
    /\ status = "active"
    /\ nextRunAt # Nil
    /\ Cardinality(inFlight \cup ended) < MaxExecutions
    /\ \A t \in inFlight \cup ended : t.at # nextRunAt.at
    /\ inFlight' = inFlight \cup {nextRunAt}
    /\ UNCHANGED <<config, status, nextRunAt, ended>>

(* An execution ends, by completion or timeout, and moves an active schedule on. *)
EndExecution(t) ==
    /\ t \in inFlight
    /\ inFlight' = inFlight \ {t}
    /\ ended' = ended \cup {t}
    /\ nextRunAt' = IF status = "active" THEN ComputeNextRunAfter(config, t)
                    ELSE nextRunAt
    /\ UNCHANGED <<config, status>>

Next ==
    \/ CreateSchedule
    \/ PauseSchedule
    \/ \E p \in ProposedTimes : ResumeSchedule(p)
    \/ ClaimExecution
    \/ \E t \in inFlight : EndExecution(t)

Spec == Init /\ [][Next]_vars

-----------------------------------------------------------------------------
(* The recurrence a config stands for, said without any search.             *)

(* The number of days from firstRunAt's date to day, both in UTC. *)
DaysSince(day) == day - Day(UTC(config.firstRunAt.at))

(* at is on the grid of the recurrence: the time of day, and of the week or of *)
(* the month, it runs at.                                                    *)
OnTimetable(at) ==
    LET first == config.firstRunAt.at
        day == Day(UTC(at))
        m == MonthOf(day)
        dayOfMonth == day - monthStart[m] + 1
    IN  /\ IF config.cadence = "interval" THEN (at - first) % config.seconds = 0
           ELSE (at - first) % TicksPerDay = 0
        /\ config.cadence = "weekly" => DaysSince(day) % DaysPerWeek = 0
        /\ config.cadence = "monthly" =>
             \/ dayOfMonth = config.dayOfMonth
             \/ dayOfMonth < config.dayOfMonth /\ dayOfMonth = DaysIn(m)

(* at is an instant the schedule is meant to run at. *)
Occurrence(at) == at >= config.firstRunAt.at /\ OnTimetable(at)

(* No occurrence lies strictly between the instants from and to. *)
NoneBetween(from, to) == \A u \in (from + 1)..(to - 1) : ~Occurrence(u)

(* Where a schedule gets off its recurrence: computeWeeklyAfter counts from the  *)
(* day a skip_missed schedule is resumed on, and a monthly schedule resumed      *)
(* before its first run is due then, whatever the day of the month.            *)
OffTimetable(at) ==
    LET first == config.firstRunAt.at
    IN  \/ /\ config.cadence = "weekly"
           /\ config.catchUpPolicy = "skip_missed"
           /\ (at - first) % TicksPerDay = 0
        \/ config.cadence = "monthly" /\ at = first

(* Whatever was paused, resumed or ended late, the schedule is only due at     *)
(* instants of its recurrence: the right time of day, day of the week or       *)
(* day of the month, the last one in months that are too short, whatever the   *)
(* zone of the node that proposed (recurrence.go's three families of functions *)
(* agree on one grid), but for the two edges of OffTimetable.                 *)
DueAtOccurrences ==
    nextRunAt # Nil => OnTimetable(nextRunAt.at) \/ OffTimetable(nextRunAt.at)

(* A schedule resumed at p follows its policy to the nearest occurrence:       *)
(* skip_missed to the first one after p, or, weekly, to the day of the week of  *)
(* p; catch_up_latest_only to the last one not after p, and the first run when   *)
(* p is before it.  None is due before its first run, if that is on its         *)
(* recurrence.  A proposer whose zone is not UTC gets the date wrong, and       *)
(* calendar cadences a day or more off; intervals never look at a date.        *)
ResumeFindsNearest ==
    [][\A p \in ProposedTimes :
         ResumeSchedule(p) /\ nextRunAt' # Nil
         /\ (p.zone = 0 \/ config.cadence = "interval") =>
            LET due == nextRunAt'.at
                first == config.firstRunAt.at
            IN  /\ OnTimetable(first) => due >= first
                /\ config.catchUpPolicy = "skip_missed" =>
                     /\ due > p.at
                     /\ config.cadence # "weekly" => NoneBetween(p.at, due)
                     /\ config.cadence = "weekly" =>
                          \/ p.at < first /\ due = first
                          \/ /\ due <= p.at + DaysPerWeek * TicksPerDay
                             /\ Weekday(UTC(due)) = Weekday(p)
                /\ config.catchUpPolicy = "catch_up_latest_only" =>
                     \/ p.at < first /\ due = first
                     \/ due <= p.at /\ NoneBetween(due, p.at + 1)]_vars

(* A catch_up_all schedule leaves no occurrence out and repeats none: it is    *)
(* due for the first occurrence no execution has ended for.                  *)
CatchUpAllInOrder ==
    config.catchUpPolicy = "catch_up_all" /\ nextRunAt # Nil =>
        {u \in 0..(nextRunAt.at - 1) : Occurrence(u)} = {t.at : t \in ended}
=============================================================================
