---------------------------- MODULE MCTimetable ----------------------------
(* An instance of Timetable for TLC. *)
EXTENDS Timetable

(* Months of three to nine days, so that weeks straddle them and some are too  *)
(* short for the fourth or eighth day; two ticks a day.                       *)
ShortMonths == <<9, 3, 5>>

Config(cadence, policy, first, dayOfMonth) ==
    [cadence |-> cadence, catchUpPolicy |-> policy, firstRunAt |-> first,
     seconds |-> 5, dayOfMonth |-> dayOfMonth]

Policies == {"catch_up_all", "skip_missed", "catch_up_latest_only"}

(* First runs on day 16 (the fifth of a month of five) at noon and on day 17   *)
(* (the first of the next month) at midnight; monthly schedules begin on their  *)
(* day of the month, before it and after it; one has a policy nobody checked.  *)
WholeConfigs ==
    {Config(c, p, UTC(at), 1) :
        c \in {"interval", "daily"}, p \in Policies, at \in {33, 34}}
    \cup {Config("weekly", p, UTC(33), 1) : p \in Policies}
    \cup {Config("monthly", p, UTC(33), d) : p \in Policies, d \in {3, 5, 8}}
    \cup {Config("monthly", p, UTC(34), d) : p \in Policies, d \in {1, 5}}
    \cup {Config("daily", "unknown", UTC(33), 1)}

(* Clocks in UTC, and, around the second week and the end of a month, half a day *)
(* east of it and west of it.                                                *)
AllTimes ==
    {UTC(at) : at \in 30..58}
    \cup {[at |-> at, zone |-> z] : at \in (34..36) \cup (46..48), z \in {-1, 1}}
=============================================================================
