----------------------------- MODULE Recurrence -----------------------------
(***************************************************************************)
(* The interval cadence of internal/model/recurrence.go.  A schedule's      *)
(* occurrences are the instants firstRunAt + k * seconds; the three         *)
(* functions below move between an arbitrary instant and that grid.         *)
(* Instants are whole seconds since an arbitrary origin, so the float       *)
(* quotients of the source are exact and become integer division.  The       *)
(* interval is whatever integer the client gave: zero and negative included.  *)
(***************************************************************************)
EXTENDS Integers

(* math.Floor of the quotient of two whole numbers.  By zero it is an infinity  *)
(* or no number; the source multiplies the integer it becomes by that zero.   *)
FloorOfQuotient(x, seconds) ==
    IF seconds > 0 THEN x \div seconds
    ELSE IF seconds < 0 THEN (-x) \div (-seconds)
    ELSE 0

(* The first occurrence at or after from. *)
computeIntervalOnOrAfter(firstRunAt, seconds, from) ==
    IF from <= firstRunAt
    THEN firstRunAt
    ELSE firstRunAt - FloorOfQuotient(firstRunAt - from, seconds) * seconds

(* Mutant: counts from the given instant instead of from firstRunAt. *)
computeIntervalAfterUnaligned(firstRunAt, seconds, from) ==
    IF from < firstRunAt THEN firstRunAt ELSE from + seconds

(* The first occurrence strictly after from. *)
computeIntervalAfter(firstRunAt, seconds, from) ==
    IF from < firstRunAt
    THEN firstRunAt
    ELSE firstRunAt + (FloorOfQuotient(from - firstRunAt, seconds) + 1) * seconds

(* The last occurrence at or before from, none when from precedes the first. *)
computeIntervalLatestOnOrBefore(firstRunAt, seconds, from, none) ==
    IF from < firstRunAt
    THEN none
    ELSE firstRunAt + FloorOfQuotient(from - firstRunAt, seconds) * seconds

(* t is an occurrence of the schedule that starts at firstRunAt and has a     *)
(* positive interval.                                                        *)
OnGrid(firstRunAt, seconds, t) ==
    \E k \in 0..t : t = firstRunAt + k * seconds
=============================================================================
