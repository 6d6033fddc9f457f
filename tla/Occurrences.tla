---------------------------- MODULE Occurrences -----------------------------
(***************************************************************************)
(* What the scheduler promises of the occurrences of its schedules, without *)
(* saying how: an occurrence is started at most once, is then attempted any  *)
(* number of times, and is brought to one verdict that never changes.        *)
(***************************************************************************)
EXTENDS Naturals

CONSTANTS Schedules, Instants, Verdicts

VARIABLE runs   \* the occurrences started so far, and how far each has come

Run == [schedule : Schedules, instant : Instants, attempts : Nat,
        phase : Verdicts \cup {"in_flight"}]

Init == runs = {}

(* The run r is new in this step, and the first of its occurrence. *)
Start(r) ==
    /\ r \in Run
    /\ r.attempts = 0
    /\ r.phase = "in_flight"
    /\ \A q \in runs : q.schedule # r.schedule \/ q.instant # r.instant
    /\ runs' = runs \cup {r}

Replace(old, new) == runs' = (runs \ {old}) \cup {new}

Attempted(r) ==
    /\ r.phase = "in_flight"
    /\ Replace(r, [r EXCEPT !.attempts = @ + 1])

Finish(r) ==
    /\ r.phase = "in_flight"
    /\ \E v \in Verdicts : Replace(r, [r EXCEPT !.phase = v])

Next ==
    \/ \E r \in runs' : Start(r)
    \/ \E r \in runs : Attempted(r) \/ Finish(r)

Spec == Init /\ [][Next]_runs
=============================================================================
