------------------------------- MODULE Runner -------------------------------
(***************************************************************************)
(* What the supervisor relies on in a leader loop (Runner, interfaces.go):   *)
(* Run may return at any time with an error, returns some time after its      *)
(* context is done, and never comes back.  Supervisor has a worker take just   *)
(* these steps; Pool is shown to implement it.                               *)
(***************************************************************************)
VARIABLES
    running,  \* Run has not returned
    told      \* the context of Run is done

vars == <<running, told>>

Init == running = TRUE /\ told = FALSE

Tell ==
    /\ ~told
    /\ told' = TRUE
    /\ UNCHANGED running

Return ==
    /\ running
    /\ running' = FALSE
    /\ UNCHANGED told

Next == Tell \/ Return

Spec == Init /\ [][Next]_vars /\ WF_vars(told /\ Return)
=============================================================================
