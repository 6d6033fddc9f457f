--------------------------- MODULE MCStateMachine ---------------------------
(* Instances of StateMachine for TLC. *)
EXTENDS StateMachine, TLC

Every(seconds, policy) ==
    [scheduleType |-> "recurring", firstRunAt |-> 1, seconds |-> seconds,
     catchUpPolicy |-> policy]

Once == [scheduleType |-> "once", firstRunAt |-> 1, seconds |-> 1,
         catchUpPolicy |-> "skip_missed"]

(* What the source takes unchecked: an interval that does not advance or was      *)
(* left out, a type it does not know.                                        *)
Unchecked ==
    {Every(Nil, "catch_up_all"), Every(-2, "skip_missed"),
     [Every(0, "catch_up_all") EXCEPT !.scheduleType = "unknown"]}

AllConfigs == {Once} \cup {Every(2, p) : p \in AnyPolicy} \cup Unchecked
SkipMissedConfigs == {Every(2, "skip_missed")}
UnknownPolicyConfigs == {Every(2, "unknown")}

(* Tenants, nodes and row ids are interchangeable in the handlers. *)
Symmetry == Permutations(Nodes) \cup Permutations(ExecutionIDs)
                \cup Permutations(AttemptIDs) \cup Permutations(ScheduleIDs)
=============================================================================
