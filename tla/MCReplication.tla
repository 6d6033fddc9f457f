--------------------------- MODULE MCReplication ---------------------------
(* Instances of Replication for TLC. *)
EXTENDS Replication, TLC

CatchUpAll ==
    [scheduleType |-> "recurring", firstRunAt |-> 1, seconds |-> 2,
     catchUpPolicy |-> "catch_up_all"]
SkipMissed == [CatchUpAll EXCEPT !.catchUpPolicy = "skip_missed"]
Once == [SkipMissed EXCEPT !.scheduleType = "once"]

OneNode == {CHOOSE n \in Nodes : TRUE}

(* A schedule that is paused and resumed between its executions. *)
Resumes ==
    [config |-> CatchUpAll, maxAttempts |-> {1}, maxLog |-> 6,
     replicas |-> OneNode, snapshots |-> FALSE,
     entryTypes |-> {"create_schedule", "pause_schedule", "resume_schedule",
                     "claim_execution", "complete_execution"}]

(* A schedule that is updated, paused, resumed and canceled. *)
Changes ==
    [config |-> SkipMissed, maxAttempts |-> {1, 2}, maxLog |-> 5,
     replicas |-> OneNode, snapshots |-> FALSE,
     entryTypes |-> {"create_schedule", "update_schedule", "pause_schedule",
                     "cancel_schedule", "resume_schedule", "claim_execution",
                     "complete_execution"}]

(* Everything that happens to the executions of a one-time schedule. *)
Attempted ==
    [config |-> Once, maxAttempts |-> {1}, maxLog |-> 6,
     replicas |-> OneNode, snapshots |-> FALSE,
     entryTypes |-> {"create_tenant", "create_schedule", "claim_execution",
                     "adopt_execution", "record_attempt", "complete_execution",
                     "fail_execution_timeout"}]

(* A one-time schedule that is updated and canceled while it runs. *)
OnceChanged ==
    [config |-> Once, maxAttempts |-> {1, 2}, maxLog |-> 5,
     replicas |-> OneNode, snapshots |-> FALSE,
     entryTypes |-> {"create_schedule", "update_schedule", "cancel_schedule",
                     "claim_execution", "complete_execution"}]

(* A short log, and snapshots of it. *)
Snapshotted ==
    [config |-> Once, maxAttempts |-> {1}, maxLog |-> 4,
     replicas |-> Nodes, snapshots |-> TRUE,
     entryTypes |-> {"create_schedule", "claim_execution", "record_attempt",
                     "complete_execution"}]

(* A schedule that was given no interval, and one of a type without a name. *)
NoInterval ==
    [config |-> [CatchUpAll EXCEPT !.seconds = Nil], maxAttempts |-> {1}, maxLog |-> 3,
     replicas |-> OneNode, snapshots |-> FALSE,
     entryTypes |-> {"create_tenant", "create_schedule", "pause_schedule"}]
Nameless == [Resumes EXCEPT !.config.scheduleType = "unknown", !.maxLog = 5]

AllWorkloads ==
    {Resumes, Changes, Attempted, OnceChanged, Snapshotted, NoInterval, Nameless}
SnapshotWorkload == {Snapshotted}

Symmetry == Permutations(ExecutionIDs) \cup Permutations(AttemptIDs)
=============================================================================
