------------------------------ MODULE Commands ------------------------------
(***************************************************************************)
(* The command handlers of internal/command: what one committed log entry   *)
(* does to the replicated database.  A handler Apply* maps a database tx to  *)
(* the database after the entry; its *Accepted predicate is the conjunction *)
(* of the checks the handler makes first.  A rejected entry returns a        *)
(* CommandError, the bolt transaction rolls back, and tx is left alone.     *)
(*                                                                           *)
(* Rows keep the fields some handler or the worker reads.  A key            *)
(* (tenantID, id) of the source is one element of an id set.                *)
(***************************************************************************)
EXTENDS Recurrence

CONSTANTS Tenants, ScheduleIDs, ExecutionIDs, AttemptIDs, Nodes,
          Nil         \* an absent row, a nil pointer, an empty string

(* The source stores a schedule's type, catch-up policy and interval as the     *)
(* client sent them: "unknown" is every string it has no name for, Nil an      *)
(* interval that was left out.                                               *)
ScheduleTypes == {"once", "recurring", "unknown"}
CatchUpPolicies == {"catch_up_all", "skip_missed", "catch_up_latest_only"}
AnyPolicy == CatchUpPolicies \cup {"unknown"}
ScheduleStatuses == {"active", "paused", "canceled", "completed"}
Outcomes == {"success", "retry", "terminal_failure"}

TerminalStatuses == {"succeeded", "failed_terminal", "failed_max_retries"}
IsTerminal(status) == status \in TerminalStatuses

ScheduleConfig == [scheduleType : ScheduleTypes, firstRunAt : Nat,
                   seconds : Int \cup {Nil}, catchUpPolicy : AnyPolicy]

(* A schedule that repeats has an interval: ComputeNextRunOnOrAfter and its two  *)
(* siblings dereference it unchecked.                                        *)
HasInterval(cfg) == cfg.scheduleType # "once" => cfg.seconds # Nil

Schedule == [config : {cfg \in ScheduleConfig : HasInterval(cfg)}, maxAttempts : Nat,
             status : ScheduleStatuses, nextRunAt : Int \cup {Nil}]

Execution == [scheduleID : ScheduleIDs, scheduledFor : Int,
              ownerNodeID : Nodes \cup {Nil},
              status : TerminalStatuses \cup {"in_flight"},
              attemptCount : Nat, lastAttemptID : AttemptIDs \cup {Nil},
              lastRetryAt : Nat \cup {Nil}]

Attempt == [executionID : ExecutionIDs, nodeID : Nodes, attemptNumber : Nat,
            outcome : Outcomes, retryAt : Nat \cup {Nil}]

Database == [tenants : SUBSET Tenants,
             schedules : [ScheduleIDs -> Schedule \cup {Nil}],
             executions : [ExecutionIDs -> Execution \cup {Nil}],
             attempts : [AttemptIDs -> Attempt \cup {Nil}]]

EmptyDatabase == [tenants |-> {},
                  schedules |-> [s \in ScheduleIDs |-> Nil],
                  executions |-> [e \in ExecutionIDs |-> Nil],
                  attempts |-> [a \in AttemptIDs |-> Nil]]

ASSUME NilAssumption ==
    /\ Nil \notin Int
    /\ Nil \notin Nodes
    /\ Nil \notin AttemptIDs
    /\ Nil \notin Schedule
    /\ Nil \notin Execution
    /\ Nil \notin Attempt

Executions(tx) == {e \in ExecutionIDs : tx.executions[e] # Nil}
Attempts(tx) == {a \in AttemptIDs : tx.attempts[a] # Nil}
ExecutionsOf(tx, s) == {e \in Executions(tx) : tx.executions[e].scheduleID = s}

-----------------------------------------------------------------------------
(* Tenants and schedules: internal/command/tenant.go and schedule.go.       *)

CreateTenantAccepted(tx, id) == id \notin tx.tenants

ApplyCreateTenant(tx, id) == [tx EXCEPT !.tenants = @ \cup {id}]

(* Mutant: a schedule without an interval is stored. *)
CreateScheduleAcceptedWithoutInterval(tx, cmd) == tx.schedules[cmd.id] = Nil

(* A recurring schedule without an interval is not rejected, the handler        *)
(* panics (see CreateSchedulePanics); the database is left alone all the same. *)
CreateScheduleAccepted(tx, cmd) ==
    /\ tx.schedules[cmd.id] = Nil
    /\ HasInterval(cmd.config)

(* The nil interval is dereferenced, in Apply: the process dies, and dies again  *)
(* whenever it comes to this entry.                                          *)
CreateSchedulePanics(tx, cmd) ==
    /\ tx.schedules[cmd.id] = Nil
    /\ ~HasInterval(cmd.config)

(* A one-time schedule is due at firstRunAt, a recurring one at the first    *)
(* occurrence on or after it.                                               *)
ApplyCreateSchedule(tx, cmd) ==
    LET cfg == cmd.config
        nextRun == IF cfg.scheduleType = "once"
                   THEN cfg.firstRunAt
                   ELSE computeIntervalOnOrAfter(cfg.firstRunAt, cfg.seconds,
                                                 cfg.firstRunAt)
    IN  [tx EXCEPT !.schedules[cmd.id] =
            [config |-> cfg, maxAttempts |-> cmd.maxAttempts,
             status |-> "active", nextRunAt |-> nextRun]]

UpdateScheduleAccepted(tx, cmd) ==
    /\ tx.schedules[cmd.id] # Nil
    /\ tx.schedules[cmd.id].status # "canceled"

ApplyUpdateSchedule(tx, cmd) ==
    [tx EXCEPT !.schedules[cmd.id] = [@ EXCEPT !.maxAttempts = cmd.maxAttempts]]

(* Pausing a paused schedule is accepted and returns the row unchanged. *)
PauseScheduleAccepted(tx, cmd) ==
    /\ tx.schedules[cmd.id] # Nil
    /\ tx.schedules[cmd.id].status \in {"active", "paused"}

ApplyPauseSchedule(tx, cmd) ==
    [tx EXCEPT !.schedules[cmd.id] =
        IF @.status = "paused" THEN @
        ELSE [@ EXCEPT !.status = "paused", !.nextRunAt = Nil]]

(* Cancelling a canceled or completed schedule is accepted and changes nothing. *)
CancelScheduleAccepted(tx, cmd) == tx.schedules[cmd.id] # Nil

ApplyCancelSchedule(tx, cmd) ==
    [tx EXCEPT !.schedules[cmd.id] =
        IF @.status \in {"canceled", "completed"} THEN @
        ELSE [@ EXCEPT !.status = "canceled", !.nextRunAt = Nil]]

(* Mutant: the most recent execution, ended or not. *)
findMostRecentExecution(tx, s) ==
    LET all == {tx.executions[e].scheduledFor : e \in ExecutionsOf(tx, s)}
    IN  IF all = {} THEN Nil
        ELSE CHOOSE t \in all : \A u \in all : u <= t

(* The latest occurrence of s that has run to an end, Nil when none has. *)
findMostRecentTerminalExecution(tx, s) ==
    LET ended == {tx.executions[e].scheduledFor :
                    e \in {f \in ExecutionsOf(tx, s) :
                             IsTerminal(tx.executions[f].status)}}
    IN  IF ended = {} THEN Nil
        ELSE CHOOSE t \in ended : \A u \in ended : u <= t

(* The occurrence a resumed schedule is due for, by its catch-up policy; the     *)
(* source's switch has no default, so any other policy leaves it Nil.         *)
ResumedNextRun(tx, s, proposedAt) ==
    LET cfg == tx.schedules[s].config
        anchor == findMostRecentTerminalExecution(tx, s)
        latest == computeIntervalLatestOnOrBefore(cfg.firstRunAt, cfg.seconds,
                                                  proposedAt, Nil)
    IN  CASE cfg.scheduleType = "once" -> cfg.firstRunAt
          [] cfg.scheduleType # "once" /\ cfg.catchUpPolicy = "catch_up_all" ->
                IF anchor = Nil
                THEN computeIntervalOnOrAfter(cfg.firstRunAt, cfg.seconds,
                                              cfg.firstRunAt)
                ELSE computeIntervalAfter(cfg.firstRunAt, cfg.seconds, anchor)
          [] cfg.scheduleType # "once"
                /\ cfg.catchUpPolicy = "catch_up_latest_only" ->
                IF latest = Nil THEN cfg.firstRunAt ELSE latest
          [] cfg.scheduleType # "once" /\ cfg.catchUpPolicy = "skip_missed" ->
                computeIntervalAfter(cfg.firstRunAt, cfg.seconds, proposedAt)
          [] cfg.scheduleType # "once" /\ cfg.catchUpPolicy \notin CatchUpPolicies ->
                Nil

(* Resuming an active schedule is accepted and returns the row unchanged. *)
ResumeScheduleAccepted(tx, cmd) ==
    /\ tx.schedules[cmd.id] # Nil
    /\ tx.schedules[cmd.id].status \in {"active", "paused"}

ApplyResumeSchedule(tx, cmd, proposedAt) ==
    [tx EXCEPT !.schedules[cmd.id] =
        IF @.status = "active" THEN @
        ELSE [@ EXCEPT !.status = "active",
                       !.nextRunAt = ResumedNextRun(tx, cmd.id, proposedAt)]]

-----------------------------------------------------------------------------
(* Executions: internal/command/execution.go.                               *)

(* Mutant: an ended execution no longer blocks its occurrence. *)
ClaimExecutionAcceptedUnlessInFlight(tx, cmd) ==
    \A e \in ExecutionsOf(tx, cmd.scheduleID) :
        tx.executions[e].status = "in_flight" =>
            tx.executions[e].scheduledFor # cmd.scheduledFor

(* An occurrence is claimed at most once, whatever became of its execution. *)
ClaimExecutionAccepted(tx, cmd) ==
    \A e \in ExecutionsOf(tx, cmd.scheduleID) :
        tx.executions[e].scheduledFor # cmd.scheduledFor

ApplyClaimExecution(tx, cmd) ==
    [tx EXCEPT !.executions[cmd.id] =
        [scheduleID |-> cmd.scheduleID, scheduledFor |-> cmd.scheduledFor,
         ownerNodeID |-> cmd.ownerNodeID, status |-> "in_flight",
         attemptCount |-> 0, lastAttemptID |-> Nil, lastRetryAt |-> Nil]]

AdoptExecutionAccepted(tx, cmd) ==
    /\ cmd.previousOwner # Nil
    /\ cmd.newOwner # cmd.previousOwner
    /\ tx.executions[cmd.executionID] # Nil
    /\ tx.executions[cmd.executionID].status = "in_flight"
    /\ tx.executions[cmd.executionID].ownerNodeID = cmd.previousOwner

ApplyAdoptExecution(tx, cmd) ==
    [tx EXCEPT !.executions[cmd.executionID] =
        [@ EXCEPT !.ownerNodeID = cmd.newOwner]]

(* Mutant: the reporting node need not own the execution. *)
RecordAttemptAcceptedFromAnyone(tx, cmd) ==
    /\ tx.executions[cmd.executionID] # Nil
    /\ tx.executions[cmd.executionID].status = "in_flight"

RecordAttemptAccepted(tx, cmd) ==
    /\ tx.executions[cmd.executionID] # Nil
    /\ tx.executions[cmd.executionID].status = "in_flight"
    /\ tx.executions[cmd.executionID].ownerNodeID = cmd.nodeID

(* Mutant: a final attempt leaves the retry instant of the one before it. *)
ApplyRecordAttemptKeepingRetryAt(tx, cmd) ==
    LET number == tx.executions[cmd.executionID].attemptCount + 1
    IN  [tx EXCEPT
            !.attempts[cmd.id] =
                [executionID |-> cmd.executionID, nodeID |-> cmd.nodeID,
                 attemptNumber |-> number, outcome |-> cmd.outcome,
                 retryAt |-> cmd.retryAt],
            !.executions[cmd.executionID] =
                [@ EXCEPT !.attemptCount = number, !.lastAttemptID = cmd.id,
                          !.lastRetryAt = IF cmd.retryAt = Nil THEN @ ELSE cmd.retryAt]]

(* One transaction writes the attempt row and the parent's summary of it. *)
ApplyRecordAttempt(tx, cmd) ==
    LET number == tx.executions[cmd.executionID].attemptCount + 1
    IN  [tx EXCEPT
            !.attempts[cmd.id] =
                [executionID |-> cmd.executionID, nodeID |-> cmd.nodeID,
                 attemptNumber |-> number, outcome |-> cmd.outcome,
                 retryAt |-> cmd.retryAt],
            !.executions[cmd.executionID] =
                [@ EXCEPT !.attemptCount = number, !.lastAttemptID = cmd.id,
                          !.lastRetryAt = cmd.retryAt]]

(* Mutant: a paused or canceled recurring schedule moves on as well. *)
AfterExecutionIgnoringStatus(schedule, scheduledFor) ==
    LET cfg == schedule.config
    IN  IF cfg.scheduleType # "recurring"
        THEN [schedule EXCEPT !.status = "completed", !.nextRunAt = Nil]
        ELSE [schedule EXCEPT !.nextRunAt =
                computeIntervalAfter(cfg.firstRunAt, cfg.seconds, scheduledFor)]

(* Mutant: only an active schedule is written, one-time ones included. *)
AfterExecutionWhenActive(schedule, scheduledFor) ==
    LET cfg == schedule.config
    IN  IF schedule.status # "active" THEN schedule
        ELSE IF cfg.scheduleType # "recurring"
        THEN [schedule EXCEPT !.status = "completed", !.nextRunAt = Nil]
        ELSE [schedule EXCEPT !.nextRunAt =
                computeIntervalAfter(cfg.firstRunAt, cfg.seconds, scheduledFor)]

(* The schedule row written when one of its executions ends at scheduledFor: *)
(* an active recurring schedule moves on, a paused or canceled one stays,     *)
(* any other schedule is completed.                                          *)
AfterExecution(schedule, scheduledFor) ==
    LET cfg == schedule.config
    IN  IF cfg.scheduleType # "recurring"
        THEN [schedule EXCEPT !.status = "completed", !.nextRunAt = Nil]
        ELSE IF schedule.status # "active" THEN schedule
        ELSE [schedule EXCEPT !.nextRunAt =
                computeIntervalAfter(cfg.firstRunAt, cfg.seconds, scheduledFor)]

(* Mutant: the row keeps its owner when the execution ends. *)
EndExecutionKeepingOwner(tx, e, finalStatus) ==
    LET ex == tx.executions[e]
    IN  [tx EXCEPT
            !.executions[e] = [@ EXCEPT !.status = finalStatus],
            !.schedules[ex.scheduleID] = AfterExecution(@, ex.scheduledFor)]

(* End an execution and write its schedule, in one transaction. *)
EndExecution(tx, e, finalStatus) ==
    LET ex == tx.executions[e]
    IN  [tx EXCEPT
            !.executions[e] = [@ EXCEPT !.status = finalStatus,
                                        !.ownerNodeID = Nil],
            !.schedules[ex.scheduleID] = AfterExecution(@, ex.scheduledFor)]

(* Mutant: an execution that has ended can be ended again. *)
EndExecutionAcceptedTwice(tx, e) ==
    /\ tx.executions[e] # Nil
    /\ tx.schedules[tx.executions[e].scheduleID] # Nil

EndExecutionAccepted(tx, e) ==
    /\ tx.executions[e] # Nil
    /\ ~IsTerminal(tx.executions[e].status)
    /\ tx.schedules[tx.executions[e].scheduleID] # Nil

CompleteExecutionAccepted(tx, cmd) ==
    /\ IsTerminal(cmd.finalStatus)
    /\ EndExecutionAccepted(tx, cmd.executionID)

ApplyCompleteExecution(tx, cmd) ==
    EndExecution(tx, cmd.executionID, cmd.finalStatus)

FailExecutionTimeoutAccepted(tx, cmd) == EndExecutionAccepted(tx, cmd.executionID)

ApplyFailExecutionTimeout(tx, cmd) ==
    EndExecution(tx, cmd.executionID, "failed_max_retries")
=============================================================================
