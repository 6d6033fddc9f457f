---------------------------- MODULE StateMachine ----------------------------
(***************************************************************************)
(* The replicated state machine: StateMachine.Apply of                      *)
(* internal/statemachine applies the committed log entries one after the    *)
(* other, each in one bolt transaction.  The log is every interleaving of   *)
(* the entries clients and workers may propose; nothing is assumed of the    *)
(* order of concurrent workers, of who still believes to own an execution,   *)
(* or of the clocks that stamp proposedAt.  An entry a handler rejects       *)
(* leaves the database as it was and is a stuttering step here; one that makes *)
(* it panic is an entry no replica gets past.                                *)
(*                                                                           *)
(* The database is the one a replica computes in one pass over the log.  What  *)
(* a restarted replica shows while it applies the log again is in module       *)
(* Replication.                                                              *)
(***************************************************************************)
EXTENDS Commands

CONSTANTS ScheduleConfigs,    \* the schedules clients ask for
          MaxAttemptsValues,  \* their attempt limits
          ProposedTimes,      \* the proposers' clock readings
          RetryTimes          \* the instants a failed attempt is retried at

ASSUME InputAssumption ==
    /\ ScheduleConfigs \subseteq ScheduleConfig
    /\ MaxAttemptsValues \subseteq Nat
    /\ ProposedTimes \subseteq Nat
    /\ RetryTimes \subseteq Nat

VARIABLES
    db,       \* the database every replica computes
    offered,  \* offered[s]: the values of s's nextRunAt a reader may have seen
    stamp     \* proposedAt of the last entry applied

vars == <<db, offered, stamp>>

Init ==
    /\ db = EmptyDatabase
    /\ offered = [s \in ScheduleIDs |-> {}]
    /\ stamp = 0

(* The database after an entry proposed at the instant at, and what readers   *)
(* can see of it from then on.                                               *)
Commit(tx, at) ==
    /\ db' = tx
    /\ stamp' = at
    /\ offered' = [s \in ScheduleIDs |->
                     IF tx.schedules[s] = Nil \/ tx.schedules[s].nextRunAt = Nil
                     THEN offered[s]
                     ELSE offered[s] \cup {tx.schedules[s].nextRunAt}]

-----------------------------------------------------------------------------
(* Entries clients propose, stamped at. *)

CreateTenant(t, at) ==
    /\ CreateTenantAccepted(db, t)
    /\ Commit(ApplyCreateTenant(db, t), at)

CreateSchedule(s, at) ==
    \E cfg \in ScheduleConfigs, n \in MaxAttemptsValues :
        LET cmd == [id |-> s, config |-> cfg, maxAttempts |-> n]
        IN  /\ CreateScheduleAccepted(db, cmd)
            /\ Commit(ApplyCreateSchedule(db, cmd), at)

UpdateSchedule(s, at) ==
    \E n \in MaxAttemptsValues :
        LET cmd == [id |-> s, maxAttempts |-> n]
        IN  /\ UpdateScheduleAccepted(db, cmd)
            /\ Commit(ApplyUpdateSchedule(db, cmd), at)

PauseSchedule(s, at) ==
    LET cmd == [id |-> s]
    IN  /\ PauseScheduleAccepted(db, cmd)
        /\ Commit(ApplyPauseSchedule(db, cmd), at)

CancelSchedule(s, at) ==
    LET cmd == [id |-> s]
    IN  /\ CancelScheduleAccepted(db, cmd)
        /\ Commit(ApplyCancelSchedule(db, cmd), at)

ResumeSchedule(s, at) ==
    LET cmd == [id |-> s]
    IN  /\ ResumeScheduleAccepted(db, cmd)
        /\ Commit(ApplyResumeSchedule(db, cmd, at), at)

-----------------------------------------------------------------------------
(* Entries workers propose.  Row ids are ULIDs, so a new row's id is unused. *)

(* A worker claims an occurrence it once read from the schedule's row, on a     *)
(* replica that may be any number of entries behind.                         *)
ClaimExecution(s, e, at) ==
    /\ db.executions[e] = Nil
    /\ \E t \in offered[s], n \in Nodes :
         LET cmd == [id |-> e, scheduleID |-> s, scheduledFor |-> t,
                     ownerNodeID |-> n]
         IN  /\ ClaimExecutionAccepted(db, cmd)
             /\ Commit(ApplyClaimExecution(db, cmd), at)

AdoptExecution(e, at) ==
    \E previous, new \in Nodes :
        LET cmd == [executionID |-> e, previousOwner |-> previous,
                    newOwner |-> new]
        IN  /\ AdoptExecutionAccepted(db, cmd)
            /\ Commit(ApplyAdoptExecution(db, cmd), at)

(* A worker sets RetryAt exactly when the attempt is to be retried. *)
RecordAttempt(e, a, at) ==
    /\ db.attempts[a] = Nil
    /\ \E n \in Nodes, o \in Outcomes, r \in RetryTimes :
         LET cmd == [id |-> a, executionID |-> e, nodeID |-> n, outcome |-> o,
                     retryAt |-> IF o = "retry" THEN r ELSE Nil]
         IN  /\ RecordAttemptAccepted(db, cmd)
             /\ Commit(ApplyRecordAttempt(db, cmd), at)

CompleteExecution(e, at) ==
    \E status \in {"succeeded", "failed_terminal"} :
        LET cmd == [executionID |-> e, finalStatus |-> status]
        IN  /\ CompleteExecutionAccepted(db, cmd)
            /\ Commit(ApplyCompleteExecution(db, cmd), at)

FailExecutionTimeout(e, at) ==
    LET cmd == [executionID |-> e]
    IN  /\ FailExecutionTimeoutAccepted(db, cmd)
        /\ Commit(ApplyFailExecutionTimeout(db, cmd), at)

Next ==
    \E at \in ProposedTimes :
        \/ \E t \in Tenants : CreateTenant(t, at)
        \/ \E s \in ScheduleIDs :
             \/ CreateSchedule(s, at)
             \/ UpdateSchedule(s, at)
             \/ PauseSchedule(s, at)
             \/ CancelSchedule(s, at)
             \/ ResumeSchedule(s, at)
             \/ \E e \in ExecutionIDs : ClaimExecution(s, e, at)
        \/ \E e \in ExecutionIDs :
             \/ AdoptExecution(e, at)
             \/ \E a \in AttemptIDs : RecordAttempt(e, a, at)
             \/ CompleteExecution(e, at)
             \/ FailExecutionTimeout(e, at)

Spec == Init /\ [][Next]_vars

-----------------------------------------------------------------------------
(* Properties. *)

(* Every row has its type, and readers have only seen instants. *)
TypeOK ==
    /\ db \in Database
    /\ offered \in [ScheduleIDs -> SUBSET Int]
    /\ stamp \in Nat

(* Two executions never stand for the same occurrence of a schedule, however  *)
(* many workers claim it and whenever their claims are applied               *)
(* (ApplyClaimExecution's scan of the schedule's executions).                *)
OneExecutionPerOccurrence ==
    \A e, f \in Executions(db) :
        /\ db.executions[e].scheduleID = db.executions[f].scheduleID
        /\ db.executions[e].scheduledFor = db.executions[f].scheduledFor
        => e = f

(* The attempts recorded for e. *)
AttemptsOf(e) == {a \in Attempts(db) : db.attempts[a].executionID = e}

(* The attempt rows of an execution are numbered 1..attemptCount without gap *)
(* or repetition, and the parent row's last_attempt_id and last_retry_at are  *)
(* those of the attempt numbered attemptCount: the worker decides to retry    *)
(* or to finalize from that summary alone (worker.go runTick).               *)
AttemptsMatchSummary ==
    \A e \in Executions(db) :
        LET ex == db.executions[e]
        IN  /\ {db.attempts[a].attemptNumber : a \in AttemptsOf(e)}
                    = 1..ex.attemptCount
            /\ \A a, b \in AttemptsOf(e) :
                 db.attempts[a].attemptNumber = db.attempts[b].attemptNumber
                    => a = b
            /\ ex.attemptCount = 0 => ex.lastAttemptID = Nil /\ ex.lastRetryAt = Nil
            /\ ex.attemptCount > 0 =>
                 /\ ex.lastAttemptID \in AttemptsOf(e)
                 /\ db.attempts[ex.lastAttemptID].attemptNumber = ex.attemptCount
                 /\ db.attempts[ex.lastAttemptID].retryAt = ex.lastRetryAt

(* An execution has an owner exactly while it is in flight, and its schedule  *)
(* exists: whoever ends it releases it, and nobody owns an ended one.        *)
OwnedWhileInFlight ==
    \A e \in Executions(db) :
        /\ db.executions[e].ownerNodeID # Nil <=> db.executions[e].status = "in_flight"
        /\ db.schedules[db.executions[e].scheduleID] # Nil

(* The catch-up policy is one that ResumeSchedule has a case for. *)
Resumable(cfg) == cfg.scheduleType = "once" \/ cfg.catchUpPolicy \in CatchUpPolicies

(* No pause, cancel, resume or completion, in any order, leaves a due instant on *)
(* a stopped schedule, where a worker would claim it, or, unless its catch-up  *)
(* policy is one the resume handler does not know, an active schedule without   *)
(* one, which no worker would ever find again.                               *)
DueWhileActive ==
    \A s \in ScheduleIDs :
        LET row == db.schedules[s]
        IN  row # Nil =>
              /\ row.nextRunAt # Nil => row.status = "active"
              /\ row.status = "active" /\ Resumable(row.config) => row.nextRunAt # Nil

(* t is an instant the schedule is meant to run at. *)
Occurrence(s, t) ==
    LET cfg == db.schedules[s].config
    IN  IF cfg.scheduleType = "once" THEN t = cfg.firstRunAt
        ELSE OnGrid(cfg.firstRunAt, cfg.seconds, t)

(* The schedule is known, and its occurrences are: an interval that is zero or   *)
(* negative describes none.                                                  *)
HasOccurrences(s) ==
    LET row == db.schedules[s]
    IN  /\ row # Nil
        /\ row.config.scheduleType # "once" => row.config.seconds > 0

(* Whatever was paused, resumed or completed late, a schedule is only ever due *)
(* at, and executed for, instants of its own recurrence.                     *)
OnlyOccurrencesRun ==
    /\ \A s \in ScheduleIDs :
         /\ db.schedules[s] = Nil => offered[s] = {}
         /\ HasOccurrences(s) => \A t \in offered[s] : Occurrence(s, t)
    /\ \A e \in Executions(db) :
         db.executions[e].scheduledFor \in offered[db.executions[e].scheduleID]

(* A one-time schedule is executed at most once, and is completed exactly when *)
(* its execution has ended, even if it was paused, resumed or canceled in     *)
(* the meantime.                                                             *)
OnceRunsOnce ==
    \A s \in ScheduleIDs :
        db.schedules[s] # Nil /\ db.schedules[s].config.scheduleType = "once" =>
            /\ \A e, f \in ExecutionsOf(db, s) : e = f
            /\ db.schedules[s].status = "completed" <=>
                 \E e \in ExecutionsOf(db, s) : IsTerminal(db.executions[e].status)

(* The execution of s for occurrence t has ended. *)
Ended(s, t) ==
    \E e \in ExecutionsOf(db, s) :
        /\ db.executions[e].scheduledFor = t
        /\ IsTerminal(db.executions[e].status)

(* A catch_up_all schedule leaves no occurrence out: one becomes due only     *)
(* after the executions of all earlier ones have ended, and an active         *)
(* schedule is never due for an occurrence that has already ended, where it    *)
(* would be refused every claim and never move on.                           *)
CatchUpAllInOrder ==
    \A s \in ScheduleIDs :
        /\ HasOccurrences(s)
        /\ db.schedules[s].config.scheduleType = "recurring"
        /\ db.schedules[s].config.catchUpPolicy = "catch_up_all"
        =>
        /\ \A t \in offered[s] : \A u \in 0..(t - 1) : Occurrence(s, u) => Ended(s, u)
        /\ db.schedules[s].status = "active" => ~Ended(s, db.schedules[s].nextRunAt)

(* A canceled or completed schedule has stopped for good: no entry, least of    *)
(* all the late end of an execution claimed before, makes it active or due     *)
(* again.                                                                    *)
StoppedForGood ==
    [][\A s \in ScheduleIDs :
         db.schedules[s] # Nil =>
            (db.schedules[s].status \in {"canceled", "completed"} =>
                /\ db'.schedules[s].status \in {"canceled", "completed"}
                /\ db'.schedules[s].nextRunAt = Nil)]_vars

(* An ended execution is final: no late attempt, second completion, timeout    *)
(* or adoption changes its row, and it gains no attempt.                     *)
EndedIsFinal ==
    [][\A e \in Executions(db) :
         IsTerminal(db.executions[e].status) =>
            /\ db'.executions[e] = db.executions[e]
            /\ AttemptsOf(e)' = AttemptsOf(e)]_vars

(* Attempt rows are an append-only history, and each is written by the node    *)
(* that owned the execution when it was applied: an attempt a former owner     *)
(* finishes after another node adopted the execution is not recorded.         *)
AttemptsAppendOnly ==
    [][\A a \in AttemptIDs :
         /\ db.attempts[a] # Nil => db'.attempts[a] = db.attempts[a]
         /\ db.attempts[a] = Nil /\ db'.attempts[a] # Nil =>
              LET at == db'.attempts[a]
              IN  db.executions[at.executionID].ownerNodeID = at.nodeID]_vars

(* The executions, seen as the runs of module Occurrences. *)
RunOf(e) ==
    LET ex == db.executions[e]
    IN  [schedule |-> ex.scheduleID, instant |-> ex.scheduledFor,
         attempts |-> ex.attemptCount, phase |-> ex.status]

Promise == INSTANCE Occurrences
    WITH Schedules <- ScheduleIDs, Instants <- Int, Verdicts <- TerminalStatuses,
         runs <- {RunOf(e) : e \in Executions(db)}

(* The log, whatever its entries, implements the abstract promise: an          *)
(* occurrence is started once, attempted one attempt at a time, and ended     *)
(* once; adoption and every client command are invisible to it.               *)
ImplementsOccurrences == Promise!Spec

-----------------------------------------------------------------------------
(* Statements of the source the handlers do not keep. *)

(* The tests of ApplyResumeSchedule fail when "NextRunAt is nil"                *)
(* (schedule_test.go:716), and worker.go:637 logs a schedule without one as    *)
(* "index invariant violated": an active schedule has a next_run_at.          *)
ActiveHasNextRun ==
    \A s \in ScheduleIDs :
        db.schedules[s] # Nil /\ db.schedules[s].status = "active"
            => db.schedules[s].nextRunAt # Nil

(* e ends in this step. *)
Ends(e) ==
    /\ db.executions[e] # Nil
    /\ ~IsTerminal(db.executions[e].status)
    /\ IsTerminal(db'.executions[e].status)

(* storage.go:346 has CompleteExecution "put to schedule to advance            *)
(* next_run_at": ending an execution never moves an active schedule's due      *)
(* instant backward.                                                         *)
NextRunAdvances ==
    [][\A e \in Executions(db) :
         LET s == db.executions[e].scheduleID
         IN  Ends(e) /\ db.schedules[s].nextRunAt # Nil /\ db'.schedules[s].nextRunAt # Nil
                => db'.schedules[s].nextRunAt >= db.schedules[s].nextRunAt]_vars
=============================================================================
