------------------------- MODULE StateMachine_proofs -------------------------
(***************************************************************************)
(* Theorems about the replicated state machine, for any sets of tenants,    *)
(* schedules, executions, attempts and nodes, any schedules clients ask for  *)
(* and any clock readings.                                                  *)
(***************************************************************************)
EXTENDS StateMachine, Commands_proofs

-----------------------------------------------------------------------------
(* Type correctness. *)

IInv == TypeOK /\ Bounded(db)

LEMMA CommitKeepsTypes ==
    ASSUME TypeOK, NEW at \in ProposedTimes, NEW tx \in Database, Bounded(tx),
           Commit(tx, at)
    PROVE  IInv'
<1>1. db' \in Database /\ stamp' \in Nat /\ Bounded(db)'
  BY InputAssumption DEF Commit, Bounded, Executions
<1>2. \A s \in ScheduleIDs :
         tx.schedules[s] # Nil => tx.schedules[s].nextRunAt \in Int \cup {Nil}
  BY DEF Database, Schedule
<1>3. offered' \in [ScheduleIDs -> SUBSET Int]
  BY <1>2 DEF Commit, TypeOK
<1> QED
  BY <1>1, <1>3 DEF IInv, TypeOK

(* Every entry of the log keeps the rows well typed. *)
LEMMA TypeStep == IInv /\ [Next]_vars => IInv'
<1> SUFFICES ASSUME IInv, [Next]_vars PROVE IInv'
  OBVIOUS
<1> USE DEF IInv
<1>0. /\ db \in Database /\ TypeOK /\ Bounded(db)
      /\ \A s \in ScheduleIDs : db.schedules[s] # Nil => db.schedules[s] \in Schedule
      /\ \A e \in ExecutionIDs : db.executions[e] # Nil => db.executions[e] \in Execution
  BY DEF TypeOK, Database
<1>1. ASSUME NEW at \in ProposedTimes, NEW t \in Tenants, CreateTenant(t, at)
      PROVE  IInv'
  <2>1. ApplyCreateTenant(db, t) \in Database
    BY <1>0 DEF ApplyCreateTenant, Database
  <2>2. Bounded(ApplyCreateTenant(db, t))
    BY <1>0, BoundedKept DEF ApplyCreateTenant, Executions, Database
  <2> QED
    BY <1>0, <1>1, <2>1, <2>2, CommitKeepsTypes DEF CreateTenant
<1>2. ASSUME NEW at \in ProposedTimes, NEW s \in ScheduleIDs, CreateSchedule(s, at)
      PROVE  IInv'
  <2> PICK cfg \in ScheduleConfigs, n \in MaxAttemptsValues :
           /\ HasInterval(cfg)
           /\ Commit(ApplyCreateSchedule(db, [id |-> s, config |-> cfg, maxAttempts |-> n]), at)
    BY <1>2 DEF CreateSchedule, CreateScheduleAccepted
  <2> DEFINE tx == ApplyCreateSchedule(db, [id |-> s, config |-> cfg, maxAttempts |-> n])
             nextRun == IF cfg.scheduleType = "once"
                        THEN cfg.firstRunAt
                        ELSE computeIntervalOnOrAfter(cfg.firstRunAt, cfg.seconds,
                                                      cfg.firstRunAt)
             row == [config |-> cfg, maxAttempts |-> n,
                     status |-> "active", nextRunAt |-> nextRun]
  <2>1. cfg \in ScheduleConfig /\ n \in Nat
    BY InputAssumption
  <2>2. nextRun \in Nat
    BY <2>1, OnOrAfterFirst DEF ScheduleConfig
  <2>3. row \in Schedule
    BY <2>1, <2>2 DEF Schedule, ScheduleStatuses
  <2>4. tx = [db EXCEPT !.schedules[s] = row]
    BY DEF ApplyCreateSchedule
  <2> HIDE DEF row, tx
  <2>5. tx \in Database
    BY <1>0, <2>3, <2>4, WritesKeepTypes
  <2>6. Bounded(tx)
    BY <1>0, <2>4, BoundedKept DEF Executions, Database
  <2> QED
    BY <1>0, <2>5, <2>6, CommitKeepsTypes DEF tx
<1>3. ASSUME NEW at \in ProposedTimes, NEW s \in ScheduleIDs, NEW row \in Schedule,
             Commit([db EXCEPT !.schedules[s] = row], at)
      PROVE  IInv'
  <2> DEFINE tx == [db EXCEPT !.schedules[s] = row]
  <2>1. tx \in Database
    BY <1>0, WritesKeepTypes
  <2>2. Bounded(tx)
    BY <1>0, BoundedKept DEF Executions, Database
  <2> QED
    BY <1>0, <1>3, <2>1, <2>2, CommitKeepsTypes
<1>4. ASSUME NEW at \in ProposedTimes, NEW s \in ScheduleIDs, UpdateSchedule(s, at)
      PROVE  IInv'
  <2> PICK n \in MaxAttemptsValues :
           /\ UpdateScheduleAccepted(db, [id |-> s, maxAttempts |-> n])
           /\ Commit(ApplyUpdateSchedule(db, [id |-> s, maxAttempts |-> n]), at)
    BY <1>4 DEF UpdateSchedule
  <2>1. db.schedules[s] \in Schedule /\ n \in Nat
    BY <1>0, InputAssumption DEF UpdateScheduleAccepted
  <2>2. [db.schedules[s] EXCEPT !.maxAttempts = n] \in Schedule
    BY <2>1 DEF Schedule
  <2> QED
    BY <1>3, <2>2 DEF ApplyUpdateSchedule
<1>5. ASSUME NEW at \in ProposedTimes, NEW s \in ScheduleIDs, PauseSchedule(s, at)
      PROVE  IInv'
  <2>1. db.schedules[s] \in Schedule
    BY <1>0, <1>5 DEF PauseSchedule, PauseScheduleAccepted
  <2> DEFINE row == IF db.schedules[s].status = "paused" THEN db.schedules[s]
                    ELSE [db.schedules[s] EXCEPT !.status = "paused", !.nextRunAt = Nil]
  <2>2. row \in Schedule
    BY <2>1 DEF Schedule, ScheduleStatuses
  <2>3. Commit([db EXCEPT !.schedules[s] = row], at)
    BY <1>5 DEF PauseSchedule, ApplyPauseSchedule
  <2> QED
    BY <1>3, <2>2, <2>3
<1>6. ASSUME NEW at \in ProposedTimes, NEW s \in ScheduleIDs, CancelSchedule(s, at)
      PROVE  IInv'
  <2>1. db.schedules[s] \in Schedule
    BY <1>0, <1>6 DEF CancelSchedule, CancelScheduleAccepted
  <2> DEFINE row == IF db.schedules[s].status \in {"canceled", "completed"}
                    THEN db.schedules[s]
                    ELSE [db.schedules[s] EXCEPT !.status = "canceled", !.nextRunAt = Nil]
  <2>2. row \in Schedule
    BY <2>1 DEF Schedule, ScheduleStatuses
  <2>3. Commit([db EXCEPT !.schedules[s] = row], at)
    BY <1>6 DEF CancelSchedule, ApplyCancelSchedule
  <2> QED
    BY <1>3, <2>2, <2>3
<1>7. ASSUME NEW at \in ProposedTimes, NEW s \in ScheduleIDs, ResumeSchedule(s, at)
      PROVE  IInv'
  <2>1. db.schedules[s] \in Schedule /\ db.schedules[s] # Nil
    BY <1>0, <1>7 DEF ResumeSchedule, ResumeScheduleAccepted
  <2> DEFINE row == IF db.schedules[s].status = "active" THEN db.schedules[s]
                    ELSE [db.schedules[s] EXCEPT !.status = "active",
                                                 !.nextRunAt = ResumedNextRun(db, s, at)]
  <2>2. ResumedNextRun(db, s, at) \in Int \cup {Nil}
    BY <1>0, <2>1, ResumedNextRunType, InputAssumption
  <2>3. row \in Schedule
    BY <2>1, <2>2 DEF Schedule, ScheduleStatuses
  <2>4. Commit([db EXCEPT !.schedules[s] = row], at)
    BY <1>7 DEF ResumeSchedule, ApplyResumeSchedule
  <2> QED
    BY <1>3, <2>3, <2>4
<1>8. ASSUME NEW at \in ProposedTimes, NEW s \in ScheduleIDs, NEW e \in ExecutionIDs,
             ClaimExecution(s, e, at)
      PROVE  IInv'
  <2> PICK t \in offered[s], n \in Nodes :
           Commit(ApplyClaimExecution(db, [id |-> e, scheduleID |-> s, scheduledFor |-> t,
                                           ownerNodeID |-> n]), at)
    BY <1>8 DEF ClaimExecution
  <2> DEFINE row == [scheduleID |-> s, scheduledFor |-> t,
                     ownerNodeID |-> n,
                     status |-> "in_flight", attemptCount |-> 0,
                     lastAttemptID |-> Nil, lastRetryAt |-> Nil]
             tx == [db EXCEPT !.executions[e] = row]
  <2>1. t \in Int /\ at \in Nat
    BY <1>0, InputAssumption DEF TypeOK
  <2>2. row \in Execution
    BY <2>1 DEF Execution
  <2>3. tx \in Database
    BY <1>0, <2>2, WritesKeepTypes
  <2>4. Bounded(tx)
    <3>1. PICK b \in Int : \A f \in Executions(db) : db.executions[f].scheduledFor <= b
      BY <1>0 DEF Bounded
    <3>2. /\ \A f \in Executions(tx) : f = e \/ f \in Executions(db)
          /\ \A f \in Executions(tx) : f # e => tx.executions[f] = db.executions[f]
          /\ tx.executions[e].scheduledFor = t
      BY <1>0 DEF Executions, Database
    <3>3. \A f \in Executions(db) : db.executions[f].scheduledFor \in Int
      BY <1>0 DEF Executions, Execution
    <3> DEFINE c == IF b <= t THEN t ELSE b
    <3>4. c \in Int /\ t <= c /\ b <= c
      BY <2>1
    <3> HIDE DEF c, tx
    <3>5. \A f \in Executions(tx) : tx.executions[f].scheduledFor <= c
      BY <2>1, <3>1, <3>2, <3>3, <3>4
    <3> QED
      BY <3>4, <3>5 DEF Bounded
  <2>5. Commit(tx, at)
    BY DEF ApplyClaimExecution
  <2> QED
    BY <1>0, <2>3, <2>4, <2>5, CommitKeepsTypes
<1>9. ASSUME NEW at \in ProposedTimes, NEW e \in ExecutionIDs, AdoptExecution(e, at)
      PROVE  IInv'
  <2> PICK new \in Nodes :
           /\ db.executions[e] # Nil
           /\ Commit([db EXCEPT !.executions[e] =
                         [db.executions[e] EXCEPT !.ownerNodeID = new]], at)
    BY <1>9 DEF AdoptExecution, AdoptExecutionAccepted, ApplyAdoptExecution
  <2> DEFINE row == [db.executions[e] EXCEPT !.ownerNodeID = new]
             tx == [db EXCEPT !.executions[e] = row]
  <2>1. row \in Execution /\ row.scheduledFor = db.executions[e].scheduledFor
    BY <1>0 DEF Execution
  <2>2. tx \in Database
    BY <1>0, <2>1, WritesKeepTypes
  <2>3. Bounded(tx)
    BY <1>0, <2>1, BoundedKept DEF Executions, Database
  <2> QED
    BY <1>0, <2>2, <2>3, CommitKeepsTypes
<1>10. ASSUME NEW at \in ProposedTimes, NEW e \in ExecutionIDs, NEW a \in AttemptIDs,
              RecordAttempt(e, a, at)
       PROVE  IInv'
  <2> PICK n \in Nodes, o \in Outcomes, r \in RetryTimes :
        LET cmd == [id |-> a, executionID |-> e, nodeID |-> n, outcome |-> o,
                    retryAt |-> IF o = "retry" THEN r ELSE Nil]
        IN  /\ RecordAttemptAccepted(db, cmd)
            /\ Commit(ApplyRecordAttempt(db, cmd), at)
    BY <1>10 DEF RecordAttempt
  <2> DEFINE retryAt == IF o = "retry" THEN r ELSE Nil
             number == db.executions[e].attemptCount + 1
             new == [executionID |-> e, nodeID |-> n, attemptNumber |-> number,
                     outcome |-> o, retryAt |-> retryAt]
             row == [db.executions[e] EXCEPT !.attemptCount = number,
                                             !.lastAttemptID = a,
                                             !.lastRetryAt = retryAt]
             tx == [db EXCEPT !.attempts[a] = new, !.executions[e] = row]
  <2>0. db.executions[e] # Nil
    BY DEF RecordAttemptAccepted
  <2>1. db.executions[e] \in Execution
    BY <1>0, <2>0
  <2>2. retryAt \in Nat \cup {Nil} /\ number \in Nat
    BY <2>1, InputAssumption DEF Execution
  <2>3. new \in Attempt /\ row \in Execution
          /\ row.scheduledFor = db.executions[e].scheduledFor
    BY <2>1, <2>2 DEF Attempt, Execution
  <2>4. tx \in Database
    BY <1>0, <2>3, WritesKeepTypes
  <2>5. Bounded(tx)
    <3>1. e \in Executions(db)
      BY <2>0 DEF Executions
    <3>2. tx.executions = [db.executions EXCEPT ![e] = row]
      BY <1>0 DEF Database
    <3> HIDE DEF tx, row
    <3>3. \A f \in Executions(tx) :
             f \in Executions(db)
               /\ tx.executions[f].scheduledFor = db.executions[f].scheduledFor
      BY <1>0, <2>3, <3>1, <3>2 DEF Executions, Database
    <3> QED
      BY <1>0, <3>3, BoundedKept
  <2>6. Commit(tx, at)
    BY DEF ApplyRecordAttempt
  <2> QED
    BY <1>0, <2>4, <2>5, <2>6, CommitKeepsTypes
<1>11. ASSUME NEW at \in ProposedTimes, NEW e \in ExecutionIDs,
              NEW status \in TerminalStatuses,
              EndExecutionAccepted(db, e), Commit(EndExecution(db, e, status), at)
       PROVE  IInv'
  <2> DEFINE ex == db.executions[e]
             row == [ex EXCEPT !.status = status, !.ownerNodeID = Nil]
             after == AfterExecution(db.schedules[ex.scheduleID], ex.scheduledFor)
             tx == [db EXCEPT !.executions[e] = row, !.schedules[ex.scheduleID] = after]
  <2>1. ex \in Execution /\ ex.scheduleID \in ScheduleIDs
    BY <1>0, <1>11 DEF EndExecutionAccepted, Execution
  <2>2. row \in Execution /\ row.scheduledFor = ex.scheduledFor
    BY <2>1, <1>11 DEF Execution
  <2>3. after \in Schedule
    BY <1>0, <1>11, <2>1, AfterExecutionType DEF EndExecutionAccepted, Execution
  <2> HIDE DEF after
  <2>4. tx \in Database
    BY <1>0, <2>1, <2>2, <2>3, WritesKeepTypes
  <2>5. Bounded(tx)
    <3>1. e \in Executions(db)
      BY <1>11 DEF Executions, EndExecutionAccepted
    <3>2. tx.executions = [db.executions EXCEPT ![e] = row]
      BY <1>0 DEF Database
    <3> HIDE DEF tx, row
    <3>3. \A f \in Executions(tx) :
             f \in Executions(db)
               /\ tx.executions[f].scheduledFor = db.executions[f].scheduledFor
      BY <1>0, <2>2, <3>1, <3>2 DEF Executions, Database
    <3> QED
      BY <1>0, <3>3, BoundedKept
  <2>6. Commit(tx, at)
    BY <1>11 DEF EndExecution, after
  <2> QED
    BY <1>0, <2>4, <2>5, <2>6, CommitKeepsTypes
<1>12. ASSUME NEW at \in ProposedTimes, NEW e \in ExecutionIDs, CompleteExecution(e, at)
       PROVE  IInv'
  BY <1>11, <1>12 DEF CompleteExecution, CompleteExecutionAccepted,
                      ApplyCompleteExecution, TerminalStatuses
<1>13. ASSUME NEW at \in ProposedTimes, NEW e \in ExecutionIDs, FailExecutionTimeout(e, at)
       PROVE  IInv'
  BY <1>11, <1>13 DEF FailExecutionTimeout, FailExecutionTimeoutAccepted,
                      ApplyFailExecutionTimeout, TerminalStatuses
<1>14. CASE UNCHANGED vars
  BY <1>0, <1>14 DEF vars, TypeOK, Bounded, Executions
<1> QED
  BY <1>1, <1>2, <1>4, <1>5, <1>6, <1>7, <1>8, <1>9, <1>10, <1>12, <1>13, <1>14 DEF Next

(* The empty database is well typed. *)
LEMMA TypeInit == Init => IInv
<1> SUFFICES ASSUME Init PROVE IInv
  OBVIOUS
<1>1. TypeOK
  BY DEF Init, TypeOK, Database, EmptyDatabase
<1>2. Executions(db) = {}
  BY DEF Init, Executions, EmptyDatabase
<1> QED
  BY <1>1, <1>2 DEF IInv, Bounded

LEMMA TypeInvariant == Spec => []IInv
BY TypeInit, TypeStep, PTL DEF Spec

(* Whatever the log holds, every row the handlers write has its type: above     *)
(* all, the next_run_at they compute is an instant or absent.                *)
THEOREM TypeCorrect == Spec => []TypeOK
BY TypeInvariant, PTL DEF IInv

-----------------------------------------------------------------------------
(* What one entry does to the rows, whichever it is.                         *)

(* A client's entry writes the row of s: it creates the schedule, updates it or  *)
(* leaves it as it is, pauses or cancels it, or resumes it.                   *)
Rewrites(s, row) ==
    /\ db'.schedules = [db.schedules EXCEPT ![s] = row]
    /\ \/ /\ db.schedules[s] = Nil
          /\ row.status = "active"
          /\ row.nextRunAt = row.config.firstRunAt
       \/ /\ db.schedules[s] # Nil
          /\ row.config = db.schedules[s].config
          /\ \/ /\ row.status = db.schedules[s].status
                /\ row.nextRunAt = db.schedules[s].nextRunAt
             \/ /\ db.schedules[s].status \in {"active", "paused"}
                /\ row.status \in {"paused", "canceled"}
                /\ row.nextRunAt = Nil
             \/ /\ db.schedules[s].status = "paused"
                /\ row.status = "active"
                /\ \E at \in ProposedTimes : row.nextRunAt = ResumedNextRun(db, s, at)

(* A client's entry, or a rejected one. *)
LeavesExecutions ==
    /\ db'.executions = db.executions
    /\ db'.attempts = db.attempts
    /\ \/ db'.schedules = db.schedules
       \/ \E s \in ScheduleIDs, row \in Schedule : Rewrites(s, row)

Claims(e, s, t) ==
    /\ db.executions[e] = Nil
    /\ t \in offered[s]
    /\ \A f \in ExecutionsOf(db, s) : db.executions[f].scheduledFor # t
    /\ \E row \in Execution :
         /\ row.scheduleID = s /\ row.scheduledFor = t
         /\ row.ownerNodeID # Nil /\ row.status = "in_flight"
         /\ row.attemptCount = 0 /\ row.lastAttemptID = Nil /\ row.lastRetryAt = Nil
         /\ db'.executions = [db.executions EXCEPT ![e] = row]
    /\ db'.attempts = db.attempts
    /\ db'.schedules = db.schedules

Adopts(e, n) ==
    /\ db.executions[e] # Nil
    /\ db.executions[e].status = "in_flight"
    /\ db'.executions = [db.executions EXCEPT ![e] = [@ EXCEPT !.ownerNodeID = n]]
    /\ db'.attempts = db.attempts
    /\ db'.schedules = db.schedules

Records(e, a, n, new) ==
    /\ db.attempts[a] = Nil
    /\ db.executions[e] # Nil
    /\ db.executions[e].status = "in_flight"
    /\ db.executions[e].ownerNodeID = n
    /\ new \in Attempt /\ new.executionID = e /\ new.nodeID = n
    /\ new.attemptNumber = db.executions[e].attemptCount + 1
    /\ db'.executions = [db.executions EXCEPT ![e] =
                           [@ EXCEPT !.attemptCount = new.attemptNumber,
                                     !.lastAttemptID = a,
                                     !.lastRetryAt = new.retryAt]]
    /\ db'.attempts = [db.attempts EXCEPT ![a] = new]
    /\ db'.schedules = db.schedules

Finishes(e, status) ==
    /\ db.executions[e] # Nil
    /\ ~IsTerminal(db.executions[e].status)
    /\ db'.executions = [db.executions EXCEPT ![e] = [@ EXCEPT !.status = status,
                                                              !.ownerNodeID = Nil]]
    /\ db'.attempts = db.attempts
    /\ db.schedules[db.executions[e].scheduleID] # Nil
    /\ db'.schedules = [db.schedules EXCEPT ![db.executions[e].scheduleID] =
                           AfterExecution(@, db.executions[e].scheduledFor)]

Effect ==
    \/ LeavesExecutions
    \/ \E e \in ExecutionIDs, s \in ScheduleIDs : \E t \in offered[s] : Claims(e, s, t)
    \/ \E e \in ExecutionIDs, n \in Nodes : Adopts(e, n)
    \/ \E e \in ExecutionIDs, a \in AttemptIDs, n \in Nodes, new \in Attempt :
         Records(e, a, n, new)
    \/ \E e \in ExecutionIDs, status \in TerminalStatuses : Finishes(e, status)

LEMMA StepEffect == IInv /\ [Next]_vars => Effect
<1> SUFFICES ASSUME IInv, [Next]_vars PROVE Effect
  OBVIOUS
<1>0. db \in Database /\ TypeOK
  BY DEF IInv, TypeOK
<1>1. ASSUME NEW at \in ProposedTimes, NEW t \in Tenants, CreateTenant(t, at)
      PROVE  LeavesExecutions
  BY <1>0, <1>1 DEF CreateTenant, Commit, ApplyCreateTenant, Database, LeavesExecutions
<1>a. ASSUME NEW s \in ScheduleIDs, NEW row \in Schedule,
             db' = [db EXCEPT !.schedules[s] = row],
             db'.schedules = [db.schedules EXCEPT ![s] = row] => Rewrites(s, row)
      PROVE  LeavesExecutions
  <2>1. /\ db'.executions = db.executions /\ db'.attempts = db.attempts
        /\ db'.schedules = [db.schedules EXCEPT ![s] = row]
    BY <1>0, <1>a DEF Database
  <2> QED
    BY <1>a, <2>1 DEF LeavesExecutions
<1>b. ASSUME NEW at \in ProposedTimes, NEW s \in ScheduleIDs, CreateSchedule(s, at)
      PROVE  LeavesExecutions
  <2> PICK cfg \in ScheduleConfigs, n \in MaxAttemptsValues :
           LET cmd == [id |-> s, config |-> cfg, maxAttempts |-> n]
           IN  /\ CreateScheduleAccepted(db, cmd)
               /\ Commit(ApplyCreateSchedule(db, cmd), at)
    BY <1>b DEF CreateSchedule
  <2> DEFINE row == [config |-> cfg, maxAttempts |-> n, status |-> "active",
                     nextRunAt |-> cfg.firstRunAt]
  <2>1. cfg \in ScheduleConfig /\ n \in Nat
    BY InputAssumption
  <2>2. db' = [db EXCEPT !.schedules[s] = row]
    BY <2>1, OnOrAfterFirst DEF Commit, ApplyCreateSchedule, ScheduleConfig
  <2>3. row \in Schedule
    BY <2>1 DEF Schedule, ScheduleConfig, ScheduleStatuses, CreateScheduleAccepted
  <2>4. row.status = "active" /\ row.nextRunAt = row.config.firstRunAt
    OBVIOUS
  <2>5. db.schedules[s] = Nil
    BY DEF CreateScheduleAccepted
  <2> HIDE DEF row
  <2> QED
    BY <1>a, <2>2, <2>3, <2>4, <2>5 DEF Rewrites
<1>c. ASSUME NEW at \in ProposedTimes, NEW s \in ScheduleIDs, UpdateSchedule(s, at)
      PROVE  LeavesExecutions
  <2> PICK n \in MaxAttemptsValues :
           /\ db.schedules[s] # Nil
           /\ db' = [db EXCEPT !.schedules[s] = [@ EXCEPT !.maxAttempts = n]]
    BY <1>c DEF UpdateSchedule, UpdateScheduleAccepted, Commit, ApplyUpdateSchedule
  <2> DEFINE row == [db.schedules[s] EXCEPT !.maxAttempts = n]
  <2>1. /\ row \in Schedule /\ row.config = db.schedules[s].config
        /\ row.status = db.schedules[s].status
        /\ row.nextRunAt = db.schedules[s].nextRunAt
    BY <1>0, InputAssumption DEF Schedule, Database
  <2>2. db' = [db EXCEPT !.schedules[s] = row]
    OBVIOUS
  <2> HIDE DEF row
  <2> QED
    BY <1>a, <2>1, <2>2 DEF Rewrites
<1>d. ASSUME NEW at \in ProposedTimes, NEW s \in ScheduleIDs,
             PauseSchedule(s, at) \/ CancelSchedule(s, at)
      PROVE  LeavesExecutions
  <2> DEFINE old == db.schedules[s]
  <2>1. PICK status \in {"paused", "canceled"}, keep \in SUBSET ScheduleStatuses :
          /\ old # Nil /\ db' = [db EXCEPT !.schedules[s] =
                                    IF @.status \in keep THEN @
                                    ELSE [@ EXCEPT !.status = status, !.nextRunAt = Nil]]
          /\ old.status \notin keep => old.status \in {"active", "paused"}
    <3>1. old # Nil => old.status \in ScheduleStatuses
      BY <1>0 DEF Database, Schedule
    <3>2. CASE PauseSchedule(s, at)
      <4>1. /\ old # Nil /\ old.status \in {"active", "paused"}
            /\ db' = [db EXCEPT !.schedules[s] =
                         IF @.status \in {"paused"} THEN @
                         ELSE [@ EXCEPT !.status = "paused", !.nextRunAt = Nil]]
        BY <3>2 DEF PauseSchedule, PauseScheduleAccepted, Commit, ApplyPauseSchedule
      <4>2. {"paused"} \in SUBSET ScheduleStatuses
        BY DEF ScheduleStatuses
      <4> QED
        BY <4>1, <4>2
    <3>3. CASE CancelSchedule(s, at)
      <4>1. /\ old # Nil
            /\ db' = [db EXCEPT !.schedules[s] =
                         IF @.status \in {"canceled", "completed"} THEN @
                         ELSE [@ EXCEPT !.status = "canceled", !.nextRunAt = Nil]]
        BY <3>3 DEF CancelSchedule, CancelScheduleAccepted, Commit, ApplyCancelSchedule
      <4>2. {"canceled", "completed"} \in SUBSET ScheduleStatuses
        BY DEF ScheduleStatuses
      <4>3. old.status \notin {"canceled", "completed"} => old.status \in {"active", "paused"}
        BY <3>1, <4>1 DEF ScheduleStatuses
      <4> QED
        BY <4>1, <4>2, <4>3
    <3> QED
      BY <1>d, <3>2, <3>3
  <2> DEFINE row == IF old.status \in keep THEN old
                    ELSE [old EXCEPT !.status = status, !.nextRunAt = Nil]
  <2>2. old \in Schedule
    BY <1>0, <2>1 DEF Database
  <2>3. /\ row \in Schedule /\ row.config = old.config
        /\ \/ row.status = old.status /\ row.nextRunAt = old.nextRunAt
           \/ /\ old.status \in {"active", "paused"}
              /\ row.status \in {"paused", "canceled"}
              /\ row.nextRunAt = Nil
    <3>1. CASE old.status \in keep
      BY <2>2, <3>1
    <3>2. CASE old.status \notin keep
      BY <2>1, <2>2, <3>2 DEF Schedule, ScheduleStatuses
    <3> QED
      BY <3>1, <3>2
  <2>4. db' = [db EXCEPT !.schedules[s] = row]
    BY <2>1
  <2> HIDE DEF row
  <2> QED
    BY <1>a, <2>1, <2>3, <2>4 DEF Rewrites
<1>e. ASSUME NEW at \in ProposedTimes, NEW s \in ScheduleIDs, ResumeSchedule(s, at)
      PROVE  LeavesExecutions
  <2> DEFINE old == db.schedules[s]
             row == IF old.status = "active" THEN old
                    ELSE [old EXCEPT !.status = "active",
                                     !.nextRunAt = ResumedNextRun(db, s, at)]
  <2>1. /\ old # Nil /\ old.status \in {"active", "paused"}
        /\ db' = [db EXCEPT !.schedules[s] = row]
    BY <1>e DEF ResumeSchedule, ResumeScheduleAccepted, Commit, ApplyResumeSchedule
  <2>2. old \in Schedule
    BY <1>0, <2>1 DEF Database
  <2>3. ResumedNextRun(db, s, at) \in Int \cup {Nil}
    BY <1>0, <2>1, ResumedNextRunType, InputAssumption DEF IInv
  <2>4. /\ row \in Schedule /\ row.config = old.config
        /\ \/ row.status = old.status /\ row.nextRunAt = old.nextRunAt
           \/ /\ old.status = "paused" /\ row.status = "active"
              /\ row.nextRunAt = ResumedNextRun(db, s, at)
    BY <2>1, <2>2, <2>3 DEF Schedule, ScheduleStatuses
  <2> HIDE DEF row
  <2> QED
    BY <1>a, <2>1, <2>4 DEF Rewrites
<1>2. ASSUME NEW at \in ProposedTimes, NEW s \in ScheduleIDs,
             CreateSchedule(s, at) \/ UpdateSchedule(s, at) \/ PauseSchedule(s, at)
               \/ CancelSchedule(s, at) \/ ResumeSchedule(s, at)
      PROVE  LeavesExecutions
  BY <1>2, <1>b, <1>c, <1>d, <1>e
<1>3. ASSUME NEW at \in ProposedTimes, NEW s \in ScheduleIDs, NEW e \in ExecutionIDs,
             ClaimExecution(s, e, at)
      PROVE  \E t \in offered[s] : Claims(e, s, t)
  <2> PICK t \in offered[s], n \in Nodes :
        LET cmd == [id |-> e, scheduleID |-> s, scheduledFor |-> t, ownerNodeID |-> n]
        IN  /\ ClaimExecutionAccepted(db, cmd)
            /\ Commit(ApplyClaimExecution(db, cmd), at)
    BY <1>3 DEF ClaimExecution
  <2> DEFINE row == [scheduleID |-> s, scheduledFor |-> t,
                     ownerNodeID |-> n,
                     status |-> "in_flight", attemptCount |-> 0,
                     lastAttemptID |-> Nil, lastRetryAt |-> Nil]
  <2>1. row \in Execution /\ n # Nil
    BY <1>0, InputAssumption, NilAssumption DEF TypeOK, Execution
  <2>2. db' = [db EXCEPT !.executions[e] = row]
    BY DEF Commit, ApplyClaimExecution
  <2>3. db.executions[e] = Nil
    BY <1>3 DEF ClaimExecution
  <2>4. \A f \in ExecutionsOf(db, s) : db.executions[f].scheduledFor # t
    BY DEF ClaimExecutionAccepted
  <2>5. /\ row.scheduleID = s /\ row.scheduledFor = t
        /\ row.ownerNodeID # Nil /\ row.status = "in_flight"
        /\ row.attemptCount = 0 /\ row.lastAttemptID = Nil /\ row.lastRetryAt = Nil
    BY <2>1
  <2> HIDE DEF row
  <2>6. /\ db'.executions = [db.executions EXCEPT ![e] = row]
        /\ db'.attempts = db.attempts
        /\ db'.schedules = db.schedules
    BY <1>0, <2>2 DEF Database
  <2> QED
    BY <2>1, <2>3, <2>4, <2>5, <2>6 DEF Claims
<1>4. ASSUME NEW at \in ProposedTimes, NEW e \in ExecutionIDs, AdoptExecution(e, at)
      PROVE  \E n \in Nodes : Adopts(e, n)
  <2> PICK n \in Nodes :
        /\ db.executions[e] # Nil
        /\ db.executions[e].status = "in_flight"
        /\ db' = [db EXCEPT !.executions[e] = [@ EXCEPT !.ownerNodeID = n]]
    BY <1>4 DEF AdoptExecution, AdoptExecutionAccepted, ApplyAdoptExecution, Commit
  <2> DEFINE row == [db.executions[e] EXCEPT !.ownerNodeID = n]
  <2>1. db' = [db EXCEPT !.executions[e] = row]
    OBVIOUS
  <2> HIDE DEF row
  <2>2. /\ db'.executions = [db.executions EXCEPT ![e] = row]
        /\ db'.attempts = db.attempts /\ db'.schedules = db.schedules
    BY <1>0, <2>1 DEF Database
  <2> QED
    BY <2>2 DEF Adopts, row
<1>5. ASSUME NEW at \in ProposedTimes, NEW e \in ExecutionIDs, NEW a \in AttemptIDs,
             RecordAttempt(e, a, at)
      PROVE  \E n \in Nodes, new \in Attempt : Records(e, a, n, new)
  <2> PICK n \in Nodes, o \in Outcomes, r \in RetryTimes :
        LET cmd == [id |-> a, executionID |-> e, nodeID |-> n, outcome |-> o,
                    retryAt |-> IF o = "retry" THEN r ELSE Nil]
        IN  /\ RecordAttemptAccepted(db, cmd)
            /\ Commit(ApplyRecordAttempt(db, cmd), at)
    BY <1>5 DEF RecordAttempt
  <2> DEFINE retryAt == IF o = "retry" THEN r ELSE Nil
             number == db.executions[e].attemptCount + 1
             new == [executionID |-> e, nodeID |-> n, attemptNumber |-> number,
                     outcome |-> o, retryAt |-> retryAt]
             row == [db.executions[e] EXCEPT !.attemptCount = number,
                                             !.lastAttemptID = a,
                                             !.lastRetryAt = retryAt]
  <2>1. /\ db.executions[e] # Nil /\ db.executions[e].status = "in_flight"
        /\ db.executions[e].ownerNodeID = n
    BY DEF RecordAttemptAccepted
  <2>2. db.executions[e] \in Execution
    BY <1>0, <2>1 DEF Database
  <2>3. new \in Attempt
    BY <2>2, InputAssumption DEF Attempt, Execution
  <2>4. db' = [db EXCEPT !.attempts[a] = new, !.executions[e] = row]
    BY DEF Commit, ApplyRecordAttempt
  <2>5. /\ new.executionID = e /\ new.nodeID = n
        /\ new.attemptNumber = number /\ new.retryAt = retryAt
    OBVIOUS
  <2>6. db.attempts[a] = Nil
    BY <1>5 DEF RecordAttempt
  <2> HIDE DEF new
  <2>7. /\ db'.executions = [db.executions EXCEPT ![e] = row]
        /\ db'.attempts = [db.attempts EXCEPT ![a] = new]
        /\ db'.schedules = db.schedules
    BY <1>0, <2>4 DEF Database
  <2> HIDE DEF number, retryAt
  <2>8. Records(e, a, n, new)
    BY <2>1, <2>3, <2>5, <2>6, <2>7 DEF Records, number
  <2> QED
    BY <2>3, <2>8
<1>6. ASSUME NEW at \in ProposedTimes, NEW e \in ExecutionIDs, NEW status \in TerminalStatuses,
             EndExecutionAccepted(db, e), Commit(EndExecution(db, e, status), at)
      PROVE  Finishes(e, status)
  <2> DEFINE row == [db.executions[e] EXCEPT !.status = status, !.ownerNodeID = Nil]
  <2> DEFINE s == db.executions[e].scheduleID
             after == AfterExecution(db.schedules[s], db.executions[e].scheduledFor)
  <2>1. db' = [db EXCEPT !.executions[e] = row, !.schedules[s] = after]
    BY <1>6 DEF Commit, EndExecution
  <2> HIDE DEF row, after, s
  <2>2. /\ db'.executions = [db.executions EXCEPT ![e] = row] /\ db'.attempts = db.attempts
        /\ db'.schedules = [db.schedules EXCEPT ![s] = after]
    BY <1>0, <2>1 DEF Database
  <2> QED
    BY <1>6, <2>2 DEF EndExecutionAccepted, Finishes, row, after, s
<1>7. ASSUME NEW at \in ProposedTimes, NEW e \in ExecutionIDs,
             CompleteExecution(e, at) \/ FailExecutionTimeout(e, at)
      PROVE  \E status \in TerminalStatuses : Finishes(e, status)
  <2>1. CASE CompleteExecution(e, at)
    BY <1>6, <2>1 DEF CompleteExecution, CompleteExecutionAccepted,
                      ApplyCompleteExecution, TerminalStatuses
  <2>2. CASE FailExecutionTimeout(e, at)
    BY <1>6, <2>2 DEF FailExecutionTimeout, FailExecutionTimeoutAccepted,
                      ApplyFailExecutionTimeout, TerminalStatuses
  <2> QED
    BY <1>7, <2>1, <2>2
<1>8. CASE UNCHANGED vars
  BY <1>8 DEF vars, LeavesExecutions, Effect
<1>9. ASSUME NEW at \in ProposedTimes, NEW s \in ScheduleIDs, NEW e \in ExecutionIDs,
             ClaimExecution(s, e, at)
      PROVE  Effect
  BY <1>3, <1>9 DEF Effect
<1>10. ASSUME NEW at \in ProposedTimes, NEW e \in ExecutionIDs, AdoptExecution(e, at)
       PROVE  Effect
  BY <1>4, <1>10 DEF Effect
<1>11. ASSUME NEW at \in ProposedTimes, NEW e \in ExecutionIDs, NEW a \in AttemptIDs,
              RecordAttempt(e, a, at)
       PROVE  Effect
  BY <1>5, <1>11 DEF Effect
<1>12. ASSUME NEW at \in ProposedTimes, NEW e \in ExecutionIDs,
              CompleteExecution(e, at) \/ FailExecutionTimeout(e, at)
       PROVE  Effect
  BY <1>7, <1>12 DEF Effect
<1>13. LeavesExecutions => Effect
  BY DEF Effect
<1> QED
  BY <1>1, <1>2, <1>8, <1>9, <1>10, <1>11, <1>12, <1>13 DEF Next

-----------------------------------------------------------------------------
(* What one entry does to an execution. *)

(* e is claimed in this step, for an instant its schedule had and that has no    *)
(* execution yet.                                                            *)
New(e) ==
    /\ ~IsTerminal(db'.executions[e].status)
    /\ \E s \in ScheduleIDs : \E t \in offered[s] :
         /\ db'.executions[e].scheduleID = s
         /\ db'.executions[e].scheduledFor = t
         /\ \A f \in ExecutionsOf(db, s) : db.executions[f].scheduledFor # t

(* e stands for the same occurrence as before, and ends only by Finishes. *)
Kept(e) ==
    /\ e \in Executions(db')
    /\ db'.executions[e].scheduleID = db.executions[e].scheduleID
    /\ db'.executions[e].scheduledFor = db.executions[e].scheduledFor
    /\ \/ IsTerminal(db'.executions[e].status) <=> IsTerminal(db.executions[e].status)
       \/ /\ IsTerminal(db'.executions[e].status)
          /\ \E status \in TerminalStatuses : Finishes(e, status)

(* No entry removes an execution or moves it to another occurrence, and it adds  *)
(* one at most.                                                              *)
LEMMA ExecutionStep ==
    ASSUME IInv, [Next]_vars
    PROVE  /\ \A e \in Executions(db) : Kept(e)
           /\ \A e \in Executions(db') \ Executions(db) : New(e)
           /\ \A e, f \in Executions(db') \ Executions(db) : e = f
<1> DEFINE Goal == /\ \A e \in Executions(db) : Kept(e)
                   /\ \A e \in Executions(db') \ Executions(db) : New(e)
                   /\ \A e, f \in Executions(db') \ Executions(db) : e = f
<1>0. /\ db.executions \in [ExecutionIDs -> Execution \cup {Nil}]
      /\ Nil \notin Execution
  BY NilAssumption DEF IInv, TypeOK, Database
<1>1. CASE LeavesExecutions
  BY <1>1 DEF LeavesExecutions, Kept, Executions
<1>2. ASSUME NEW e \in ExecutionIDs, NEW s \in ScheduleIDs, NEW t \in offered[s],
             Claims(e, s, t)
      PROVE  Goal
  <2>1. PICK row \in Execution :
          /\ row.scheduleID = s /\ row.scheduledFor = t /\ row.status = "in_flight"
          /\ db'.executions = [db.executions EXCEPT ![e] = row]
    BY <1>2 DEF Claims
  <2>2. db.executions[e] = Nil /\ ~IsTerminal("in_flight")
    BY <1>2 DEF Claims, IsTerminal, TerminalStatuses
  <2>3. \A f \in Executions(db) : Kept(f)
    BY <1>0, <2>1, <2>2 DEF Kept, Executions
  <2>4. New(e)
    BY <1>0, <1>2, <2>1, <2>2 DEF New, Claims
  <2>5. \A f \in Executions(db') : f \in Executions(db) \/ f = e
    BY <1>0, <2>1 DEF Executions
  <2> QED
    BY <2>3, <2>4, <2>5
<1>3. ASSUME NEW e \in ExecutionIDs, db.executions[e] # Nil,
             NEW row \in Execution, db'.executions = [db.executions EXCEPT ![e] = row],
             row.scheduleID = db.executions[e].scheduleID,
             row.scheduledFor = db.executions[e].scheduledFor,
             \/ row.status = db.executions[e].status
             \/ /\ IsTerminal(row.status)
                /\ \E status \in TerminalStatuses : Finishes(e, status)
      PROVE  Goal
  <2>1. /\ db'.executions[e] = row
        /\ \A f \in ExecutionIDs : f # e => db'.executions[f] = db.executions[f]
    BY <1>0, <1>3
  <2>2. Executions(db') = Executions(db)
    BY <1>0, <1>3, <2>1 DEF Executions
  <2>3. Kept(e)
    <3>1. e \in Executions(db')
      BY <1>0, <1>3, <2>1 DEF Executions
    <3> QED
      BY <1>3, <2>1, <3>1 DEF Kept
  <2>4. ASSUME NEW f \in Executions(db), f # e PROVE Kept(f)
    <3>1. f \in ExecutionIDs
      BY DEF Executions
    <3> QED
      BY <2>1, <2>2, <2>4, <3>1 DEF Kept
  <2> QED
    BY <2>2, <2>3, <2>4
<1>4. ASSUME NEW e \in ExecutionIDs, NEW n \in Nodes, Adopts(e, n) PROVE Goal
  <2> DEFINE row == [db.executions[e] EXCEPT !.ownerNodeID = n]
  <2>1. db.executions[e] # Nil /\ db'.executions = [db.executions EXCEPT ![e] = row]
    BY <1>4 DEF Adopts
  <2>2. /\ row \in Execution /\ row.scheduleID = db.executions[e].scheduleID
        /\ row.scheduledFor = db.executions[e].scheduledFor
        /\ row.status = db.executions[e].status
    BY <1>0, <2>1 DEF Execution
  <2> HIDE DEF row
  <2> QED
    BY <1>3, <2>1, <2>2
<1>5. ASSUME NEW e \in ExecutionIDs, NEW a \in AttemptIDs, NEW n \in Nodes,
             NEW new \in Attempt, Records(e, a, n, new)
      PROVE  Goal
  <2> DEFINE row == [db.executions[e] EXCEPT !.attemptCount = new.attemptNumber,
                                             !.lastAttemptID = a,
                                             !.lastRetryAt = new.retryAt]
  <2>1. db.executions[e] # Nil /\ db'.executions = [db.executions EXCEPT ![e] = row]
    BY <1>5 DEF Records
  <2>2. /\ row \in Execution /\ row.scheduleID = db.executions[e].scheduleID
        /\ row.scheduledFor = db.executions[e].scheduledFor
        /\ row.status = db.executions[e].status
    <3>1. db.executions[e] \in Execution
      BY <1>0, <2>1
    <3> QED
      BY <3>1 DEF Execution, Attempt
  <2> HIDE DEF row
  <2> QED
    BY <1>3, <2>1, <2>2
<1>6. ASSUME NEW e \in ExecutionIDs, NEW status \in TerminalStatuses, Finishes(e, status)
      PROVE  Goal
  <2> DEFINE row == [db.executions[e] EXCEPT !.status = status, !.ownerNodeID = Nil]
  <2>1. db.executions[e] # Nil /\ db'.executions = [db.executions EXCEPT ![e] = row]
    BY <1>6 DEF Finishes
  <2>2. /\ row \in Execution /\ row.scheduleID = db.executions[e].scheduleID
        /\ row.scheduledFor = db.executions[e].scheduledFor
        /\ row.status = status
    BY <1>0, <2>1 DEF Execution
  <2>3. IsTerminal(row.status)
    BY <2>2 DEF IsTerminal
  <2> HIDE DEF row
  <2> QED
    BY <1>3, <1>6, <2>1, <2>2, <2>3
<1> QED
  BY <1>1, <1>2, <1>4, <1>5, <1>6, StepEffect DEF Effect

-----------------------------------------------------------------------------
(* The safety properties. *)

(* Two executions never stand for the same occurrence of a schedule: in any      *)
(* log, ApplyClaimExecution's scan refuses every claim but the first.        *)
LEMMA OneExecutionStep == IInv /\ OneExecutionPerOccurrence /\ [Next]_vars
                            => OneExecutionPerOccurrence'
<1> SUFFICES ASSUME IInv, OneExecutionPerOccurrence, [Next]_vars
             PROVE  OneExecutionPerOccurrence'
  OBVIOUS
<1> DEFINE Same(e, f) ==
             /\ db'.executions[e].scheduleID = db'.executions[f].scheduleID
             /\ db'.executions[e].scheduledFor = db'.executions[f].scheduledFor
<1>1. ASSUME NEW e \in Executions(db), NEW f \in Executions(db), Same(e, f)
      PROVE  e = f
  BY <1>1, ExecutionStep DEF Kept, OneExecutionPerOccurrence
<1>2. ASSUME NEW e \in Executions(db), NEW f \in Executions(db') \ Executions(db)
      PROVE  ~Same(e, f)
  <2>1. Kept(e) /\ New(f)
    BY ExecutionStep
  <2> QED
    BY <2>1 DEF Kept, New, ExecutionsOf
<1>3. \A e, f \in Executions(db') : Same(e, f) => Same(f, e)
  OBVIOUS
<1> HIDE DEF Same
<1>4. \A e, f \in Executions(db') : Same(e, f) => e = f
  BY <1>1, <1>2, <1>3, ExecutionStep
<1> QED
  BY <1>4 DEF OneExecutionPerOccurrence, Executions, Same

THEOREM OccurrencesRunOnce == Spec => []OneExecutionPerOccurrence
<1>1. Init => OneExecutionPerOccurrence
  BY DEF Init, EmptyDatabase, Executions, OneExecutionPerOccurrence
<1> QED
  BY <1>1, OneExecutionStep, TypeInvariant, PTL DEF Spec

(* An ended execution is final: no later entry of the log changes its row or     *)
(* gives it another attempt.                                                 *)
THEOREM EndedStaysFinal == Spec => EndedIsFinal
<1> DEFINE Final == \A e \in Executions(db) :
                      IsTerminal(db.executions[e].status) =>
                         /\ db'.executions[e] = db.executions[e]
                         /\ AttemptsOf(e)' = AttemptsOf(e)
<1>1. IInv /\ [Next]_vars => Final
  <2> SUFFICES ASSUME IInv, [Next]_vars, NEW e \in Executions(db),
                      IsTerminal(db.executions[e].status)
               PROVE  /\ db'.executions[e] = db.executions[e]
                      /\ AttemptsOf(e)' = AttemptsOf(e)
    OBVIOUS
  <2>0. /\ db.executions \in [ExecutionIDs -> Execution \cup {Nil}]
        /\ db.attempts \in [AttemptIDs -> Attempt \cup {Nil}]
        /\ e \in ExecutionIDs /\ db.executions[e] # Nil
        /\ db.executions[e].status # "in_flight"
    BY DEF IInv, TypeOK, Database, Executions, IsTerminal, TerminalStatuses
  <2>1. db'.attempts = db.attempts => AttemptsOf(e)' = AttemptsOf(e)
    BY DEF AttemptsOf, Attempts
  <2>2. CASE LeavesExecutions
    BY <2>1, <2>2 DEF LeavesExecutions
  <2>3. ASSUME NEW f \in ExecutionIDs, NEW s, NEW t, Claims(f, s, t)
        PROVE  db'.executions[e] = db.executions[e] /\ AttemptsOf(e)' = AttemptsOf(e)
    BY <2>0, <2>1, <2>3 DEF Claims
  <2>4. ASSUME NEW f \in ExecutionIDs, NEW n, Adopts(f, n)
        PROVE  db'.executions[e] = db.executions[e] /\ AttemptsOf(e)' = AttemptsOf(e)
    BY <2>0, <2>1, <2>4 DEF Adopts
  <2>5. ASSUME NEW f \in ExecutionIDs, NEW a \in AttemptIDs, NEW n, NEW new \in Attempt,
               Records(f, a, n, new)
        PROVE  db'.executions[e] = db.executions[e] /\ AttemptsOf(e)' = AttemptsOf(e)
    <3>1. f # e
      BY <2>0, <2>5 DEF Records
    <3>2. db'.attempts = [db.attempts EXCEPT ![a] = new] /\ new.executionID = f
            /\ db.attempts[a] = Nil
      BY <2>5 DEF Records
    <3>3. AttemptsOf(e)' = AttemptsOf(e)
      BY <2>0, <3>1, <3>2, NilAssumption DEF AttemptsOf, Attempts
    <3> QED
      BY <2>0, <2>5, <3>1, <3>3 DEF Records
  <2>6. ASSUME NEW f \in ExecutionIDs, NEW status, Finishes(f, status)
        PROVE  db'.executions[e] = db.executions[e] /\ AttemptsOf(e)' = AttemptsOf(e)
    BY <2>0, <2>1, <2>6 DEF Finishes
  <2> QED
    BY <2>2, <2>3, <2>4, <2>5, <2>6, StepEffect DEF Effect
<1> QED
  BY <1>1, TypeInvariant, PTL DEF Spec, EndedIsFinal

(* The attempts are an append-only history written by the owners of their        *)
(* executions, in any log.                                                   *)
THEOREM AttemptsOnlyAppended == Spec => AttemptsAppendOnly
<1> DEFINE Appended == \A a \in AttemptIDs :
                         /\ db.attempts[a] # Nil => db'.attempts[a] = db.attempts[a]
                         /\ db.attempts[a] = Nil /\ db'.attempts[a] # Nil =>
                              LET at == db'.attempts[a]
                              IN  db.executions[at.executionID].ownerNodeID = at.nodeID
<1>1. IInv /\ [Next]_vars => Appended
  <2> SUFFICES ASSUME IInv, [Next]_vars PROVE Appended
    OBVIOUS
  <2>0. db.attempts \in [AttemptIDs -> Attempt \cup {Nil}]
    BY DEF IInv, TypeOK, Database
  <2>1. CASE db'.attempts = db.attempts
    BY <2>1
  <2>2. ASSUME NEW e \in ExecutionIDs, NEW a \in AttemptIDs, NEW n, NEW new \in Attempt,
               Records(e, a, n, new)
        PROVE  Appended
    BY <2>0, <2>2 DEF Records
  <2> HIDE DEF Appended
  <2> QED
    BY <2>1, <2>2, StepEffect DEF Effect, LeavesExecutions, Claims, Adopts, Finishes
<1> QED
  BY <1>1, TypeInvariant, PTL DEF Spec, AttemptsAppendOnly

-----------------------------------------------------------------------------
(* What one entry does to a schedule's row. *)

DueRow(row) ==
    /\ row.nextRunAt # Nil => row.status = "active"
    /\ row.status = "active" /\ Resumable(row.config) => row.nextRunAt # Nil

(* The row of s after this step is due only while active, and while active if    *)
(* it can be resumed, if it was before; and s keeps a row.                   *)
RowStep(s) ==
    /\ db.schedules[s] # Nil => db'.schedules[s] # Nil
    /\ db'.schedules[s] # Nil /\ (db.schedules[s] # Nil => DueRow(db.schedules[s]))
          => DueRow(db'.schedules[s])

LEMMA ScheduleStep == IInv /\ [Next]_vars => \A s \in ScheduleIDs : RowStep(s)
<1> SUFFICES ASSUME IInv, [Next]_vars, NEW s \in ScheduleIDs PROVE RowStep(s)
  OBVIOUS
<1>0. /\ db \in Database /\ Bounded(db)
      /\ db.schedules \in [ScheduleIDs -> Schedule \cup {Nil}]
      /\ Nil \notin Schedule /\ Nil \notin Int
  BY NilAssumption DEF IInv, TypeOK, Database
<1>1. CASE db'.schedules = db.schedules
  BY <1>1 DEF RowStep
<1>2. ASSUME NEW z \in ScheduleIDs, NEW row \in Schedule,
             db'.schedules = [db.schedules EXCEPT ![z] = row],
             (db.schedules[z] # Nil => DueRow(db.schedules[z])) => DueRow(row)
      PROVE  RowStep(s)
  BY <1>0, <1>2 DEF RowStep
<1>3. ASSUME NEW z \in ScheduleIDs, NEW row \in Schedule, Rewrites(z, row)
      PROVE  RowStep(s)
  <2>1. (db.schedules[z] # Nil => DueRow(db.schedules[z])) => DueRow(row)
    <3>1. CASE db.schedules[z] = Nil
      BY <1>0, <1>3, <3>1 DEF Rewrites, DueRow, Schedule, ScheduleConfig
    <3>2. CASE db.schedules[z] # Nil
      <4>1. Resumable(db.schedules[z].config) =>
              \A at \in ProposedTimes : ResumedNextRun(db, z, at) \in Int
        BY <1>0, <3>2, ResumedNextRunType, InputAssumption DEF Resumable
      <4> QED
        BY <1>0, <1>3, <3>2, <4>1 DEF Rewrites, DueRow
    <3> QED
      BY <3>1, <3>2
  <2> QED
    BY <1>2, <1>3, <2>1 DEF Rewrites
<1>4. ASSUME NEW e \in ExecutionIDs, NEW status \in TerminalStatuses, Finishes(e, status)
      PROVE  RowStep(s)
  <2> DEFINE ex == db.executions[e]
             z == ex.scheduleID
             old == db.schedules[z]
             after == AfterExecution(old, ex.scheduledFor)
  <2>1. ex \in Execution /\ z \in ScheduleIDs /\ old \in Schedule /\ old # Nil
    BY <1>0, <1>4 DEF Finishes, Execution, Database
  <2>2. db'.schedules = [db.schedules EXCEPT ![z] = after]
    BY <1>4 DEF Finishes
  <2>3. old.config.scheduleType = "recurring" =>
          computeIntervalAfter(old.config.firstRunAt, old.config.seconds, ex.scheduledFor) \in Int
    BY <2>1, AfterIsInstant DEF Schedule, ScheduleConfig, HasInterval, Execution
  <2>4. after \in Schedule
    BY <2>1, AfterExecutionType DEF Execution
  <2>5. DueRow(old) => DueRow(after)
    <3>1. CASE old.config.scheduleType # "recurring"
      <4>1. after.status = "completed" /\ after.nextRunAt = Nil
        BY <2>1, <3>1 DEF AfterExecution, Schedule
      <4> QED
        BY <4>1 DEF DueRow
    <3>2. CASE old.config.scheduleType = "recurring" /\ old.status # "active"
      BY <3>2 DEF AfterExecution
    <3>3. CASE old.config.scheduleType = "recurring" /\ old.status = "active"
      <4>1. after.status = "active" /\ after.nextRunAt \in Int
        BY <2>1, <2>3, <3>3 DEF AfterExecution, Schedule
      <4> QED
        BY <1>0, <4>1 DEF DueRow
    <3> QED
      BY <3>1, <3>2, <3>3
  <2>6. (old # Nil => DueRow(old)) => DueRow(after)
    BY <2>1, <2>5
  <2> HIDE DEF after, z, ex
  <2> QED
    BY <1>2, <2>1, <2>2, <2>4, <2>6
<1> QED
  BY <1>1, <1>3, <1>4, StepEffect DEF Effect, LeavesExecutions, Claims, Adopts, Records

(* A schedule is due only while it is active, and, unless its catch-up policy is   *)
(* one the resume handler has no case for, always while it is active: after any  *)
(* sequence of pauses, cancellations, resumptions and late completions, of a     *)
(* schedule of any type and interval.                                        *)
THEOREM ActiveIsDue == Spec => []DueWhileActive
<1>1. Init => DueWhileActive
  BY DEF Init, EmptyDatabase, DueWhileActive
<1>2. IInv /\ DueWhileActive /\ [Next]_vars => DueWhileActive'
  BY ScheduleStep DEF DueWhileActive, RowStep, DueRow
<1> QED
  BY <1>1, <1>2, TypeInvariant, PTL DEF Spec

-----------------------------------------------------------------------------
(* Owners. *)

(* What readers may have seen is what they had, and the rows of this step. *)
LEMMA OfferedStep ==
    [Next]_vars =>
        \/ UNCHANGED vars
        \/ offered' = [s \in ScheduleIDs |->
                IF db'.schedules[s] = Nil \/ db'.schedules[s].nextRunAt = Nil
                THEN offered[s]
                ELSE offered[s] \cup {db'.schedules[s].nextRunAt}]
<1> SUFFICES ASSUME Next PROVE \E tx, at : Commit(tx, at)
  BY DEF Commit
<1>1. ASSUME NEW at, NEW t, CreateTenant(t, at) PROVE \E tx, z : Commit(tx, z)
  BY <1>1 DEF CreateTenant
<1>2. ASSUME NEW at, NEW s,
             CreateSchedule(s, at) \/ UpdateSchedule(s, at) \/ PauseSchedule(s, at)
               \/ CancelSchedule(s, at) \/ ResumeSchedule(s, at)
      PROVE  \E tx, z : Commit(tx, z)
  BY <1>2 DEF CreateSchedule, UpdateSchedule, PauseSchedule, CancelSchedule, ResumeSchedule
<1>3. ASSUME NEW at, NEW s, NEW e, ClaimExecution(s, e, at) PROVE \E tx, z : Commit(tx, z)
  BY <1>3 DEF ClaimExecution
<1>4. ASSUME NEW at, NEW e, NEW a,
             AdoptExecution(e, at) \/ RecordAttempt(e, a, at)
               \/ CompleteExecution(e, at) \/ FailExecutionTimeout(e, at)
      PROVE  \E tx, z : Commit(tx, z)
  BY <1>4 DEF AdoptExecution, RecordAttempt, CompleteExecution, FailExecutionTimeout
<1> QED
  BY <1>1, <1>2, <1>3, <1>4 DEF Next

(* tx shows no due instant that the log never offered. *)
ReadsOffered(tx) ==
    \A s \in ScheduleIDs :
        tx.schedules[s] # Nil /\ tx.schedules[s].nextRunAt # Nil
            => tx.schedules[s].nextRunAt \in offered[s]

(* A due instant, once offered, stays offered, and the database's are. *)
LEMMA OfferedGrows ==
    ASSUME TypeOK, ReadsOffered(db), [Next]_vars
    PROVE  /\ \A s \in ScheduleIDs : offered[s] \subseteq offered'[s]
           /\ ReadsOffered(db)'
<1>1. CASE UNCHANGED vars
  BY <1>1 DEF vars, ReadsOffered
<1>2. CASE offered' = [s \in ScheduleIDs |->
                IF db'.schedules[s] = Nil \/ db'.schedules[s].nextRunAt = Nil
                THEN offered[s]
                ELSE offered[s] \cup {db'.schedules[s].nextRunAt}]
  BY <1>2 DEF ReadsOffered
<1> QED
  BY <1>1, <1>2, OfferedStep

(* Only a schedule that exists was ever seen due. *)
OfferedExist == \A s \in ScheduleIDs : offered[s] # {} => db.schedules[s] # Nil

OwnershipInv == OwnedWhileInFlight /\ OfferedExist

LEMMA OwnershipInit == Init => OwnershipInv
BY DEF Init, EmptyDatabase, Executions, OwnedWhileInFlight, OfferedExist, OwnershipInv

LEMMA OwnershipStep == IInv /\ OwnershipInv /\ [Next]_vars => OwnershipInv'
<1> SUFFICES ASSUME IInv, OwnershipInv, [Next]_vars PROVE OwnershipInv'
  OBVIOUS
<1> USE DEF OwnershipInv
<1>0. /\ db.executions \in [ExecutionIDs -> Execution \cup {Nil}]
      /\ db.schedules \in [ScheduleIDs -> Schedule \cup {Nil}]
  BY DEF IInv, TypeOK, Database
<1>1. \A s \in ScheduleIDs : db.schedules[s] # Nil => db'.schedules[s] # Nil
  BY ScheduleStep DEF RowStep
<1>2. OfferedExist'
  <2>1. CASE UNCHANGED vars
    BY <2>1 DEF vars, OfferedExist
  <2>2. CASE offered' = [s \in ScheduleIDs |->
               IF db'.schedules[s] = Nil \/ db'.schedules[s].nextRunAt = Nil
               THEN offered[s]
               ELSE offered[s] \cup {db'.schedules[s].nextRunAt}]
    BY <1>1, <2>2 DEF OfferedExist
  <2> QED
    BY <2>1, <2>2, OfferedStep
<1>3. OwnedWhileInFlight'
  <2>0. \A e \in Executions(db) :
           /\ e \in ExecutionIDs
           /\ db.executions[e] \in Execution
           /\ db.executions[e].scheduleID \in ScheduleIDs
           /\ db.executions[e].ownerNodeID # Nil <=> db.executions[e].status = "in_flight"
           /\ db.schedules[db.executions[e].scheduleID] # Nil
           /\ db'.schedules[db.executions[e].scheduleID] # Nil
    BY <1>0, <1>1 DEF OwnedWhileInFlight, Executions, Execution
  <2>1. CASE LeavesExecutions
    BY <2>0, <2>1 DEF LeavesExecutions, OwnedWhileInFlight, Executions
  <2>2. ASSUME NEW e \in ExecutionIDs, NEW s \in ScheduleIDs, NEW t \in offered[s],
               Claims(e, s, t)
        PROVE  OwnedWhileInFlight'
    <3>1. PICK row \in Execution :
             /\ row.scheduleID = s /\ row.ownerNodeID # Nil /\ row.status = "in_flight"
             /\ db'.executions = [db.executions EXCEPT ![e] = row]
      BY <2>2 DEF Claims
    <3>2. db'.schedules[s] # Nil
      BY <1>1 DEF OfferedExist
    <3> QED
      BY <1>0, <2>0, <3>1, <3>2 DEF OwnedWhileInFlight, Executions
  <2>3. ASSUME NEW e \in ExecutionIDs, db.executions[e] # Nil,
               NEW row, db'.executions = [db.executions EXCEPT ![e] = row],
               row.scheduleID = db.executions[e].scheduleID,
               row.ownerNodeID # Nil <=> row.status = "in_flight"
        PROVE  OwnedWhileInFlight'
    <3>1. e \in Executions(db)
      BY <2>3 DEF Executions
    <3>2. \A f \in Executions(db)' :
             /\ f \in Executions(db)
             /\ db'.executions[f] = IF f = e THEN row ELSE db.executions[f]
      BY <1>0, <2>3 DEF Executions
    <3> QED
      BY <2>0, <2>3, <3>1, <3>2 DEF OwnedWhileInFlight
  <2>4. ASSUME NEW e \in ExecutionIDs, NEW n \in Nodes, Adopts(e, n)
        PROVE  OwnedWhileInFlight'
    <3> DEFINE row == [db.executions[e] EXCEPT !.ownerNodeID = n]
    <3>1. /\ db.executions[e] # Nil /\ db.executions[e].status = "in_flight"
          /\ db'.executions = [db.executions EXCEPT ![e] = row]
      BY <2>4 DEF Adopts
    <3>2. /\ row.scheduleID = db.executions[e].scheduleID
          /\ row.ownerNodeID # Nil /\ row.status = "in_flight"
      BY <1>0, <3>1, NilAssumption DEF Execution
    <3> QED
      BY <2>3, <3>1, <3>2
  <2>5. ASSUME NEW e \in ExecutionIDs, NEW a, NEW n \in Nodes, NEW new \in Attempt,
               Records(e, a, n, new)
        PROVE  OwnedWhileInFlight'
    <3> DEFINE row == [db.executions[e] EXCEPT !.attemptCount = new.attemptNumber,
                                               !.lastAttemptID = a,
                                               !.lastRetryAt = new.retryAt]
    <3>1. /\ db.executions[e] # Nil
          /\ db.executions[e].status = "in_flight" /\ db.executions[e].ownerNodeID = n
          /\ db'.executions = [db.executions EXCEPT ![e] = row]
      BY <2>5 DEF Records
    <3>2. /\ row.scheduleID = db.executions[e].scheduleID
          /\ row.ownerNodeID # Nil /\ row.status = "in_flight"
      BY <1>0, <3>1, NilAssumption DEF Execution
    <3> QED
      BY <2>3, <3>1, <3>2
  <2>6. ASSUME NEW e \in ExecutionIDs, NEW status \in TerminalStatuses, Finishes(e, status)
        PROVE  OwnedWhileInFlight'
    <3> DEFINE row == [db.executions[e] EXCEPT !.status = status, !.ownerNodeID = Nil]
    <3>1. /\ db.executions[e] # Nil
          /\ db'.executions = [db.executions EXCEPT ![e] = row]
      BY <2>6 DEF Finishes
    <3>2. /\ row.scheduleID = db.executions[e].scheduleID
          /\ row.ownerNodeID = Nil /\ row.status # "in_flight"
      BY <1>0, <3>1 DEF Execution, TerminalStatuses
    <3> QED
      BY <2>3, <3>1, <3>2
  <2> QED
    BY <2>1, <2>2, <2>4, <2>5, <2>6, StepEffect DEF Effect
<1> QED
  BY <1>2, <1>3

(* In any log an execution has an owner exactly while it is in flight, and its   *)
(* schedule's row is there to be written when it ends.                       *)
THEOREM InFlightIsOwned == Spec => []OwnedWhileInFlight
<1>1. OwnershipInv => OwnedWhileInFlight
  BY DEF OwnershipInv
<1> QED
  BY <1>1, OwnershipInit, OwnershipStep, TypeInvariant, PTL DEF Spec

-----------------------------------------------------------------------------
(* What may become of a schedule in one step. *)

(* The execution e of s ends in this step. *)
FinishesOf(s, e) ==
    /\ e \in ExecutionsOf(db, s)
    /\ \E status \in TerminalStatuses : Finishes(e, status)

SameConfig(s) ==
    /\ db.schedules[s] # Nil
    /\ db'.schedules[s] # Nil
    /\ db'.schedules[s].config = db.schedules[s].config

(* Nothing that matters here changes: no execution of s ends, or it is of a    *)
(* recurring schedule that is not active.                                    *)
KeepsRow(s) ==
    /\ db'.schedules[s] = Nil <=> db.schedules[s] = Nil
    /\ db.schedules[s] # Nil =>
         /\ SameConfig(s)
         /\ db'.schedules[s].status = db.schedules[s].status
         /\ db'.schedules[s].nextRunAt = db.schedules[s].nextRunAt
    /\ \A e : FinishesOf(s, e) =>
         /\ db.schedules[s].config.scheduleType = "recurring"
         /\ db.schedules[s].status # "active"

CreatesRow(s) ==
    /\ db.schedules[s] = Nil
    /\ db'.schedules[s] # Nil
    /\ db'.schedules[s].status = "active"
    /\ db'.schedules[s].nextRunAt = db'.schedules[s].config.firstRunAt

StopsRow(s) ==
    /\ SameConfig(s)
    /\ db.schedules[s].status \in {"active", "paused"}
    /\ db'.schedules[s].status \in {"paused", "canceled"}
    /\ db'.schedules[s].nextRunAt = Nil

ResumesRow(s) ==
    /\ SameConfig(s)
    /\ db.schedules[s].status = "paused"
    /\ db'.schedules[s].status = "active"
    /\ \E at \in ProposedTimes : db'.schedules[s].nextRunAt = ResumedNextRun(db, s, at)

MovesRow(s, e) ==
    LET cfg == db.schedules[s].config
    IN  /\ SameConfig(s)
        /\ cfg.scheduleType = "recurring"
        /\ db.schedules[s].status = "active"
        /\ db'.schedules[s].status = "active"
        /\ db'.schedules[s].nextRunAt =
              computeIntervalAfter(cfg.firstRunAt, cfg.seconds,
                                   db.executions[e].scheduledFor)

CompletesRow(s) ==
    /\ SameConfig(s)
    /\ db.schedules[s].config.scheduleType # "recurring"
    /\ db'.schedules[s].status = "completed"
    /\ db'.schedules[s].nextRunAt = Nil

RowFate(s) ==
    \/ KeepsRow(s)
    \/ /\ db'.executions = db.executions
       /\ CreatesRow(s) \/ StopsRow(s) \/ ResumesRow(s)
    \/ \E e : FinishesOf(s, e) /\ (MovesRow(s, e) \/ CompletesRow(s))

(* The end of an execution is seen in its row, and is the step's only one. *)
LEMMA FinishSeen ==
    ASSUME IInv, NEW e \in ExecutionIDs, NEW status \in TerminalStatuses,
           Finishes(e, status)
    PROVE  /\ e \in Executions(db) /\ db.executions[e] \in Execution
           /\ ~IsTerminal(db.executions[e].status)
           /\ IsTerminal(db'.executions[e].status)
           /\ \A f \in ExecutionIDs : f # e => db'.executions[f] = db.executions[f]
<1>1. db.executions \in [ExecutionIDs -> Execution \cup {Nil}]
  BY DEF IInv, TypeOK, Database
<1>2. db.executions[e] \in Execution /\ e \in Executions(db)
  BY <1>1 DEF Finishes, Executions
<1> DEFINE row == [db.executions[e] EXCEPT !.status = status, !.ownerNodeID = Nil]
<1>3. row.status = status
  BY <1>2 DEF Execution
<1>4. db'.executions = [db.executions EXCEPT ![e] = row]
  BY DEF Finishes
<1> HIDE DEF row
<1> QED
  BY <1>1, <1>2, <1>3, <1>4 DEF Finishes, IsTerminal

LEMMA FinishesOfOne ==
    ASSUME IInv, NEW s, NEW e, NEW f, FinishesOf(s, e), FinishesOf(s, f)
    PROVE  e = f
<1>1. e \in ExecutionIDs /\ f \in ExecutionIDs
  BY DEF FinishesOf, ExecutionsOf, Executions
<1> QED
  BY <1>1, FinishSeen DEF FinishesOf

LEMMA FateStep ==
    ASSUME IInv, [Next]_vars, NEW s \in ScheduleIDs
    PROVE  RowFate(s)
<1>0. /\ db.schedules \in [ScheduleIDs -> Schedule \cup {Nil}]
      /\ db.executions \in [ExecutionIDs -> Execution \cup {Nil}]
      /\ Nil \notin Schedule
  BY NilAssumption DEF IInv, TypeOK, Database
<1>a. ASSUME NEW e, FinishesOf(s, e)
      PROVE  /\ e \in Executions(db) /\ e \in ExecutionIDs
             /\ db'.executions[e].status # db.executions[e].status
  <2>1. e \in ExecutionIDs
    BY <1>a DEF FinishesOf, ExecutionsOf, Executions
  <2> QED
    BY <1>a, <2>1, FinishSeen DEF FinishesOf
<1>b. ASSUME db'.schedules = db.schedules,
             \A e \in Executions(db) : db'.executions[e].status = db.executions[e].status
      PROVE  KeepsRow(s)
  BY <1>a, <1>b DEF KeepsRow, SameConfig
<1>1. ASSUME NEW z \in ScheduleIDs, NEW row \in Schedule, Rewrites(z, row),
             db'.executions = db.executions
      PROVE  RowFate(s)
  <2>1. /\ db'.schedules[z] = row /\ row # Nil
        /\ \A y \in ScheduleIDs : y # z => db'.schedules[y] = db.schedules[y]
    BY <1>0, <1>1 DEF Rewrites
  <2>2. \A e : ~FinishesOf(s, e)
    BY <1>1, <1>a
  <2>3. CASE s # z
    BY <2>1, <2>2, <2>3 DEF RowFate, KeepsRow, SameConfig
  <2>4. CASE s = z
    <3>1. CASE db.schedules[s] = Nil
      BY <1>1, <2>1, <2>4, <3>1 DEF Rewrites, RowFate, CreatesRow
    <3>2. CASE db.schedules[s] # Nil
      <4>1. SameConfig(s)
        BY <1>1, <2>1, <2>4, <3>2 DEF Rewrites, SameConfig
      <4>2. CASE row.status = db.schedules[s].status /\ row.nextRunAt = db.schedules[s].nextRunAt
        BY <2>1, <2>2, <2>4, <3>2, <4>1, <4>2 DEF RowFate, KeepsRow
      <4>3. CASE /\ db.schedules[s].status \in {"active", "paused"}
                 /\ row.status \in {"paused", "canceled"}
                 /\ row.nextRunAt = Nil
        BY <1>1, <2>1, <2>4, <4>1, <4>3 DEF RowFate, StopsRow
      <4>4. CASE /\ db.schedules[s].status = "paused" /\ row.status = "active"
                 /\ \E at \in ProposedTimes : row.nextRunAt = ResumedNextRun(db, s, at)
        BY <1>1, <2>1, <2>4, <4>1, <4>4 DEF RowFate, ResumesRow
      <4> QED
        BY <1>1, <2>4, <3>2, <4>2, <4>3, <4>4 DEF Rewrites
    <3> QED
      BY <3>1, <3>2
  <2> QED
    BY <2>3, <2>4
<1>2. CASE LeavesExecutions
  <2>1. CASE db'.schedules = db.schedules
    BY <1>2, <1>b, <2>1 DEF LeavesExecutions, RowFate
  <2> QED
    BY <1>1, <1>2, <2>1 DEF LeavesExecutions
<1>3. ASSUME NEW e \in ExecutionIDs, NEW z, NEW t, Claims(e, z, t) PROVE RowFate(s)
  <2>1. \A f \in Executions(db) : db'.executions[f].status = db.executions[f].status
    BY <1>0, <1>3 DEF Claims, Executions
  <2> QED
    BY <1>3, <1>b, <2>1 DEF Claims, RowFate
<1>4. ASSUME NEW e \in ExecutionIDs, NEW n \in Nodes, Adopts(e, n) PROVE RowFate(s)
  <2> DEFINE row == [db.executions[e] EXCEPT !.ownerNodeID = n]
  <2>1. db.executions[e] \in Execution
    BY <1>0, <1>4 DEF Adopts
  <2>2. row.status = db.executions[e].status /\ db'.executions = [db.executions EXCEPT ![e] = row]
    BY <1>4, <2>1 DEF Adopts, Execution
  <2> HIDE DEF row
  <2>3. \A f \in Executions(db) : db'.executions[f].status = db.executions[f].status
    BY <1>0, <2>2 DEF Executions
  <2> QED
    BY <1>4, <1>b, <2>3 DEF Adopts, RowFate
<1>5. ASSUME NEW e \in ExecutionIDs, NEW a \in AttemptIDs, NEW n \in Nodes,
             NEW new \in Attempt, Records(e, a, n, new)
      PROVE  RowFate(s)
  <2> DEFINE row == [db.executions[e] EXCEPT !.attemptCount = new.attemptNumber,
                                             !.lastAttemptID = a,
                                             !.lastRetryAt = new.retryAt]
  <2>1. db.executions[e] \in Execution
    BY <1>0, <1>5 DEF Records
  <2>2. row.status = db.executions[e].status /\ db'.executions = [db.executions EXCEPT ![e] = row]
    BY <1>5, <2>1 DEF Records, Execution
  <2> HIDE DEF row
  <2>3. \A f \in Executions(db) : db'.executions[f].status = db.executions[f].status
    BY <1>0, <2>2 DEF Executions
  <2> QED
    BY <1>5, <1>b, <2>3 DEF Records, RowFate
<1>6. ASSUME NEW e \in ExecutionIDs, NEW status \in TerminalStatuses, Finishes(e, status)
      PROVE  RowFate(s)
  <2> DEFINE z == db.executions[e].scheduleID
             old == db.schedules[z]
             after == AfterExecution(old, db.executions[e].scheduledFor)
  <2>0. e \in Executions(db) /\ db.executions[e] \in Execution
    BY <1>6, FinishSeen
  <2>9. db.schedules[z] # Nil
    BY <1>6 DEF Finishes
  <2>1. /\ e \in Executions(db) /\ db.executions[e] \in Execution
        /\ z \in ScheduleIDs /\ old \in Schedule /\ old # Nil
    BY <1>0, <2>0, <2>9 DEF Execution
  <2>2. db'.schedules = [db.schedules EXCEPT ![z] = after]
    BY <1>6 DEF Finishes
  <2>3. after \in Schedule /\ after # Nil /\ after.config = old.config
    BY <1>0, <2>1, AfterExecutionType DEF Execution
  <2>5. \/ /\ old.config.scheduleType # "recurring"
           /\ after.status = "completed" /\ after.nextRunAt = Nil
        \/ /\ old.config.scheduleType = "recurring" /\ old.status # "active"
           /\ after = old
        \/ /\ old.config.scheduleType = "recurring" /\ old.status = "active"
           /\ after.status = "active"
           /\ after.nextRunAt = computeIntervalAfter(old.config.firstRunAt, old.config.seconds,
                                                     db.executions[e].scheduledFor)
    BY <2>1 DEF AfterExecution, Schedule
  <2> HIDE DEF after
  <2>6. CASE s # z
    <3>1. db'.schedules[s] = db.schedules[s]
      BY <1>0, <2>2, <2>6
    <3>2. \A f : ~FinishesOf(s, f)
      BY <1>6, <1>a, <2>6, FinishSeen DEF FinishesOf, ExecutionsOf
    <3> QED
      BY <3>1, <3>2 DEF RowFate, KeepsRow, SameConfig
  <2>7. CASE s = z
    <3>1. FinishesOf(s, e)
      BY <1>6, <2>1, <2>7 DEF FinishesOf, ExecutionsOf
    <3>2. db'.schedules[s] = after
      BY <1>0, <2>1, <2>2, <2>7
    <3>3. SameConfig(s)
      BY <2>1, <2>3, <2>7, <3>2 DEF SameConfig
    <3>4. CASE old.config.scheduleType # "recurring"
      BY <2>5, <2>7, <3>1, <3>2, <3>3, <3>4 DEF RowFate, CompletesRow
    <3>5. CASE old.config.scheduleType = "recurring" /\ old.status # "active"
      BY <2>1, <2>5, <2>7, <3>2, <3>3, <3>5 DEF RowFate, KeepsRow
    <3>6. CASE old.config.scheduleType = "recurring" /\ old.status = "active"
      BY <2>5, <2>7, <3>1, <3>2, <3>3, <3>6 DEF RowFate, MovesRow
    <3> QED
      BY <2>1, <3>4, <3>5, <3>6
  <2> QED
    BY <2>6, <2>7
<1> QED
  BY <1>2, <1>3, <1>4, <1>5, <1>6, StepEffect DEF Effect

(* A canceled or completed schedule has stopped for good, whatever the log holds  *)
(* after that: the late end of one of its executions included.               *)
THEOREM StoppedStaysStopped == Spec => StoppedForGood
<1> DEFINE Stopped == \A s \in ScheduleIDs :
                        db.schedules[s] # Nil =>
                           (db.schedules[s].status \in {"canceled", "completed"} =>
                               /\ db'.schedules[s].status \in {"canceled", "completed"}
                               /\ db'.schedules[s].nextRunAt = Nil)
<1>1. IInv /\ DueWhileActive /\ [Next]_vars => Stopped
  <2> SUFFICES ASSUME IInv, DueWhileActive, [Next]_vars, NEW s \in ScheduleIDs,
                      db.schedules[s] # Nil,
                      db.schedules[s].status \in {"canceled", "completed"}
               PROVE  /\ db'.schedules[s].status \in {"canceled", "completed"}
                      /\ db'.schedules[s].nextRunAt = Nil
    OBVIOUS
  <2>1. db.schedules[s].nextRunAt = Nil
    BY DEF DueWhileActive
  <2> QED
    BY <2>1, FateStep DEF RowFate, KeepsRow, CreatesRow, StopsRow, ResumesRow, MovesRow,
                          CompletesRow
<1> QED
  BY <1>1, TypeInvariant, ActiveIsDue, PTL DEF Spec, StoppedForGood

-----------------------------------------------------------------------------
(* Attempts. *)

(* An attempt's execution exists. *)
AttemptsHaveExecution ==
    \A a \in Attempts(db) : db.attempts[a].executionID \in Executions(db)

(* The attempt rows in A are numbered 1..n, and the last one is last. *)
Summarises(rows, A, n, last, retryAt) ==
    /\ {rows[a].attemptNumber : a \in A} = 1..n
    /\ \A a, b \in A : rows[a].attemptNumber = rows[b].attemptNumber => a = b
    /\ n = 0 => last = Nil /\ retryAt = Nil
    /\ n > 0 => /\ last \in A
                /\ rows[last].attemptNumber = n
                /\ rows[last].retryAt = retryAt

LEMMA AttemptsMatchSummaryAlt ==
    AttemptsMatchSummary <=>
        \A e \in Executions(db) :
            Summarises(db.attempts, AttemptsOf(e), db.executions[e].attemptCount,
                       db.executions[e].lastAttemptID, db.executions[e].lastRetryAt)
BY Zenon DEF AttemptsMatchSummary, Summarises

(* One more attempt, numbered n + 1, keeps the numbering without gaps. *)
LEMMA SummaryGrows ==
    ASSUME NEW rows, NEW A, NEW n \in Nat, NEW last, NEW retryAt,
           Summarises(rows, A, n, last, retryAt),
           NEW more, NEW a, a \notin A,
           \A b \in A : more[b] = rows[b],
           more[a].attemptNumber = n + 1
    PROVE  Summarises(more, A \cup {a}, n + 1, a, more[a].retryAt)
<1>1. {more[b].attemptNumber : b \in A \cup {a}} = 1..(n + 1)
  <2>1. {more[b].attemptNumber : b \in A} = 1..n
    BY DEF Summarises
  <2>2. {more[b].attemptNumber : b \in A \cup {a}}
          = {more[b].attemptNumber : b \in A} \cup {n + 1}
    OBVIOUS
  <2>3. 1..(n + 1) = (1..n) \cup {n + 1}
    OBVIOUS
  <2> QED
    BY <2>1, <2>2, <2>3
<1>2. \A b \in A : more[b].attemptNumber \in 1..n
  BY DEF Summarises
<1>3. \A b \in A : more[b].attemptNumber # n + 1
  BY <1>2
<1>4. \A b, c \in A \cup {a} : more[b].attemptNumber = more[c].attemptNumber => b = c
  BY <1>3 DEF Summarises
<1> QED
  BY <1>1, <1>4 DEF Summarises

(* In any log the rows of an execution's attempts are numbered without gap or     *)
(* repetition, and the execution's own row sums up the last of them.          *)
THEOREM SummaryIsExact == Spec => []AttemptsMatchSummary
<1> DEFINE Inv == AttemptsMatchSummary /\ AttemptsHaveExecution
           Sum(e) == Summarises(db.attempts, AttemptsOf(e), db.executions[e].attemptCount,
                                db.executions[e].lastAttemptID, db.executions[e].lastRetryAt)
<1>1. Init => Inv
  BY DEF Init, EmptyDatabase, Executions, Attempts, AttemptsMatchSummary, AttemptsHaveExecution
<1>2. IInv /\ Inv /\ [Next]_vars => Inv'
  <2> SUFFICES ASSUME IInv, Inv, [Next]_vars PROVE Inv'
    OBVIOUS
  <2>0. /\ db.executions \in [ExecutionIDs -> Execution \cup {Nil}]
        /\ db.attempts \in [AttemptIDs -> Attempt \cup {Nil}]
        /\ \A e \in Executions(db) : Sum(e)
    BY AttemptsMatchSummaryAlt DEF IInv, TypeOK, Database
  <2>1. SUFFICES AttemptsHaveExecution' /\ \A e \in Executions(db)' : Sum(e)'
    <3>1. AttemptsMatchSummary' <=> \A e \in Executions(db)' : Sum(e)'
      BY Zenon DEF AttemptsMatchSummary, Summarises
    <3> QED
      BY <2>1, <3>1
  <2> HIDE DEF Sum
  <2>2. ASSUME db'.attempts = db.attempts,
               \A e \in Executions(db) : e \in Executions(db)',
               \A e \in Executions(db)' :
                  \/ /\ e \in Executions(db)
                     /\ db'.executions[e].attemptCount = db.executions[e].attemptCount
                     /\ db'.executions[e].lastAttemptID = db.executions[e].lastAttemptID
                     /\ db'.executions[e].lastRetryAt = db.executions[e].lastRetryAt
                  \/ /\ e \notin Executions(db)
                     /\ db'.executions[e].attemptCount = 0
                     /\ db'.executions[e].lastAttemptID = Nil
                     /\ db'.executions[e].lastRetryAt = Nil
        PROVE  AttemptsHaveExecution' /\ \A e \in Executions(db)' : Sum(e)'
    <3>1. AttemptsHaveExecution'
      BY <2>2 DEF AttemptsHaveExecution, Attempts
    <3>2. \A e \in Executions(db)' : AttemptsOf(e)' = AttemptsOf(e)
      BY <2>2 DEF AttemptsOf, Attempts
    <3>3. ASSUME NEW e \in Executions(db)', e \in Executions(db)
          PROVE  Sum(e)'
      BY <2>0, <2>2, <3>2, <3>3 DEF Sum
    <3>4. ASSUME NEW e \in Executions(db)', e \notin Executions(db)
          PROVE  Sum(e)'
      <4>1. AttemptsOf(e)' = {}
        BY <3>2, <3>4 DEF AttemptsOf, AttemptsHaveExecution
      <4> QED
        BY <2>2, <3>4, <4>1 DEF Sum, Summarises
    <3> QED
      BY <3>1, <3>3, <3>4
  <2>3. CASE LeavesExecutions
    BY <2>2, <2>3 DEF LeavesExecutions, Executions
  <2>4. ASSUME NEW e \in ExecutionIDs, NEW s, NEW t, Claims(e, s, t)
        PROVE  AttemptsHaveExecution' /\ \A f \in Executions(db)' : Sum(f)'
    <3>1. PICK row \in Execution :
             /\ row.attemptCount = 0 /\ row.lastAttemptID = Nil /\ row.lastRetryAt = Nil
             /\ db'.executions = [db.executions EXCEPT ![e] = row]
      BY <2>4 DEF Claims
    <3>2. db.executions[e] = Nil /\ db'.attempts = db.attempts
      BY <2>4 DEF Claims
    <3> QED
      BY <2>0, <2>2, <3>1, <3>2, NilAssumption DEF Executions
  <2>5. ASSUME NEW e \in ExecutionIDs, db.executions[e] # Nil,
               NEW row \in Execution, db'.executions = [db.executions EXCEPT ![e] = row],
               db'.attempts = db.attempts,
               row.attemptCount = db.executions[e].attemptCount,
               row.lastAttemptID = db.executions[e].lastAttemptID,
               row.lastRetryAt = db.executions[e].lastRetryAt
        PROVE  AttemptsHaveExecution' /\ \A f \in Executions(db)' : Sum(f)'
    BY <2>0, <2>2, <2>5, NilAssumption DEF Executions
  <2>6. ASSUME NEW e \in ExecutionIDs, NEW n \in Nodes, Adopts(e, n)
        PROVE  AttemptsHaveExecution' /\ \A f \in Executions(db)' : Sum(f)'
    <3> DEFINE row == [db.executions[e] EXCEPT !.ownerNodeID = n]
    <3>1. /\ db.executions[e] # Nil /\ db'.attempts = db.attempts
          /\ db'.executions = [db.executions EXCEPT ![e] = row]
      BY <2>6 DEF Adopts
    <3>2. /\ row \in Execution
          /\ row.attemptCount = db.executions[e].attemptCount
          /\ row.lastAttemptID = db.executions[e].lastAttemptID
          /\ row.lastRetryAt = db.executions[e].lastRetryAt
      BY <2>0, <3>1 DEF Execution
    <3> HIDE DEF row
    <3> QED
      BY <2>5, <3>1, <3>2
  <2>7. ASSUME NEW e \in ExecutionIDs, NEW status \in TerminalStatuses, Finishes(e, status)
        PROVE  AttemptsHaveExecution' /\ \A f \in Executions(db)' : Sum(f)'
    <3> DEFINE row == [db.executions[e] EXCEPT !.status = status, !.ownerNodeID = Nil]
    <3>1. /\ db.executions[e] # Nil /\ db'.attempts = db.attempts
          /\ db'.executions = [db.executions EXCEPT ![e] = row]
      BY <2>7 DEF Finishes
    <3>2. /\ row \in Execution
          /\ row.attemptCount = db.executions[e].attemptCount
          /\ row.lastAttemptID = db.executions[e].lastAttemptID
          /\ row.lastRetryAt = db.executions[e].lastRetryAt
      BY <2>0, <3>1 DEF Execution
    <3> HIDE DEF row
    <3> QED
      BY <2>5, <3>1, <3>2
  <2>8. ASSUME NEW e \in ExecutionIDs, NEW a \in AttemptIDs, NEW n \in Nodes,
               NEW new \in Attempt, Records(e, a, n, new)
        PROVE  AttemptsHaveExecution' /\ \A f \in Executions(db)' : Sum(f)'
    <3> DEFINE row == [db.executions[e] EXCEPT !.attemptCount = new.attemptNumber,
                                               !.lastAttemptID = a,
                                               !.lastRetryAt = new.retryAt]
    <3>1. /\ e \in Executions(db)
          /\ db.attempts[a] = Nil /\ new # Nil
          /\ new.executionID = e /\ new.attemptNumber = db.executions[e].attemptCount + 1
          /\ db'.executions = [db.executions EXCEPT ![e] = row]
          /\ db'.attempts = [db.attempts EXCEPT ![a] = new]
      BY <2>8, NilAssumption DEF Records, Executions
    <3>2. /\ row # Nil
          /\ row.attemptCount = new.attemptNumber
          /\ row.lastAttemptID = a /\ row.lastRetryAt = new.retryAt
          /\ db.executions[e].attemptCount \in Nat
      <4>1. db.executions[e] \in Execution
        BY <2>0, <3>1 DEF Executions
      <4>2. row \in Execution
        BY <4>1 DEF Execution, Attempt
      <4> QED
        BY <4>1, <4>2, NilAssumption DEF Execution
    <3> HIDE DEF row
    <3>3. Executions(db)' = Executions(db)
      BY <2>0, <3>1, <3>2 DEF Executions
    <3>4. Attempts(db)' = Attempts(db) \cup {a} /\ a \notin Attempts(db)
      BY <2>0, <3>1 DEF Attempts
    <3>5. AttemptsHaveExecution'
      BY <2>0, <3>1, <3>3, <3>4 DEF AttemptsHaveExecution, Attempts
    <3>6. /\ AttemptsOf(e)' = AttemptsOf(e) \cup {a} /\ a \notin AttemptsOf(e)
          /\ \A b \in AttemptsOf(e) : db'.attempts[b] = db.attempts[b]
      BY <2>0, <3>1, <3>4 DEF AttemptsOf, Attempts
    <3>7. Sum(e)'
      <4> DEFINE old == db.executions[e]
      <4>1. Summarises(db.attempts, AttemptsOf(e), old.attemptCount,
                       old.lastAttemptID, old.lastRetryAt)
        BY <2>0, <3>1 DEF Sum
      <4>2. db'.attempts[a] = new
        BY <2>0, <3>1
      <4>3. Summarises(db'.attempts, AttemptsOf(e) \cup {a}, old.attemptCount + 1,
                       a, db'.attempts[a].retryAt)
        <5>1. old.attemptCount \in Nat
          BY <3>2
        <5>2. db'.attempts[a].attemptNumber = old.attemptCount + 1
          BY <3>1, <4>2
        <5>3. /\ a \notin AttemptsOf(e)
              /\ \A b \in AttemptsOf(e) : db'.attempts[b] = db.attempts[b]
          BY <3>6
        <5> HIDE DEF old
        <5> QED
          BY <4>1, <5>1, <5>2, <5>3, SummaryGrows, Zenon
      <4>4. db'.executions[e] = row
        BY <2>0, <3>1
      <4> QED
        BY <3>1, <3>2, <3>6, <4>2, <4>3, <4>4 DEF Sum
    <3>8. ASSUME NEW f \in Executions(db), f # e PROVE Sum(f)'
      <4>1. AttemptsOf(f)' = AttemptsOf(f) /\ a \notin AttemptsOf(f)
              /\ \A b \in AttemptsOf(f) : db'.attempts[b] = db.attempts[b]
        BY <2>0, <3>1, <3>4, <3>8 DEF AttemptsOf, Attempts
      <4>2. db'.executions[f] = db.executions[f]
        BY <2>0, <3>1, <3>8 DEF Executions
      <4> QED
        BY <2>0, <3>8, <4>1, <4>2 DEF Sum, Summarises
    <3> QED
      BY <3>3, <3>5, <3>7, <3>8
  <2> QED
    BY <2>3, <2>4, <2>6, <2>7, <2>8, StepEffect DEF Effect
<1> QED
  BY <1>1, <1>2, TypeInvariant, PTL DEF Spec

-----------------------------------------------------------------------------
(* Occurrences. *)

(* What readers may have seen of s after this step. *)
LEMMA OfferedAfter ==
    ASSUME ReadsOffered(db), [Next]_vars, NEW s \in ScheduleIDs, NEW t \in offered'[s]
    PROVE  \/ t \in offered[s]
           \/ db'.schedules[s] # Nil /\ t = db'.schedules[s].nextRunAt /\ t # Nil
<1>1. CASE UNCHANGED vars
  BY <1>1 DEF vars
<1>2. CASE offered' = [z \in ScheduleIDs |->
                IF db'.schedules[z] = Nil \/ db'.schedules[z].nextRunAt = Nil
                THEN offered[z]
                ELSE offered[z] \cup {db'.schedules[z].nextRunAt}]
  BY <1>2
<1> QED
  BY <1>1, <1>2, OfferedStep

(* An occurrence stays one: a schedule keeps its configuration. *)
LEMMA SameOccurrences ==
    ASSUME NEW s, SameConfig(s)
    PROVE  \A t : Occurrence(s, t)' <=> Occurrence(s, t)
BY DEF SameConfig, Occurrence

(* The configuration of an existing schedule is never changed. *)
LEMMA ConfigStays ==
    ASSUME IInv, [Next]_vars, NEW s \in ScheduleIDs, db.schedules[s] # Nil
    PROVE  SameConfig(s)
BY FateStep DEF RowFate, KeepsRow, CreatesRow, StopsRow, ResumesRow, MovesRow, CompletesRow

LEMMA ConfigType ==
    ASSUME IInv, NEW s \in ScheduleIDs, db.schedules[s] # Nil
    PROVE  LET cfg == db.schedules[s].config
           IN  /\ cfg.firstRunAt \in Nat
               /\ HasOccurrences(s) /\ cfg.scheduleType # "once"
                     => cfg.seconds \in Nat \ {0}
               /\ cfg.scheduleType \in ScheduleTypes
               /\ cfg.catchUpPolicy \in AnyPolicy
<1>1. db.schedules[s].config \in {cfg \in ScheduleConfig : HasInterval(cfg)}
  BY DEF IInv, TypeOK, Database, Schedule
<1> QED
  BY <1>1 DEF ScheduleConfig, HasInterval, HasOccurrences

(* The grid has no negative instants. *)
LEMMA GridIsNat ==
    ASSUME NEW t \in Int, NEW firstRunAt, NEW seconds, OnGrid(firstRunAt, seconds, t)
    PROVE  t \in Nat
BY DEF OnGrid

(* A resumed schedule is due at an occurrence, if it is due at all. *)
LEMMA ResumedAtOccurrence ==
    ASSUME IInv, NEW s \in ScheduleIDs, HasOccurrences(s), NEW at \in Nat
    PROVE  \/ ResumedNextRun(db, s, at) = Nil
           \/ Occurrence(s, ResumedNextRun(db, s, at))
<1> DEFINE cfg == db.schedules[s].config
           anchor == findMostRecentTerminalExecution(db, s)
           latest == computeIntervalLatestOnOrBefore(cfg.firstRunAt, cfg.seconds, at, Nil)
           grid(t) == t \in Nat /\ OnGrid(cfg.firstRunAt, cfg.seconds, t)
<1>1. /\ cfg.firstRunAt \in Nat
      /\ cfg.scheduleType # "once" => cfg.seconds \in Nat \ {0}
  BY ConfigType DEF HasOccurrences
<1>2. anchor \in Int \cup {Nil}
  BY MostRecentIsLatest DEF IInv, TypeOK
<1>8. Occurrence(s, ResumedNextRun(db, s, at)) <=>
        IF cfg.scheduleType = "once" THEN ResumedNextRun(db, s, at) = cfg.firstRunAt
        ELSE OnGrid(cfg.firstRunAt, cfg.seconds, ResumedNextRun(db, s, at))
  BY DEF Occurrence
<1>9. CASE cfg.scheduleType = "once"
  BY <1>8, <1>9 DEF ResumedNextRun
<1>10. CASE cfg.scheduleType # "once"
  <2>0. cfg.seconds \in Nat \ {0}
    BY <1>1, <1>10
  <2>3. latest = Nil \/ grid(latest)
    BY <1>1, <2>0, LatestOnGrid
  <2>4. grid(computeIntervalAfter(cfg.firstRunAt, cfg.seconds, at))
    <3>1. at \in Int
      OBVIOUS
    <3> QED
      BY <1>1, <2>0, <3>1, AfterOnGrid
  <2>5. anchor # Nil => grid(computeIntervalAfter(cfg.firstRunAt, cfg.seconds, anchor))
    BY <1>1, <1>2, <2>0, AfterOnGrid
  <2>6. /\ computeIntervalOnOrAfter(cfg.firstRunAt, cfg.seconds, cfg.firstRunAt) = cfg.firstRunAt
        /\ grid(cfg.firstRunAt)
    BY <1>1, <2>0, OnOrAfterFirst, GridStart
  <2>7. ResumedNextRun(db, s, at) =
        CASE cfg.scheduleType = "once" -> cfg.firstRunAt
          [] cfg.scheduleType # "once" /\ cfg.catchUpPolicy = "catch_up_all" ->
                IF anchor = Nil
                THEN computeIntervalOnOrAfter(cfg.firstRunAt, cfg.seconds,
                                              cfg.firstRunAt)
                ELSE computeIntervalAfter(cfg.firstRunAt, cfg.seconds, anchor)
          [] cfg.scheduleType # "once"
                /\ cfg.catchUpPolicy = "catch_up_latest_only" ->
                IF latest = Nil THEN cfg.firstRunAt ELSE latest
          [] cfg.scheduleType # "once" /\ cfg.catchUpPolicy = "skip_missed" ->
                computeIntervalAfter(cfg.firstRunAt, cfg.seconds, at)
          [] cfg.scheduleType # "once" /\ cfg.catchUpPolicy \notin CatchUpPolicies ->
                Nil
    BY DEF ResumedNextRun, anchor, latest
  <2> HIDE DEF anchor, latest, cfg
  <2> QED
    BY <1>8, <1>10, <2>3, <2>4, <2>5, <2>6, <2>7 DEF CatchUpPolicies
<1> QED
  BY <1>9, <1>10

(* Every due instant of the database was offered, and is an occurrence. *)
DueInv == OnlyOccurrencesRun /\ ReadsOffered(db)

LEMMA DueStep == IInv /\ DueInv /\ [Next]_vars => DueInv'
<1> SUFFICES ASSUME IInv, DueInv, [Next]_vars PROVE DueInv'
  OBVIOUS
<1> USE DEF DueInv
<1>1. ReadsOffered(db)' /\ \A s \in ScheduleIDs : offered[s] \subseteq offered'[s]
  BY OfferedGrows DEF IInv
<1>2. ASSUME NEW s \in ScheduleIDs, NEW t \in offered'[s]
      PROVE  db'.schedules[s] # Nil /\ (HasOccurrences(s)' => Occurrence(s, t)')
  <2>0. SameConfig(s) /\ HasOccurrences(s)' => HasOccurrences(s)
    BY DEF SameConfig, HasOccurrences
  <2>1. CASE t \in offered[s]
    <3>1. db.schedules[s] # Nil /\ (HasOccurrences(s) => Occurrence(s, t))
      BY <2>1 DEF OnlyOccurrencesRun
    <3>2. SameConfig(s)
      BY <3>1, ConfigStays
    <3> QED
      BY <2>0, <3>1, <3>2, SameOccurrences DEF SameConfig
  <2>2. CASE t \notin offered[s]
    <3>1. db'.schedules[s] # Nil /\ t = db'.schedules[s].nextRunAt /\ t # Nil
      BY <1>2, <2>2, OfferedAfter
    <3>2. CASE KeepsRow(s)
      BY <2>2, <3>1, <3>2 DEF KeepsRow, ReadsOffered
    <3>3. ASSUME CreatesRow(s), HasOccurrences(s)' PROVE Occurrence(s, t)'
      <4> DEFINE cfg == db'.schedules[s].config
      <4>1. IInv'
        BY TypeStep
      <4>2. cfg \in ScheduleConfig
        BY <3>1, <4>1 DEF IInv, TypeOK, Database, Schedule
      <4>3. cfg.scheduleType # "once" => cfg.seconds > 0
        BY <3>3 DEF HasOccurrences
      <4>4. HasInterval(cfg)
        BY <3>1, <4>1 DEF IInv, TypeOK, Database, Schedule
      <4>5. cfg.firstRunAt \in Nat /\ (cfg.scheduleType # "once" => cfg.seconds \in Nat \ {0})
        BY <4>2, <4>3, <4>4 DEF ScheduleConfig, HasInterval
      <4>6. t = cfg.firstRunAt
        BY <3>1, <3>3 DEF CreatesRow
      <4>7. cfg.scheduleType # "once" => OnGrid(cfg.firstRunAt, cfg.seconds, t)
        BY <4>5, <4>6, GridStart
      <4> QED
        BY <4>6, <4>7 DEF Occurrence
    <3>4. ASSUME ResumesRow(s), HasOccurrences(s)' PROVE Occurrence(s, t)'
      <4>0. HasOccurrences(s)
        BY <2>0, <3>4 DEF ResumesRow
      <4>1. \A at \in ProposedTimes : \/ ResumedNextRun(db, s, at) = Nil
                                     \/ Occurrence(s, ResumedNextRun(db, s, at))
        BY <4>0, ResumedAtOccurrence, InputAssumption
      <4>2. Occurrence(s, t)
        BY <3>1, <3>4, <4>1 DEF ResumesRow
      <4> QED
        BY <3>1, <3>4, <4>2, SameOccurrences DEF ResumesRow
    <3>5. ASSUME NEW e, FinishesOf(s, e), MovesRow(s, e), HasOccurrences(s)'
          PROVE  Occurrence(s, t)'
      <4>0. HasOccurrences(s)
        BY <2>0, <3>5 DEF MovesRow
      <4>1. db.executions[e].scheduledFor \in Int
        BY <3>5, FinishSeen DEF FinishesOf, ExecutionsOf, Executions, Execution
      <4>2. db.schedules[s] # Nil /\ db.schedules[s].config.scheduleType = "recurring"
        BY <3>5 DEF MovesRow, SameConfig
      <4>5. /\ db.schedules[s].config.firstRunAt \in Nat
            /\ db.schedules[s].config.seconds \in Nat \ {0}
        BY <4>0, <4>2, ConfigType
      <4>6. t = computeIntervalAfter(db.schedules[s].config.firstRunAt,
                                     db.schedules[s].config.seconds,
                                     db.executions[e].scheduledFor)
        BY <3>1, <3>5 DEF MovesRow
      <4>3. OnGrid(db.schedules[s].config.firstRunAt, db.schedules[s].config.seconds, t)
        BY <4>1, <4>5, <4>6, AfterOnGrid
      <4>4. Occurrence(s, t)
        BY <3>5, <4>3 DEF MovesRow, Occurrence
      <4> QED
        BY <3>5, <4>4, SameOccurrences DEF MovesRow
    <3>6. RowFate(s)
      BY FateStep
    <3> QED
      BY <3>1, <3>2, <3>3, <3>4, <3>5, <3>6 DEF RowFate, StopsRow, CompletesRow
  <2> QED
    BY <2>1, <2>2
<1>3. ASSUME NEW e \in Executions(db')
      PROVE  db'.executions[e].scheduledFor \in offered'[db'.executions[e].scheduleID]
  <2>1. CASE e \in Executions(db)
    <3>1. Kept(e)
      BY <2>1, ExecutionStep
    <3>2. db.executions[e].scheduledFor \in offered[db.executions[e].scheduleID]
      BY <2>1 DEF OnlyOccurrencesRun
    <3>3. db.executions[e].scheduleID \in ScheduleIDs
      BY <2>1 DEF IInv, TypeOK, Database, Executions, Execution
    <3> QED
      BY <1>1, <3>1, <3>2, <3>3 DEF Kept
  <2>2. CASE e \notin Executions(db)
    <3>1. New(e)
      BY <1>3, <2>2, ExecutionStep
    <3> QED
      BY <1>1, <3>1 DEF New
  <2> QED
    BY <2>1, <2>2
<1> QED
  BY <1>1, <1>2, <1>3 DEF OnlyOccurrencesRun, Executions

LEMMA DueInit == Init => DueInv
BY DEF Init, EmptyDatabase, Executions, OnlyOccurrencesRun, ReadsOffered, DueInv

LEMMA DueInvariant == Spec => []DueInv
BY DueInit, DueStep, TypeInvariant, PTL DEF Spec

(* In any log a schedule is only ever due at, and executed for, instants of its   *)
(* own recurrence.                                                           *)
THEOREM RunsAreOccurrences == Spec => []OnlyOccurrencesRun
BY DueInvariant, PTL DEF DueInv

(* An occurrence that has ended has ended for good, and one ends only when its    *)
(* execution does.                                                           *)
LEMMA EndedStep ==
    ASSUME IInv, [Next]_vars, NEW s, NEW t
    PROVE  /\ Ended(s, t) => Ended(s, t)'
           /\ Ended(s, t)' => \/ Ended(s, t)
                              \/ \E e : FinishesOf(s, e) /\ t = db.executions[e].scheduledFor
<1>1. ASSUME NEW e \in ExecutionsOf(db, s), db.executions[e].scheduledFor = t,
             IsTerminal(db.executions[e].status)
      PROVE  Ended(s, t)'
  <2>1. e \in Executions(db) /\ Kept(e)
    BY ExecutionStep DEF ExecutionsOf
  <2> QED
    BY <1>1, <2>1 DEF Kept, Ended, ExecutionsOf
<1>2. ASSUME NEW e \in ExecutionsOf(db', s), db'.executions[e].scheduledFor = t,
             IsTerminal(db'.executions[e].status)
      PROVE  \/ Ended(s, t)
             \/ \E f : FinishesOf(s, f) /\ t = db.executions[f].scheduledFor
  <2>1. e \in Executions(db')
    BY DEF ExecutionsOf
  <2>2. e \in Executions(db)
    <3>1. ~New(e)
      BY <1>2 DEF New
    <3> QED
      BY <2>1, <3>1, ExecutionStep
  <2>3. Kept(e)
    BY <2>2, ExecutionStep
  <2>4. e \in ExecutionsOf(db, s) /\ db.executions[e].scheduledFor = t
    BY <1>2, <2>2, <2>3 DEF Kept, ExecutionsOf
  <2> QED
    BY <1>2, <2>3, <2>4 DEF Kept, Ended, FinishesOf
<1>3. Ended(s, t)' => \E e \in ExecutionsOf(db', s) :
                        /\ db'.executions[e].scheduledFor = t
                        /\ IsTerminal(db'.executions[e].status)
  BY Zenon DEF Ended, ExecutionsOf, Executions
<1> QED
  BY <1>1, <1>2, <1>3 DEF Ended

(* The execution that ends in this step ends its occurrence. *)
LEMMA FinishEnds ==
    ASSUME IInv, [Next]_vars, NEW s, NEW e, FinishesOf(s, e),
           NEW t, t = db.executions[e].scheduledFor
    PROVE  Ended(s, t)'
<1>1. e \in ExecutionIDs /\ e \in Executions(db)
  BY DEF FinishesOf, ExecutionsOf, Executions
<1>2. IsTerminal(db'.executions[e].status)
  BY <1>1, FinishSeen DEF FinishesOf
<1>3. Kept(e)
  BY <1>1, ExecutionStep
<1> QED
  BY <1>2, <1>3 DEF Kept, Ended, ExecutionsOf, FinishesOf

(* The executions of a schedule that is created in this step are none. *)
LEMMA CreatedFresh ==
    ASSUME IInv, OwnedWhileInFlight, NEW s, CreatesRow(s), db'.executions = db.executions
    PROVE  ExecutionsOf(db, s) = {} /\ ExecutionsOf(db', s) = {}
BY DEF OwnedWhileInFlight, ExecutionsOf, Executions, CreatesRow

(* What the next theorems rest on: due instants are occurrences, and none is    *)
(* executed twice.                                                           *)
RunsInv == IInv /\ OwnershipInv /\ DueInv /\ OneExecutionPerOccurrence

LEMMA RunsStep == RunsInv /\ [Next]_vars => RunsInv'
BY TypeStep, OwnershipStep, DueStep, OneExecutionStep DEF RunsInv

LEMMA RunsInvariant == Spec => []RunsInv
<1>1. Init => OneExecutionPerOccurrence
  BY DEF Init, EmptyDatabase, Executions, OneExecutionPerOccurrence
<1>2. Init => RunsInv
  BY <1>1, TypeInit, OwnershipInit, DueInit DEF RunsInv
<1> QED
  BY <1>2, RunsStep, PTL DEF Spec

(* A one-time schedule is completed exactly when its execution has ended. *)
CompletedOnceEnded ==
    \A s \in ScheduleIDs :
        db.schedules[s] # Nil /\ db.schedules[s].config.scheduleType = "once" =>
            (db.schedules[s].status = "completed" <=> \E t : Ended(s, t))

LEMMA OnceStep == RunsInv /\ CompletedOnceEnded /\ [Next]_vars => CompletedOnceEnded'
<1> SUFFICES ASSUME RunsInv, CompletedOnceEnded, [Next]_vars, NEW s \in ScheduleIDs,
                    db'.schedules[s] # Nil, db'.schedules[s].config.scheduleType = "once"
             PROVE  db'.schedules[s].status = "completed" <=> \E t : Ended(s, t)'
  BY Zenon DEF CompletedOnceEnded
<1>0. IInv
  BY DEF RunsInv
<1>1. ASSUME SameConfig(s), \A e : ~FinishesOf(s, e),
             db'.schedules[s].status = "completed" <=> db.schedules[s].status = "completed"
      PROVE  db'.schedules[s].status = "completed" <=> \E t : Ended(s, t)'
  <2>1. db.schedules[s].status = "completed" <=> \E t : Ended(s, t)
    BY <1>1 DEF CompletedOnceEnded, SameConfig
  <2>2. \A t : Ended(s, t)' <=> Ended(s, t)
    BY <1>0, <1>1, EndedStep
  <2> QED
    BY <1>1, <2>1, <2>2
<1>2. CASE KeepsRow(s)
  <2>1. SameConfig(s)
    BY <1>2 DEF KeepsRow
  <2>2. \A e : ~FinishesOf(s, e)
    BY <1>2, <2>1 DEF KeepsRow, SameConfig
  <2> QED
    BY <1>1, <1>2, <2>1, <2>2 DEF KeepsRow, SameConfig
<1>3. ASSUME db'.executions = db.executions PROVE \A e : ~FinishesOf(s, e)
  BY <1>0, <1>3, FinishSeen DEF FinishesOf, ExecutionsOf, Executions
<1>4. CASE db'.executions = db.executions /\ CreatesRow(s)
  <2>1. ExecutionsOf(db', s) = {}
    BY <1>0, <1>4, CreatedFresh DEF RunsInv, OwnershipInv
  <2> QED
    BY <1>4, <2>1 DEF CreatesRow, Ended, ExecutionsOf, Executions
<1>5. CASE db'.executions = db.executions /\ (StopsRow(s) \/ ResumesRow(s))
  BY <1>1, <1>3, <1>5 DEF StopsRow, ResumesRow
<1>6. ASSUME NEW e, FinishesOf(s, e), CompletesRow(s)
      PROVE  db'.schedules[s].status = "completed" <=> \E t : Ended(s, t)'
  BY <1>0, <1>6, FinishEnds DEF CompletesRow
<1>7. ASSUME NEW e, MovesRow(s, e) PROVE FALSE
  BY <1>7 DEF MovesRow, SameConfig
<1> QED
  BY <1>0, <1>2, <1>4, <1>5, <1>6, <1>7, FateStep DEF RowFate

(* In any log a one-time schedule is executed at most once, and completed exactly *)
(* when that execution has ended.                                            *)
THEOREM OnceMeansOnce == Spec => []OnceRunsOnce
<1>1. Init => CompletedOnceEnded
  BY DEF Init, EmptyDatabase, CompletedOnceEnded
<1>2. RunsInv /\ CompletedOnceEnded => OnceRunsOnce
  <2> SUFFICES ASSUME RunsInv, CompletedOnceEnded, NEW s \in ScheduleIDs,
                      db.schedules[s] # Nil, db.schedules[s].config.scheduleType = "once"
               PROVE  /\ \A e, f \in ExecutionsOf(db, s) : e = f
                      /\ db.schedules[s].status = "completed" <=>
                            \E e \in ExecutionsOf(db, s) : IsTerminal(db.executions[e].status)
    BY DEF OnceRunsOnce
  <2>1. \A e \in ExecutionsOf(db, s) :
           db.executions[e].scheduledFor = db.schedules[s].config.firstRunAt
    BY DEF RunsInv, DueInv, OnlyOccurrencesRun, HasOccurrences, Occurrence, ExecutionsOf
  <2>2. \A e, f \in ExecutionsOf(db, s) : e = f
    BY <2>1 DEF RunsInv, OneExecutionPerOccurrence, ExecutionsOf
  <2> QED
    BY <2>2 DEF CompletedOnceEnded, Ended
<1> QED
  BY <1>1, <1>2, OnceStep, RunsInvariant, PTL DEF Spec

-----------------------------------------------------------------------------
(* Catching up. *)

(* Everything s was meant to run at before t has been run. *)
EndedBefore(s, t) == \A u \in 0..(t - 1) : Occurrence(s, u) => Ended(s, u)

CatchesUp(s) ==
    /\ HasOccurrences(s)
    /\ db.schedules[s].config.scheduleType = "recurring"
    /\ db.schedules[s].config.catchUpPolicy = "catch_up_all"

(* The instants of a grid before t are all in E. *)
Covered(firstRunAt, seconds, t, E) ==
    \A u \in 0..(t - 1) : OnGrid(firstRunAt, seconds, u) => u \in E

(* Nothing of a grid lies before its first instant, and nothing between an        *)
(* instant and computeIntervalAfter's.                                       *)
LEMMA NothingBetween ==
    ASSUME NEW firstRunAt \in Nat, NEW seconds \in Nat \ {0}, NEW E
    PROVE  /\ Covered(firstRunAt, seconds, firstRunAt, E)
           /\ \A t \in E \cap Nat :
                 Covered(firstRunAt, seconds, t, E)
                    => Covered(firstRunAt, seconds, computeIntervalAfter(firstRunAt, seconds, t), E)
<1>1. Covered(firstRunAt, seconds, firstRunAt, E)
  BY GridStart DEF Covered
<1>2. ASSUME NEW t \in E \cap Nat, Covered(firstRunAt, seconds, t, E)
      PROVE  Covered(firstRunAt, seconds, computeIntervalAfter(firstRunAt, seconds, t), E)
  <2> DEFINE next == computeIntervalAfter(firstRunAt, seconds, t)
  <2>1. /\ next \in Nat
        /\ \A u \in Nat : OnGrid(firstRunAt, seconds, u) /\ u > t => u >= next
    BY AfterOnGrid
  <2> HIDE DEF next
  <2>2. ASSUME NEW u \in 0..(next - 1), OnGrid(firstRunAt, seconds, u) PROVE u \in E
    <3>1. u \in Nat /\ u <= t
      BY <2>1, <2>2
    <3>2. u = t \/ u \in 0..(t - 1)
      BY <3>1
    <3> QED
      BY <1>2, <2>2, <3>2 DEF Covered
  <2> QED
    BY <2>2 DEF Covered, next
<1> QED
  BY <1>1, <1>2

(* Where s has ended. *)
EndedAt(s) == {t \in Nat : Ended(s, t)}

LEMMA EndedBeforeAlt ==
    ASSUME NEW s, CatchesUp(s), NEW t \in Nat
    PROVE  EndedBefore(s, t) <=> Covered(db.schedules[s].config.firstRunAt,
                                         db.schedules[s].config.seconds, t, EndedAt(s))
<1>1. \A u : Occurrence(s, u) <=> OnGrid(db.schedules[s].config.firstRunAt,
                                         db.schedules[s].config.seconds, u)
  BY DEF CatchesUp, Occurrence
<1>2. 0..(t - 1) \subseteq Nat
  OBVIOUS
<1> QED
  BY <1>1, <1>2 DEF EndedBefore, Covered, EndedAt

(* The same, of the state after a step. *)
LEMMA EndedBeforeNext ==
    ASSUME NEW s, CatchesUp(s)', NEW t \in Nat
    PROVE  EndedBefore(s, t)' <=> Covered(db'.schedules[s].config.firstRunAt,
                                          db'.schedules[s].config.seconds, t, EndedAt(s)')
<1>1. \A u : Occurrence(s, u)' <=> OnGrid(db'.schedules[s].config.firstRunAt,
                                          db'.schedules[s].config.seconds, u)
  BY DEF CatchesUp, Occurrence
<1>2. 0..(t - 1) \subseteq Nat
  OBVIOUS
<1>3. EndedBefore(s, t)' <=> \A u \in 0..(t - 1) : Occurrence(s, u)' => Ended(s, u)'
  BY Zenon DEF EndedBefore
<1>4. \A u : u \in EndedAt(s)' <=> u \in Nat /\ Ended(s, u)'
  BY DEF EndedAt
<1> QED
  BY <1>1, <1>2, <1>3, <1>4 DEF Covered

(* The instant a catch_up_all schedule is resumed at. *)
LEMMA ResumedInOrder ==
    ASSUME IInv, DueInv, NEW s \in ScheduleIDs, CatchesUp(s), NEW at,
           \A t \in offered[s] : EndedBefore(s, t)
    PROVE  /\ EndedBefore(s, ResumedNextRun(db, s, at))
           /\ ~Ended(s, ResumedNextRun(db, s, at))
<1> DEFINE cfg == db.schedules[s].config
           anchor == findMostRecentTerminalExecution(db, s)
           next == computeIntervalAfter(cfg.firstRunAt, cfg.seconds, anchor)
           Ends0 == {f \in ExecutionsOf(db, s) : IsTerminal(db.executions[f].status)}
<1>1. cfg.firstRunAt \in Nat /\ cfg.seconds \in Nat \ {0}
  BY ConfigType DEF CatchesUp, HasOccurrences
<1>2. ResumedNextRun(db, s, at) = IF anchor = Nil THEN cfg.firstRunAt ELSE next
  <2> HIDE DEF anchor
  <2>1. cfg.scheduleType # "once" /\ cfg.catchUpPolicy = "catch_up_all"
    BY DEF CatchesUp
  <2>2. computeIntervalOnOrAfter(cfg.firstRunAt, cfg.seconds, cfg.firstRunAt) = cfg.firstRunAt
    BY <1>1, OnOrAfterFirst
  <2>3. ResumedNextRun(db, s, at) =
          IF anchor = Nil
          THEN computeIntervalOnOrAfter(cfg.firstRunAt, cfg.seconds, cfg.firstRunAt)
          ELSE next
    BY <2>1 DEF ResumedNextRun, CatchUpPolicies, anchor
  <2> HIDE DEF cfg, next
  <2> QED
    BY <2>2, <2>3
<1>3. IF Ends0 = {} THEN anchor = Nil
      ELSE /\ anchor \in Int
           /\ \E f \in Ends0 : anchor = db.executions[f].scheduledFor
           /\ \A f \in Ends0 : db.executions[f].scheduledFor <= anchor
  BY MostRecentIsLatest DEF IInv, TypeOK
<1>4. \A t : Ended(s, t) <=> \E f \in Ends0 : t = db.executions[f].scheduledFor
  BY DEF Ended
<1> HIDE DEF anchor, Ends0
<1>5. CASE Ends0 = {}
  <2>1. ResumedNextRun(db, s, at) = cfg.firstRunAt
    BY <1>2, <1>3, <1>5
  <2>2. EndedBefore(s, cfg.firstRunAt)
    BY <1>1, NothingBetween, EndedBeforeAlt
  <2> QED
    BY <1>4, <1>5, <2>1, <2>2
<1>6. CASE Ends0 # {}
  <2>1. /\ anchor \in Int /\ anchor # Nil /\ Ended(s, anchor)
        /\ \A t : Ended(s, t) => t <= anchor
    BY <1>3, <1>4, <1>6, NilAssumption
  <2>2. anchor \in offered[s]
    <3>1. \A f \in Ends0 : db.executions[f].scheduledFor \in offered[s]
      BY DEF Ends0, DueInv, OnlyOccurrencesRun, ExecutionsOf
    <3> QED
      BY <1>4, <2>1, <3>1
  <2>7. anchor \in Nat
    <3>1. OnGrid(cfg.firstRunAt, cfg.seconds, anchor)
      BY <2>2 DEF DueInv, OnlyOccurrencesRun, CatchesUp, Occurrence
    <3> QED
      BY <2>1, <3>1, GridIsNat
  <2>3. EndedBefore(s, anchor)
    BY <2>2
  <2>5. next \in Nat /\ next > anchor
    BY <1>1, <2>1, AfterOnGrid
  <2>4. EndedBefore(s, next)
    BY <1>1, <2>1, <2>7, <2>3, <2>5, NothingBetween, EndedBeforeAlt DEF EndedAt
  <2>6. ~Ended(s, next)
    <3> HIDE DEF next
    <3> QED
      BY <2>1, <2>5
  <2> QED
    BY <1>2, <2>1, <2>4, <2>6
<1> QED
  BY <1>5, <1>6

LEMMA CatchUpAlt ==
    CatchUpAllInOrder <=>
        \A s \in ScheduleIDs : CatchesUp(s) =>
            /\ \A t \in offered[s] : EndedBefore(s, t)
            /\ db.schedules[s].status = "active" => ~Ended(s, db.schedules[s].nextRunAt)
BY Zenon DEF CatchUpAllInOrder, CatchesUp, EndedBefore

(* What had ended before t still has, and t is as much an occurrence as it was. *)
LEMMA EndedBeforeStays ==
    ASSUME IInv, [Next]_vars, NEW s, SameConfig(s), NEW t, EndedBefore(s, t)
    PROVE  EndedBefore(s, t)'
BY EndedStep, SameOccurrences DEF EndedBefore

LEMMA CatchUpStep == RunsInv /\ CatchUpAllInOrder /\ [Next]_vars => CatchUpAllInOrder'
<1> SUFFICES ASSUME RunsInv, CatchUpAllInOrder, [Next]_vars, NEW s \in ScheduleIDs,
                    CatchesUp(s)'
             PROVE  /\ \A t \in offered'[s] : EndedBefore(s, t)'
                    /\ db'.schedules[s].status = "active" =>
                          ~Ended(s, db.schedules[s].nextRunAt)'
  BY Zenon DEF CatchUpAllInOrder, CatchesUp, EndedBefore
<1> PICK next : next = db'.schedules[s].nextRunAt
  OBVIOUS
<1> SUFFICES /\ \A t \in offered'[s] : EndedBefore(s, t)'
             /\ db'.schedules[s].status = "active" => ~Ended(s, next)'
  BY DEF Ended
<1>0. IInv /\ OwnershipInv /\ DueInv /\ OneExecutionPerOccurrence
  BY DEF RunsInv
<1>a. SameConfig(s) => CatchesUp(s)
  BY DEF CatchesUp, HasOccurrences, SameConfig
<1>b. ASSUME SameConfig(s)
      PROVE  \A t \in offered[s] : EndedBefore(s, t) /\ EndedBefore(s, t)'
  BY <1>0, <1>a, <1>b, CatchUpAlt, EndedBeforeStays
(* It is enough to look at the due instant of the step's row. *)
<1>c. ASSUME SameConfig(s), next # Nil => EndedBefore(s, next)',
             db'.schedules[s].status = "active" => ~Ended(s, next)'
      PROVE  /\ \A t \in offered'[s] : EndedBefore(s, t)'
             /\ db'.schedules[s].status = "active" => ~Ended(s, next)'
  <2>1. ASSUME NEW t \in offered'[s] PROVE EndedBefore(s, t)'
    <3>1. t \in offered[s] \/ (t = next /\ t # Nil)
      BY <1>0, <2>1, OfferedAfter DEF DueInv
    <3> QED
      BY <1>b, <1>c, <3>1
  <2> QED
    BY <1>c, <2>1
<1>d. ASSUME db'.executions = db.executions PROVE \A t : Ended(s, t)' <=> Ended(s, t)
  BY <1>d DEF Ended, ExecutionsOf, Executions
<1>1. CASE KeepsRow(s)
  <2>1. SameConfig(s) /\ next = db.schedules[s].nextRunAt
    BY <1>1 DEF KeepsRow, CatchesUp, HasOccurrences
  <2>2. next # Nil => EndedBefore(s, next)'
    <3>1. next # Nil => next \in offered[s]
      BY <1>0, <2>1 DEF DueInv, ReadsOffered, SameConfig
    <3> QED
      BY <1>b, <2>1, <3>1
  <2>3. ASSUME db'.schedules[s].status = "active" PROVE ~Ended(s, next)'
    <3>1. db.schedules[s].status = "active"
      BY <1>1, <2>1, <2>3 DEF KeepsRow, SameConfig
    <3>2. ~Ended(s, next)
      BY <1>a, <2>1, <3>1, CatchUpAlt
    <3>3. \A e : ~FinishesOf(s, e)
      BY <1>1, <3>1 DEF KeepsRow
    <3> QED
      BY <1>0, <3>2, <3>3, EndedStep
  <2> QED
    BY <1>c, <2>1, <2>2, <2>3
<1>2. CASE CreatesRow(s) /\ db'.executions = db.executions
  <2>1. ExecutionsOf(db', s) = {}
    BY <1>0, <1>2, CreatedFresh DEF OwnershipInv
  <2>2. \A t : ~Ended(s, t)'
    BY <2>1 DEF Ended, ExecutionsOf, Executions
  <2>3. offered[s] = {}
    BY <1>0, <1>2 DEF OwnershipInv, OfferedExist, CreatesRow
  <2>4. EndedBefore(s, next)'
    <3>1. /\ db'.schedules[s].config.firstRunAt \in Nat
          /\ db'.schedules[s].config.seconds \in Nat \ {0}
      BY <1>0, TypeStep
         DEF CatchesUp, HasOccurrences, HasInterval, IInv, TypeOK, Database, Schedule,
             ScheduleConfig
    <3> QED
      BY <1>2, <3>1, NothingBetween, EndedBeforeNext DEF CreatesRow
  <2>5. ASSUME NEW t \in offered'[s] PROVE t = next
    BY <1>0, <2>3, <2>5, OfferedAfter DEF DueInv
  <2> QED
    BY <2>2, <2>4, <2>5
<1>3. CASE StopsRow(s)
  BY <1>3, <1>c DEF StopsRow
<1>4. CASE ResumesRow(s) /\ db'.executions = db.executions
  <2>1. PICK at : next = ResumedNextRun(db, s, at)
    BY <1>4 DEF ResumesRow
  <2>2. SameConfig(s) /\ CatchesUp(s)
    BY <1>4, <1>a DEF ResumesRow
  <2>3. EndedBefore(s, next) /\ ~Ended(s, next)
    BY <1>0, <1>b, <2>1, <2>2, ResumedInOrder
  <2>4. EndedBefore(s, next)' /\ ~Ended(s, next)'
    BY <1>0, <1>4, <1>d, <2>2, <2>3, EndedBeforeStays
  <2> QED
    BY <1>c, <2>2, <2>4
<1>5. ASSUME NEW e, FinishesOf(s, e), MovesRow(s, e)
      PROVE  /\ \A t \in offered'[s] : EndedBefore(s, t)'
             /\ db'.schedules[s].status = "active" => ~Ended(s, next)'
  <2>0. PICK t, cfg : t = db.executions[e].scheduledFor /\ cfg = db.schedules[s].config
    OBVIOUS
  <2>1. SameConfig(s) /\ CatchesUp(s)
    BY <1>5, <1>a DEF MovesRow
  <2>2. /\ e \in ExecutionsOf(db, s) /\ e \in Executions(db)
        /\ t \in Nat /\ t \in offered[s]
        /\ ~IsTerminal(db.executions[e].status)
    <3>1. e \in ExecutionsOf(db, s) /\ e \in Executions(db) /\ e \in ExecutionIDs
      BY <1>5 DEF FinishesOf, ExecutionsOf, Executions
    <3>2. t \in Int /\ ~IsTerminal(db.executions[e].status)
      BY <1>0, <1>5, <2>0, <3>1, FinishSeen DEF FinishesOf, Execution
    <3>3. t \in offered[s]
      BY <1>0, <2>0, <3>1 DEF DueInv, OnlyOccurrencesRun, ExecutionsOf
    <3>4. OnGrid(cfg.firstRunAt, cfg.seconds, t)
      BY <1>0, <2>0, <2>1, <3>3 DEF DueInv, OnlyOccurrencesRun, CatchesUp, Occurrence
    <3>5. t \in Nat
      BY <3>2, <3>4, GridIsNat
    <3> QED
      BY <3>1, <3>2, <3>3, <3>5
  <2>3. next = computeIntervalAfter(cfg.firstRunAt, cfg.seconds, t)
    BY <1>5, <2>0 DEF MovesRow
  <2>7. cfg.firstRunAt \in Nat /\ cfg.seconds \in Nat \ {0}
    BY <1>0, <2>0, <2>1, ConfigType DEF CatchesUp, HasOccurrences
  <2>4. next \in Nat /\ next > t
    <3>1. t \in Int
      BY <2>2
    <3> QED
      BY <2>3, <2>7, <3>1, AfterOnGrid
  <2>5. EndedBefore(s, next)'
    <3>1. cfg.firstRunAt \in Nat /\ cfg.seconds \in Nat \ {0} /\ db'.schedules[s].config = cfg
      BY <2>0, <2>1, <2>7 DEF SameConfig
    <3>2. Ended(s, t)' /\ EndedBefore(s, t)'
      <4>1. Ended(s, t)'
        BY <1>0, <1>5, <2>0, FinishEnds
      <4>2. EndedBefore(s, t)'
        BY <1>b, <2>1, <2>2
      <4> QED
        BY <4>1, <4>2
    <3>3. t \in EndedAt(s)' \cap Nat
      BY <2>2, <3>2 DEF EndedAt
    <3>4. Covered(cfg.firstRunAt, cfg.seconds, t, EndedAt(s)')
      BY <2>2, <3>1, <3>2, EndedBeforeNext
    <3>5. Covered(cfg.firstRunAt, cfg.seconds, next, EndedAt(s)')
      BY <2>3, <3>1, <3>3, <3>4, NothingBetween
    <3> QED
      BY <2>4, <3>1, <3>5, EndedBeforeNext
  <2>6. ~Ended(s, next)'
    <3>1. SUFFICES ASSUME Ended(s, next)' PROVE FALSE
      OBVIOUS
    <3>2. ~ \E f : FinishesOf(s, f) /\ next = db.executions[f].scheduledFor
      <4>1. \A f : FinishesOf(s, f) => f = e
        BY <1>0, <1>5, FinishesOfOne
      <4> QED
        BY <2>0, <2>2, <2>4, <4>1
    <3>3. Ended(s, next)
      BY <1>0, <3>1, <3>2, EndedStep
    <3>4. next \in offered[s]
      BY <1>0, <3>3 DEF Ended, ExecutionsOf, DueInv, OnlyOccurrencesRun
    <3>5. Occurrence(s, t)
      BY <1>0, <2>1, <2>2 DEF DueInv, OnlyOccurrencesRun, CatchesUp
    <3>6. Ended(s, t)
      BY <1>b, <2>1, <2>2, <2>4, <3>4, <3>5 DEF EndedBefore
    <3> QED
      BY <1>0, <2>0, <2>2, <3>6 DEF Ended, OneExecutionPerOccurrence, ExecutionsOf
  <2> QED
    BY <1>c, <2>1, <2>5, <2>6
<1>6. ASSUME CompletesRow(s) PROVE FALSE
  BY <1>6, <1>a DEF CompletesRow, CatchesUp
<1> QED
  BY <1>0, <1>1, <1>2, <1>3, <1>4, <1>5, <1>6, FateStep DEF RowFate

(* In any log a catch_up_all schedule becomes due for an occurrence only when all  *)
(* earlier ones have ended, and an active one is never due for an ended one.   *)
THEOREM CatchUpLeavesNoneOut == Spec => []CatchUpAllInOrder
<1>1. Init => CatchUpAllInOrder
  BY DEF Init, EmptyDatabase, HasOccurrences, CatchUpAllInOrder
<1> QED
  BY <1>1, CatchUpStep, RunsInvariant, PTL DEF Spec

-----------------------------------------------------------------------------
(* The refinement of module Occurrences. *)

RunOfRow(ex) == [schedule |-> ex.scheduleID, instant |-> ex.scheduledFor,
                 attempts |-> ex.attemptCount, phase |-> ex.status]

Runs == {RunOf(e) : e \in Executions(db)}

(* Writing the row of one execution replaces its run, and no other: no other      *)
(* execution is of the same occurrence.                                      *)
LEMMA RunReplaced ==
    ASSUME IInv, OneExecutionPerOccurrence, NEW e \in Executions(db),
           NEW row \in Execution, db'.executions = [db.executions EXCEPT ![e] = row]
    PROVE  Runs' = (Runs \ {RunOf(e)}) \cup {RunOfRow(row)}
<1>0. /\ db.executions \in [ExecutionIDs -> Execution \cup {Nil}]
      /\ e \in ExecutionIDs /\ row # Nil
  BY NilAssumption DEF IInv, TypeOK, Database, Executions
<1>1. Executions(db') = Executions(db)
  BY <1>0 DEF Executions
<1>2. \A f \in Executions(db) : RunOf(f)' = IF f = e THEN RunOfRow(row) ELSE RunOf(f)
  BY <1>0 DEF RunOf, RunOfRow, Executions
<1>3. \A f \in Executions(db) : f # e => RunOf(f) # RunOf(e)
  BY DEF OneExecutionPerOccurrence, RunOf
<1>4. Runs' = {RunOf(f)' : f \in Executions(db')}
  BY DEF Runs
<1> HIDE DEF Runs
<1>5. Runs' = {IF f = e THEN RunOfRow(row) ELSE RunOf(f) : f \in Executions(db)}
  BY <1>1, <1>2, <1>4
<1> QED
  BY <1>3, <1>5 DEF Runs

(* Every entry of the log starts a run, makes one attempt of it or finishes it,    *)
(* or is invisible.                                                          *)
LEMMA PromiseStep == IInv /\ OneExecutionPerOccurrence /\ [Next]_vars => [Promise!Next]_Runs
<1> SUFFICES ASSUME IInv, OneExecutionPerOccurrence, [Next]_vars
             PROVE  Promise!Next \/ Runs' = Runs
  OBVIOUS
<1>0. /\ db.executions \in [ExecutionIDs -> Execution \cup {Nil}]
      /\ \A e \in ExecutionIDs : db.executions[e] # Nil =>
            e \in Executions(db) /\ db.executions[e] \in Execution
  BY DEF IInv, TypeOK, Database, Executions
<1>1. CASE LeavesExecutions
  BY <1>1 DEF LeavesExecutions, Runs, RunOf, Executions
<1>2. ASSUME NEW e \in ExecutionIDs, NEW s \in ScheduleIDs, NEW t \in offered[s],
             Claims(e, s, t)
      PROVE  Promise!Next
  <2>1. PICK row \in Execution :
          /\ row.scheduleID = s /\ row.scheduledFor = t /\ row.status = "in_flight"
          /\ row.attemptCount = 0
          /\ db'.executions = [db.executions EXCEPT ![e] = row]
    BY <1>2 DEF Claims
  <2>2. e \notin Executions(db) /\ row # Nil
    BY <1>2, NilAssumption DEF Claims, Executions
  <2>3. Executions(db') = Executions(db) \cup {e}
    BY <1>0, <2>1, <2>2 DEF Executions
  <2>4. /\ \A f \in Executions(db) : RunOf(f)' = RunOf(f)
        /\ RunOf(e)' = RunOfRow(row)
    BY <1>0, <2>1, <2>2 DEF RunOf, RunOfRow, Executions
  <2>5. Runs' = Runs \cup {RunOfRow(row)}
    <3>1. Runs' = {RunOf(f)' : f \in Executions(db')}
      BY DEF Runs
    <3> QED
      BY <2>3, <2>4, <3>1 DEF Runs
  <2>6. RunOfRow(row) \in Promise!Run
    BY <2>1 DEF RunOfRow, Execution, Promise!Run
  <2>7. ASSUME NEW q \in Runs
        PROVE  q.schedule # RunOfRow(row).schedule \/ q.instant # RunOfRow(row).instant
    <3>1. PICK f \in Executions(db) : q = RunOf(f)
      BY DEF Runs
    <3>2. db.executions[f].scheduleID = s => db.executions[f].scheduledFor # t
      BY <1>2 DEF Claims, ExecutionsOf
    <3> QED
      BY <2>1, <3>1, <3>2 DEF RunOf, RunOfRow
  <2>8. RunOfRow(row).attempts = 0 /\ RunOfRow(row).phase = "in_flight"
    BY <2>1 DEF RunOfRow
  <2> DEFINE r == RunOfRow(row)
  <2>9. Promise!Start(r)
    <3> HIDE DEF r
    <3>1. /\ r \in Promise!Run /\ r.attempts = 0 /\ r.phase = "in_flight"
          /\ \A q \in Runs : q.schedule # r.schedule \/ q.instant # r.instant
          /\ Runs' = Runs \cup {r}
      BY <2>5, <2>6, <2>7, <2>8 DEF r
    <3> QED
      BY <3>1 DEF Promise!Start, Runs
  <2>10. r \in Runs'
    BY <2>5
  <2> HIDE DEF r
  <2> QED
    BY <2>9, <2>10 DEF Promise!Next, Runs
<1>3. ASSUME NEW e \in ExecutionIDs, NEW n \in Nodes, Adopts(e, n)
      PROVE  Runs' = Runs
  <2> DEFINE row == [db.executions[e] EXCEPT !.ownerNodeID = n]
  <2>1. /\ e \in Executions(db) /\ db.executions[e] \in Execution
        /\ db'.executions = [db.executions EXCEPT ![e] = row]
    BY <1>0, <1>3 DEF Adopts
  <2>2. row \in Execution /\ RunOfRow(row) = RunOf(e)
    BY <2>1 DEF RunOfRow, RunOf, Execution
  <2> HIDE DEF row
  <2>3. RunOf(e) \in Runs
    BY <2>1 DEF Runs
  <2> HIDE DEF Runs
  <2> QED
    BY <2>1, <2>2, <2>3, RunReplaced
<1>4. ASSUME NEW e \in ExecutionIDs, NEW a \in AttemptIDs, NEW n \in Nodes,
             NEW new \in Attempt, Records(e, a, n, new)
      PROVE  Promise!Next
  <2> DEFINE row == [db.executions[e] EXCEPT !.attemptCount = new.attemptNumber,
                                             !.lastAttemptID = a,
                                             !.lastRetryAt = new.retryAt]
             r == RunOf(e)
  <2>1. /\ e \in Executions(db) /\ db.executions[e] \in Execution
        /\ db.executions[e].status = "in_flight"
        /\ new.attemptNumber = db.executions[e].attemptCount + 1
        /\ db'.executions = [db.executions EXCEPT ![e] = row]
    BY <1>0, <1>4 DEF Records
  <2>2. row \in Execution
    BY <2>1 DEF Execution, Attempt
  <2>3. RunOfRow(row) = [r EXCEPT !.attempts = @ + 1] /\ r.phase = "in_flight"
    BY <2>1 DEF RunOfRow, RunOf, Execution
  <2>4. r \in Runs
    BY <2>1 DEF Runs
  <2> HIDE DEF row, r
  <2>5. Runs' = (Runs \ {r}) \cup {RunOfRow(row)}
    BY <2>1, <2>2, RunReplaced DEF r
  <2>6. Promise!Attempted(r)
    BY <2>3, <2>5 DEF Promise!Attempted, Promise!Replace, Runs
  <2> QED
    BY <2>4, <2>6 DEF Promise!Next, Runs
<1>5. ASSUME NEW e \in ExecutionIDs, NEW status \in TerminalStatuses, Finishes(e, status)
      PROVE  Promise!Next
  <2> DEFINE row == [db.executions[e] EXCEPT !.status = status, !.ownerNodeID = Nil]
             r == RunOf(e)
  <2>1. /\ e \in Executions(db) /\ db.executions[e] \in Execution
        /\ ~IsTerminal(db.executions[e].status)
        /\ db'.executions = [db.executions EXCEPT ![e] = row]
    BY <1>0, <1>5 DEF Finishes
  <2>2. row \in Execution
    BY <2>1 DEF Execution
  <2>3. RunOfRow(row) = [r EXCEPT !.phase = status] /\ r.phase = "in_flight"
    BY <2>1 DEF RunOfRow, RunOf, Execution, IsTerminal
  <2>4. r \in Runs
    BY <2>1 DEF Runs
  <2> HIDE DEF row, r
  <2>5. Runs' = (Runs \ {r}) \cup {RunOfRow(row)}
    BY <2>1, <2>2, RunReplaced DEF r
  <2>6. Promise!Finish(r)
    BY <2>3, <2>5 DEF Promise!Finish, Promise!Replace, Runs
  <2> QED
    BY <2>4, <2>6 DEF Promise!Next, Runs
<1> QED
  BY <1>1, <1>2, <1>3, <1>4, <1>5, StepEffect DEF Effect

(* The state machine, whatever its log holds, implements the promise of module     *)
(* Occurrences: each occurrence of a schedule is started once, then attempted   *)
(* one attempt at a time, and ended once.                                    *)
THEOREM LogKeepsPromise == Spec => ImplementsOccurrences
<1>1. Init => Promise!Init
  BY DEF Init, EmptyDatabase, Executions, Promise!Init
<1>2. IInv /\ OneExecutionPerOccurrence /\ [Next]_vars
         => [Promise!Next]_{RunOf(e) : e \in Executions(db)}
  BY PromiseStep DEF Runs
<1> QED
  BY <1>1, <1>2, TypeInvariant, OccurrencesRunOnce, PTL
     DEF Spec, ImplementsOccurrences, Promise!Spec

=============================================================================
