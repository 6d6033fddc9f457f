----------------------------- MODULE Replication ----------------------------
(***************************************************************************)
(* The replicas of the state machine: the committed log, and on every node   *)
(* the database scheduler.db it is applied to.  The database outlives the    *)
(* process, but how far it has been applied does not: a restarted node        *)
(* restores its newest snapshot, if it has one, and then applies the rest     *)
(* of the log again, onto the database it already has.  Restore opens the     *)
(* snapshot as sm.db, but Apply goes on writing through sm.storage, whose     *)
(* database Restore has closed.                                              *)
(*                                                                           *)
(* That the log is one sequence every node applies in order, and when         *)
(* snapshots are taken and sent, is hashicorp/raft's doing.  A bolt           *)
(* transaction is durable when it commits, and one cut short by a crash has    *)
(* not happened.  A node that is down is one that applies nothing for a        *)
(* while, so stopping is no action of its own.                               *)
(***************************************************************************)
EXTENDS Commands, Sequences

(* The commands of internal/command/dispatch.go. *)
EntryTypes ==
    {"create_tenant", "create_schedule", "update_schedule", "pause_schedule",
     "resume_schedule", "cancel_schedule", "claim_execution", "adopt_execution",
     "record_attempt", "complete_execution", "fail_execution_timeout"}

CONSTANTS Workloads,      \* what clients and workers may propose
          ProposedTimes,  \* the proposers' clock readings
          MaxRestarts     \* bound on the restarts of a node

(* A workload: the schedule clients ask for and its attempt limits, the types   *)
(* of the entries proposed, a bound on the log, the nodes whose databases are    *)
(* followed, and whether the log grows long enough for snapshots.              *)
Workload == [config : ScheduleConfig, maxAttempts : SUBSET Nat,
             entryTypes : SUBSET EntryTypes, maxLog : Nat,
             replicas : SUBSET Nodes, snapshots : BOOLEAN]

ASSUME ReplicationAssumption ==
    /\ Workloads \subseteq Workload
    /\ ProposedTimes \subseteq Nat
    /\ MaxRestarts \in Nat

VARIABLES
    workload,   \* the workload of this behaviour
    log,        \* the committed entries
    reference,  \* reference[i]: the database after i - 1 entries, each applied once
    disk,       \* disk[r]: scheduler.db of node r
    node        \* node[r]: r's process and its snapshots

Replicas == workload.replicas

vars == <<workload, log, reference, disk, node>>

(* applied: the last entry applied since the last restart; snapshot: the index *)
(* of the newest snapshot, 0 without one; open: whether sm.storage's database   *)
(* is; panicked: whether the process has died in Apply; reached: the last      *)
(* entry ever applied; restarts: how often it was restarted.                   *)
NodeState == [applied : Nat, snapshot : Nat, open : BOOLEAN, panicked : BOOLEAN,
              reached : Nat, restarts : Nat]

Init ==
    /\ workload \in Workloads
    /\ log = <<>>
    /\ reference = <<EmptyDatabase>>
    /\ disk = [r \in Replicas |-> EmptyDatabase]
    /\ node = [r \in Replicas |->
                 [applied |-> 0, snapshot |-> 0, open |-> TRUE, panicked |-> FALSE,
                  reached |-> 0, restarts |-> 0]]

(* The database after an entry: a rejected one leaves it alone, and so does one   *)
(* that panics.                                                              *)
Dispatch(tx, entry) ==
    LET cmd == entry.cmd
        If(accepted, after) == IF accepted THEN after ELSE tx
    IN  CASE entry.type = "create_tenant" ->
                If(CreateTenantAccepted(tx, cmd.id), ApplyCreateTenant(tx, cmd.id))
          [] entry.type = "create_schedule" ->
                If(CreateScheduleAccepted(tx, cmd), ApplyCreateSchedule(tx, cmd))
          [] entry.type = "update_schedule" ->
                If(UpdateScheduleAccepted(tx, cmd), ApplyUpdateSchedule(tx, cmd))
          [] entry.type = "pause_schedule" ->
                If(PauseScheduleAccepted(tx, cmd), ApplyPauseSchedule(tx, cmd))
          [] entry.type = "cancel_schedule" ->
                If(CancelScheduleAccepted(tx, cmd), ApplyCancelSchedule(tx, cmd))
          [] entry.type = "resume_schedule" ->
                If(ResumeScheduleAccepted(tx, cmd),
                   ApplyResumeSchedule(tx, cmd, entry.proposedAt))
          [] entry.type = "claim_execution" ->
                If(ClaimExecutionAccepted(tx, cmd), ApplyClaimExecution(tx, cmd))
          [] entry.type = "adopt_execution" ->
                If(AdoptExecutionAccepted(tx, cmd), ApplyAdoptExecution(tx, cmd))
          [] entry.type = "record_attempt" ->
                If(RecordAttemptAccepted(tx, cmd), ApplyRecordAttempt(tx, cmd))
          [] entry.type = "complete_execution" ->
                If(CompleteExecutionAccepted(tx, cmd), ApplyCompleteExecution(tx, cmd))
          [] entry.type = "fail_execution_timeout" ->
                If(FailExecutionTimeoutAccepted(tx, cmd),
                   ApplyFailExecutionTimeout(tx, cmd))

-----------------------------------------------------------------------------
(* What is proposed: clients propose what they like, workers act on what they  *)
(* have read on a replica, however far it was behind or replaying.            *)

Readable == {reference[i] : i \in DOMAIN reference} \cup {disk[r] : r \in Replicas}

(* Row ids are ULIDs: an execution or an attempt is proposed once. *)
Unused(type, id) == \A i \in DOMAIN log : log[i].type = type => log[i].cmd.id # id

ClientCommands ==
    [create_tenant   |-> [id : Tenants],
     create_schedule |-> [id : ScheduleIDs, config : {workload.config},
                          maxAttempts : workload.maxAttempts],
     update_schedule |-> [id : ScheduleIDs, maxAttempts : workload.maxAttempts],
     pause_schedule  |-> [id : ScheduleIDs],
     cancel_schedule |-> [id : ScheduleIDs],
     resume_schedule |-> [id : ScheduleIDs]]

(* The commands of a worker that has read tx. *)
WorkerCommands(tx) ==
    LET due == {s \in ScheduleIDs : /\ tx.schedules[s] # Nil
                                    /\ tx.schedules[s].nextRunAt # Nil}
        inFlight == {e \in Executions(tx) : tx.executions[e].status = "in_flight"}
        owner(e) == tx.executions[e].ownerNodeID
    IN  [claim_execution |->
            {[id |-> e, scheduleID |-> s, ownerNodeID |-> n,
              scheduledFor |-> tx.schedules[s].nextRunAt] :
                e \in {f \in ExecutionIDs : Unused("claim_execution", f)},
                s \in due, n \in Nodes},
         adopt_execution |->
            UNION {{[executionID |-> e, previousOwner |-> owner(e), newOwner |-> n] :
                        n \in Nodes \ {owner(e)}} : e \in inFlight},
         record_attempt |->
            {[id |-> a, executionID |-> e, nodeID |-> owner(e), outcome |-> "retry",
              retryAt |-> 1] :
                a \in {b \in AttemptIDs : Unused("record_attempt", b)}, e \in inFlight},
         complete_execution |->
            {[executionID |-> e, finalStatus |-> "failed_terminal"] : e \in inFlight},
         fail_execution_timeout |-> {[executionID |-> e] : e \in inFlight}]

Proposed(type, cmd) ==
    \E at \in ProposedTimes :
        LET entry == [type |-> type, cmd |-> cmd, proposedAt |-> at]
        IN  /\ log' = Append(log, entry)
            /\ reference' = Append(reference,
                                   Dispatch(reference[Len(reference)], entry))
            /\ UNCHANGED <<workload, disk, node>>

(* An entry is committed. *)
ProposeByClient ==
    /\ Len(log) < workload.maxLog
    /\ \E type \in workload.entryTypes \cap DOMAIN ClientCommands :
         \E cmd \in ClientCommands[type] : Proposed(type, cmd)

ProposeByWorker ==
    /\ Len(log) < workload.maxLog
    /\ \E tx \in Readable :
         \E type \in workload.entryTypes \cap DOMAIN WorkerCommands(tx) :
            \E cmd \in WorkerCommands(tx)[type] : Proposed(type, cmd)

-----------------------------------------------------------------------------
(* The nodes. *)

Applied(r) == node[r].applied
Running(r) == ~node[r].panicked

(* The transaction of the next entry cannot be begun, because the database is    *)
(* not open, or its handler panics.                                          *)
EntryPanics(r) ==
    \/ ~node[r].open
    \/ LET entry == log[Applied(r) + 1]
       IN  entry.type = "create_schedule" /\ CreateSchedulePanics(disk[r], entry.cmd)

(* raft hands the next entry to StateMachine.Apply. *)
Apply(r) ==
    /\ Running(r)
    /\ Applied(r) < Len(log)
    /\ ~EntryPanics(r)
    /\ disk' = [disk EXCEPT ![r] = Dispatch(@, log[Applied(r) + 1])]
    /\ node' = [node EXCEPT ![r] =
                  [@ EXCEPT !.applied = Applied(r) + 1,
                            !.reached = IF Applied(r) + 1 > node[r].reached
                                        THEN Applied(r) + 1 ELSE node[r].reached]]
    /\ UNCHANGED <<workload, log, reference>>

(* The process dies, and the entry is still the next one when it has restarted. *)
PanicInApply(r) ==
    /\ Running(r)
    /\ Applied(r) < Len(log)
    /\ EntryPanics(r)
    /\ node' = [node EXCEPT ![r].panicked = TRUE]
    /\ UNCHANGED <<workload, log, reference, disk>>

(* Persist writes the database as it was when Snapshot began to read it; that  *)
(* database is scheduler.db until the first Restore, state.db after it, and    *)
(* nothing but the next Snapshot reads the latter, so only the index counts.   *)
Snapshot(r) ==
    /\ workload.snapshots
    /\ Running(r)
    /\ Applied(r) > node[r].snapshot
    /\ node' = [node EXCEPT ![r].snapshot = Applied(r)]
    /\ UNCHANGED <<workload, log, reference, disk>>

(* Mutant: the first entry after the snapshot is taken for applied. *)
RestartOneLate(r) ==
    /\ node[r].restarts < MaxRestarts
    /\ node' = [node EXCEPT ![r] =
                  [@ EXCEPT !.applied = node[r].snapshot + 1,
                            !.open = node[r].snapshot = 0,
                            !.panicked = FALSE,
                            !.restarts = node[r].restarts + 1]]
    /\ UNCHANGED <<workload, log, reference, disk>>

(* The process of r ends and is started again: storage.New opens scheduler.db,  *)
(* and raft restores the newest snapshot, which closes it.                     *)
Restart(r) ==
    /\ node[r].restarts < MaxRestarts
    /\ node' = [node EXCEPT ![r] =
                  [@ EXCEPT !.applied = node[r].snapshot,
                            !.open = node[r].snapshot = 0,
                            !.panicked = FALSE,
                            !.restarts = node[r].restarts + 1]]
    /\ UNCHANGED <<workload, log, reference, disk>>

(* A leader s sends its snapshot to r, which lags behind it. *)
InstallSnapshot(r, s) ==
    /\ Running(r)
    /\ node[s].snapshot > Applied(r)
    /\ node' = [node EXCEPT ![r] =
                  [@ EXCEPT !.applied = node[s].snapshot,
                            !.snapshot = node[s].snapshot,
                            !.open = FALSE]]
    /\ UNCHANGED <<workload, log, reference, disk>>

Next ==
    \/ ProposeByClient
    \/ ProposeByWorker
    \/ \E r \in Replicas :
         \/ Apply(r)
         \/ PanicInApply(r)
         \/ Snapshot(r)
         \/ Restart(r)
         \/ \E s \in Replicas : InstallSnapshot(r, s)

Spec == Init /\ [][Next]_vars

-----------------------------------------------------------------------------
(* Properties. *)

TypeOK ==
    /\ Len(log) \in 0..workload.maxLog
    /\ reference \in Seq(Database)
    /\ Len(reference) = Len(log) + 1
    /\ disk \in [Replicas -> Database]
    /\ node \in [Replicas -> NodeState]
    /\ \A r \in Replicas :
         /\ Applied(r) <= node[r].reached \/ ~node[r].open
         /\ node[r].reached <= Len(log)

(* The invariants of one database, on each node's. *)
On(r) == INSTANCE StateMachine
    WITH db <- disk[r], ScheduleConfigs <- {w.config : w \in Workloads}, RetryTimes <- {1},
         MaxAttemptsValues <- UNION {w.maxAttempts : w \in Workloads}, stamp <- 0,
         offered <- [s \in ScheduleIDs |-> {}]

(* What StateMachine shows of one pass over the log stays true of a database    *)
(* the log is applied to again and again, from any crash and at any point of    *)
(* the replay: an occurrence has one execution, an execution an owner while it  *)
(* is in flight, a schedule a due instant while it is active.                 *)
ReplayKeepsRowsSound ==
    \A r \in Replicas :
        /\ On(r)!OneExecutionPerOccurrence
        /\ On(r)!OwnedWhileInFlight
        /\ On(r)!DueWhileActive
        /\ On(r)!OnceRunsOnce

(* Replaying the entries of an execution that has ended, its claim, attempts   *)
(* and completion among them, leaves its row and attempts as they are.        *)
ReplayKeepsEnded ==
    [][\A r \in Replicas : \A e \in Executions(disk[r]) :
         IsTerminal(disk[r].executions[e].status) =>
            /\ disk'[r].executions[e] = disk[r].executions[e]
            /\ \A a \in AttemptIDs :
                 disk[r].attempts[a] # Nil /\ disk[r].attempts[a].executionID = e
                    => disk'[r].attempts[a] = disk[r].attempts[a]]_vars

(* The configuration of a schedule that makes up for all it missed. *)
CatchesUp(cfg) ==
    /\ cfg.scheduleType = "recurring"
    /\ cfg.seconds # Nil /\ cfg.seconds > 0
    /\ cfg.catchUpPolicy = "catch_up_all"

(* r has applied the log again as far as it ever had, and has not been handed   *)
(* a snapshot.                                                               *)
CaughtUp(r) == node[r].open /\ Applied(r) = node[r].reached

(* What a node tells of an execution besides its attempts. *)
Standing(ex) ==
    IF ex = Nil THEN Nil
    ELSE [scheduleID |-> ex.scheduleID, scheduledFor |-> ex.scheduledFor,
          ownerNodeID |-> ex.ownerNodeID, status |-> ex.status]

(* Entry i was refused because it names a schedule the log creates only later;   *)
(* a database that has the schedule from before the restart accepts it.        *)
Early(i) ==
    /\ log[i].type \in {"update_schedule", "pause_schedule", "cancel_schedule",
                       "resume_schedule"}
    /\ reference[i].schedules[log[i].cmd.id] = Nil

(* Once it has caught up, a restarted node agrees with a node that never was   *)
(* on who owns which execution and how it ended, and on the status of every    *)
(* schedule; a one-time schedule and one that catches up also on when it is     *)
(* due.  It takes that no client names a schedule before it is created.  A      *)
(* completed schedule may differ in its attempt limit: an update that was        *)
(* refused after a cancel is accepted on a row that the completion has since     *)
(* taken out of "canceled".                                                  *)
ReplayConverges ==
    (\A i \in DOMAIN log : ~Early(i)) =>
    \A r \in Replicas :
        CaughtUp(r) =>
            LET db == reference[Applied(r) + 1]
            IN  /\ \A e \in ExecutionIDs :
                     Standing(disk[r].executions[e]) = Standing(db.executions[e])
                /\ \A s \in ScheduleIDs :
                     /\ disk[r].schedules[s] = Nil <=> db.schedules[s] = Nil
                     /\ db.schedules[s] # Nil =>
                          /\ disk[r].schedules[s].status = db.schedules[s].status
                          /\ db.schedules[s].status # "completed" =>
                               disk[r].schedules[s].maxAttempts
                                 = db.schedules[s].maxAttempts
                          /\ workload.config.scheduleType = "once"
                               \/ CatchesUp(workload.config) =>
                               disk[r].schedules[s].nextRunAt = db.schedules[s].nextRunAt

-----------------------------------------------------------------------------
(* A statement of the source the replicas do not keep. *)

(* statemachine.go:44 panics on any error of a transaction but a CommandError: *)
(* the source takes it that there is none.                                    *)
NoPanic == \A r \in Replicas : ~node[r].panicked
=============================================================================
