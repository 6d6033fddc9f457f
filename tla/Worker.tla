------------------------------- MODULE Worker -------------------------------
(***************************************************************************)
(* The leader loops of internal/scheduler/worker.go on the nodes of a raft  *)
(* cluster: recovery, ticks, and the tasks of the worker pool, between them  *)
(* the only proposers of execution entries.  A node reads its own replica,   *)
(* which may lag behind the log, and proposes through raftnode.Propose,      *)
(* whose answer may be lost.  The log itself is module StateMachine: this    *)
(* module says which of its entries are proposed, when, and from what reads. *)
(*                                                                           *)
(* Supervisor.tla has the supervisor in full; here it is reduced to what a   *)
(* node's loop sees of it.  A task checks its context and proposes in one    *)
(* step, except around the callback.  A process that stops stays down: one    *)
(* that is started again replays its log onto the database it kept (module   *)
(* Replication, whose proposals follow from any read of any such database). *)
(***************************************************************************)
EXTENDS StateMachine

CONSTANTS
    ClientCommands,   \* which of "update", "pause", "resume", "cancel" clients send
    ClocksAgree       \* the ULIDs nodes make increase in the order of the log

ASSUME WorkerAssumption ==
    /\ AttemptIDs \subseteq Nat
    /\ ClocksAgree \in BOOLEAN
    /\ Nil \notin Outcomes

VARIABLES
    leader,     \* the node whose proposals raft commits, or Nil
    believes,   \* the nodes whose raft.State() is Leader
    notify,     \* notify[n]: the notification in n's leadership channel
    seen,       \* seen[n]: the database in n's replica
    loop,       \* loop[n]: where n's Worker.Run is
    told,       \* the nodes whose worker context is cancelled
    todo,       \* todo[n]: what is left of the list n's loop is going through
    tasks       \* the tasks handed to the pools and not finished

log == <<db, offered, stamp>>
raft == <<leader, believes, notify, seen>>
loops == <<loop, told, todo>>
workerVars == <<log, raft, loops, tasks>>

Running == {"recover", "adopt", "idle", "claim", "scan", "wait"}

Task == [node : Nodes, kind : {"fresh", "retry", "finalize"},
         exec : ExecutionIDs, count : Nat, max : Nat,
         step : {"queued", "calling", "record", "complete"},
         outcome : Outcomes \cup {Nil}]

WorkerInit ==
    /\ Init
    /\ leader = Nil
    /\ believes = {}
    /\ notify = [n \in Nodes |-> "none"]
    /\ seen = [n \in Nodes |-> EmptyDatabase]
    /\ loop = [n \in Nodes |-> "off"]
    /\ told = {}
    /\ todo = [n \in Nodes |-> {}]
    /\ tasks = {}

TasksOf(n) == {t \in tasks : t.node = n}

-----------------------------------------------------------------------------
(* Raft, the process, and the clients (external).                           *)

(* The new leader reads its replica as it is, whatever the last one committed. *)
Elect(n) ==
    /\ n \notin believes
    /\ loop[n] # "down"
    /\ leader' = n
    /\ believes' = believes \cup {n}
    /\ notify' = [notify EXCEPT ![n] = "elected"]
    /\ UNCHANGED <<log, seen, loops, tasks>>

(* n stops believing it leads, and is told so. *)
SteppedDown(n) ==
    /\ leader' = IF leader = n THEN Nil ELSE leader
    /\ believes' = believes \ {n}
    /\ notify' = [notify EXCEPT ![n] = "deposed"]

StepDown(n) ==
    /\ n \in believes
    /\ SteppedDown(n)
    /\ UNCHANGED <<log, seen, loops, tasks>>

(* n's replica applies the log up to its end. *)
Replicate(n) ==
    /\ loop[n] # "down"
    /\ seen[n] # db
    /\ seen' = [seen EXCEPT ![n] = db]
    /\ UNCHANGED <<log, leader, believes, notify, loops, tasks>>

(* The process stops, with whatever its worker was doing. *)
Stop(n) ==
    /\ loop[n] # "down"
    /\ leader' = IF leader = n THEN Nil ELSE leader
    /\ believes' = believes \ {n}
    /\ notify' = [notify EXCEPT ![n] = "none"]
    /\ loop' = [loop EXCEPT ![n] = "down"]
    /\ told' = told \ {n}
    /\ todo' = [todo EXCEPT ![n] = {}]
    /\ tasks' = tasks \ TasksOf(n)
    /\ UNCHANGED <<log, seen>>

Client ==
    /\ leader # Nil
    /\ \E at \in ProposedTimes :
         \/ \E t \in Tenants : CreateTenant(t, at)
         \/ \E s \in ScheduleIDs :
              \/ CreateSchedule(s, at)
              \/ "update" \in ClientCommands /\ UpdateSchedule(s, at)
              \/ "pause" \in ClientCommands /\ PauseSchedule(s, at)
              \/ "resume" \in ClientCommands /\ ResumeSchedule(s, at)
              \/ "cancel" \in ClientCommands /\ CancelSchedule(s, at)
    /\ seen' = [seen EXCEPT ![leader] = db']
    /\ UNCHANGED <<leader, believes, notify, loops, tasks>>

-----------------------------------------------------------------------------
(* RaftNode.Propose by n of an entry that turns db into tx where it is        *)
(* accepted.                                                                 *)

Committed(n, accepted, tx, at) ==
    /\ n = leader
    /\ IF accepted THEN Commit(tx, at) ELSE UNCHANGED log

(* n's replica has applied the entry when the answer reaches the caller. *)
Answered(n, accepted, tx, at) ==
    /\ Committed(n, accepted, tx, at)
    /\ seen' = [seen EXCEPT ![n] = db']
    /\ UNCHANGED <<leader, believes, notify>>

(* An error: n lost its leadership while the entry was being committed, or     *)
(* the entry never got into the log (not the leader, enqueue timeout).       *)
Unanswered(n, accepted, tx, at) ==
    \/ /\ Committed(n, accepted, tx, at)
       /\ SteppedDown(n)
       /\ UNCHANGED seen
    \/ UNCHANGED <<log, raft>>

-----------------------------------------------------------------------------
(* The supervisor of n, as its worker sees it.                              *)

(* Elected: start a worker, unless one is still held. *)
StartLoop(n) ==
    /\ notify[n] = "elected"
    /\ n \notin told
    /\ notify' = [notify EXCEPT ![n] = "none"]
    /\ loop' = [loop EXCEPT ![n] = IF @ = "off" THEN "recover" ELSE @]
    /\ UNCHANGED <<log, leader, believes, seen, told, todo, tasks>>

(* Deposed: cancel the worker's context; one that has returned is forgotten. *)
StopLoop(n) ==
    /\ notify[n] = "deposed"
    /\ n \notin told
    /\ notify' = [notify EXCEPT ![n] = "none"]
    /\ loop' = [loop EXCEPT ![n] = IF @ = "returned" THEN "off" ELSE @]
    /\ told' = IF loop[n] \in {"off", "returned"} THEN told ELSE told \cup {n}
    /\ UNCHANGED <<log, leader, believes, seen, todo, tasks>>

-----------------------------------------------------------------------------
(* Worker.Run: recovery, then a tick after another.                         *)

Goto(n, where, list) ==
    /\ loop' = [loop EXCEPT ![n] = where]
    /\ todo' = [todo EXCEPT ![n] = list]
    /\ UNCHANGED told

(* Go on through the list, and to next after it. *)
GoThrough(n, here, list, next) ==
    Goto(n, IF list = {} THEN next ELSE here, list)

(* Run returns: it waits for the pool, and the supervisor for it. *)
Quit(n) == Goto(n, "drain", {})

Drained(n) ==
    /\ loop[n] = "drain"
    /\ TasksOf(n) = {}
    /\ loop' = [loop EXCEPT ![n] = IF n \in told THEN "off" ELSE "returned"]
    /\ told' = told \ {n}
    /\ UNCHANGED <<log, raft, todo, tasks>>

(* A read fails on a node that does not believe it leads, and a loop that is    *)
(* told stops at its next check of the context.                              *)
GiveUp(n) ==
    /\ \/ loop[n] \in Running \ {"wait"} /\ n \in told
       \/ loop[n] \in {"recover", "adopt", "idle"} /\ n \notin believes
    /\ Quit(n)
    /\ UNCHANGED <<log, raft, tasks>>

InFlight(tx) == {e \in Executions(tx) : tx.executions[e].status = "in_flight"}

(* runRecover reads the executions in flight. *)
ListInFlight(n) ==
    /\ loop[n] = "recover"
    /\ n \in believes \ told
    /\ GoThrough(n, "adopt",
                 {[exec |-> e, owner |-> seen[n].executions[e].ownerNodeID] :
                    e \in InFlight(seen[n])},
                 "idle")
    /\ UNCHANGED <<log, raft, tasks>>

(* The attempts of e in a replica, and the last one by the order of keys. *)
AttemptsIn(tx, e) == {a \in Attempts(tx) : tx.attempts[a].executionID = e}

LastOutcome(tx, e) ==
    IF AttemptsIn(tx, e) = {} THEN Nil
    ELSE LET last == CHOOSE a \in AttemptsIn(tx, e) :
                        \A b \in AttemptsIn(tx, e) : b <= a
         IN  tx.attempts[last].outcome

Verdict(outcome) ==
    IF outcome = "success" THEN "succeeded" ELSE "failed_terminal"

(* classifyOne and adoptOrComplete: an execution whose last attempt is final   *)
(* is completed, any other is adopted; whether the entry is rejected does not *)
(* matter.                                                                   *)
AdoptOrComplete(n) ==
    /\ loop[n] = "adopt"
    /\ n \in believes \ told
    /\ \E x \in todo[n], at \in ProposedTimes :
         LET outcome == LastOutcome(seen[n], x.exec)
             adopt == [executionID |-> x.exec, previousOwner |-> x.owner,
                       newOwner |-> n]
             complete == [executionID |-> x.exec, finalStatus |-> Verdict(outcome)]
             adopts == outcome \in {Nil, "retry"}
             accepted == IF adopts THEN AdoptExecutionAccepted(db, adopt)
                         ELSE CompleteExecutionAccepted(db, complete)
             tx == IF adopts THEN ApplyAdoptExecution(db, adopt)
                   ELSE ApplyCompleteExecution(db, complete)
         IN  \/ /\ Answered(n, accepted, tx, at)
                /\ GoThrough(n, "adopt", todo[n] \ {x}, "idle")
             \/ /\ Unanswered(n, accepted, tx, at)
                /\ Quit(n)
    /\ UNCHANGED tasks

(* Mutant: a schedule without a next_run_at is claimed as well. *)
DueUnchecked(tx) ==
    {s \in ScheduleIDs : tx.tenants # {} /\ tx.schedules[s] # Nil}

(* The schedules a clock that is late enough finds due.  The tenants are listed   *)
(* first: with none, there is nothing to scan.                               *)
Due(tx) ==
    {s \in ScheduleIDs : /\ tx.tenants # {}
                         /\ tx.schedules[s] # Nil
                         /\ tx.schedules[s].nextRunAt # Nil}

(* runTick reads the schedules that are due by the node's clock. *)
ListDue(n) ==
    /\ loop[n] = "idle"
    /\ n \in believes \ told
    /\ \E due \in SUBSET Due(seen[n]) :
         GoThrough(n, "claim",
                   {[schedule |-> s, at |-> seen[n].schedules[s].nextRunAt] : s \in due},
                   "scan")
    /\ UNCHANGED <<log, raft, tasks>>

(* Claim an occurrence; whoever's claim is accepted dispatches it. *)
Claim(n) ==
    /\ loop[n] = "claim"
    /\ n \notin told
    /\ \E x \in todo[n] :
         /\ GoThrough(n, "claim", todo[n] \ {x}, "scan")
         /\ \/ UNCHANGED <<log, raft, tasks>>
            \/ \E e \in ExecutionIDs \ Executions(db), at \in ProposedTimes :
                 LET cmd == [id |-> e, scheduleID |-> x.schedule,
                             scheduledFor |-> x.at, ownerNodeID |-> n]
                     accepted == ClaimExecutionAccepted(db, cmd)
                     tx == ApplyClaimExecution(db, cmd)
                     task == [node |-> n, kind |-> "fresh", exec |-> e, count |-> 0,
                              max |-> 0, step |-> "queued", outcome |-> Nil]
                 IN  \/ /\ Answered(n, accepted, tx, at)
                        /\ tasks' = IF accepted THEN tasks \cup {task} ELSE tasks
                     \/ Unanswered(n, accepted, tx, at) /\ UNCHANGED tasks

(* Mutant: whatever has been attempted. *)
NeedsFinalizeOnceAttempted(row) == row.lastAttemptID # Nil

(* The last attempt is not to be retried. *)
NeedsFinalize(row) == row.lastAttemptID # Nil /\ row.lastRetryAt = Nil

(* The in-flight scan: an execution whose last attempt is not to be retried is  *)
(* finalized, one whose retry instant has passed on the node's clock (elapsed)  *)
(* is retried.  Nothing is asked about its owner.                            *)
ScanInFlight(n, elapsed) ==
    /\ loop[n] = "scan"
    /\ n \in believes \ told
    /\ LET row(e) == seen[n].executions[e]
           found(e, kind) == [node |-> n, kind |-> kind, exec |-> e,
                              count |-> row(e).attemptCount, max |-> 0,
                              step |-> "queued", outcome |-> Nil]
           final == {e \in InFlight(seen[n]) : NeedsFinalize(row(e))}
           retried == {e \in InFlight(seen[n]) \ final :
                         row(e).lastRetryAt # Nil /\ e \in elapsed}
       IN  tasks' = tasks \cup {found(e, "finalize") : e \in final}
                          \cup {found(e, "retry") : e \in retried}
    /\ Goto(n, "wait", {})
    /\ UNCHANGED <<log, raft>>

(* The list could not be read: the tenant is left for the next tick. *)
SkipScan(n) ==
    /\ loop[n] = "scan"
    /\ n \notin believes
    /\ Goto(n, "wait", {})
    /\ UNCHANGED <<log, raft, tasks>>

(* Mutant: wg.Wait is left out. *)
EndTickWithoutWait(n) ==
    /\ loop[n] = "wait"
    /\ Goto(n, "idle", {})
    /\ UNCHANGED <<log, raft, tasks>>

(* The tick waits for the tasks it handed out, and the loop for the ticker. *)
EndTick(n) ==
    /\ loop[n] = "wait"
    /\ TasksOf(n) = {}
    /\ Goto(n, "idle", {})
    /\ UNCHANGED <<log, raft, tasks>>

-----------------------------------------------------------------------------
(* The tasks: freshFireTask.run, and inFlightTask.run by kind.               *)

Advance(t, u) == tasks' = (tasks \ {t}) \cup {u}
Finish(t) == tasks' = tasks \ {t}

(* 2xx is success; a failure is terminal from the schedule's limit on. *)
classifyAttemptOutcome(ok, attemptNumber, maxAttempts) ==
    IF ok THEN "success"
    ELSE IF maxAttempts > 0 /\ attemptNumber >= maxAttempts
    THEN "terminal_failure"
    ELSE "retry"

ParentOf(tx, e) == tx.schedules[tx.executions[e].scheduleID]

(* The schedule is read again before the callback is sent. *)
MayDispatch(t) ==
    /\ t.node \in believes \ told
    /\ ParentOf(seen[t.node], t.exec).status = "active"

(* The task ends without a call where the schedule is not active, or where no    *)
(* request can be built from its callback URL.                               *)
Dispatch(t) ==
    /\ t.step = "queued"
    /\ t.kind \in {"fresh", "retry"}
    /\ \/ /\ MayDispatch(t)
          /\ Advance(t, [t EXCEPT !.step = "calling",
                                  !.max = ParentOf(seen[t.node], t.exec).maxAttempts])
       \/ Finish(t)
    /\ UNCHANGED <<log, raft, loops>>

CallReturns(t, ok) ==
    /\ t.step = "calling"
    /\ Advance(t, [t EXCEPT !.step = "record",
                            !.outcome = classifyAttemptOutcome(ok, t.count + 1, t.max)])
    /\ UNCHANGED <<log, raft, loops>>

(* The context was cancelled during the call: nothing is recorded. *)
CallCanceled(t) ==
    /\ t.step = "calling"
    /\ t.node \in told
    /\ Finish(t)
    /\ UNCHANGED <<log, raft, loops>>

(* The keys a new attempt row may get. *)
NewAttemptIDs ==
    {a \in AttemptIDs \ Attempts(db) :
        ClocksAgree => \A b \in AttemptIDs : b < a => db.attempts[b] # Nil}

(* Mutant: every attempt gets a retry instant. *)
RetryAtAlways(outcome, at) == at

(* Mutant: none does. *)
RetryAtNever(outcome, at) == Nil

RetryAt(outcome, at) == IF outcome = "retry" THEN at ELSE Nil

(* Mutant: the answer's CommandError is not looked at. *)
GoesOnUnchecked(t, accepted) == t.outcome # "retry" /\ t.node \notin told

(* The attempt was recorded and is final, and the worker is not being stopped. *)
GoesOn(t, accepted) == accepted /\ t.outcome # "retry" /\ t.node \notin told

(* Record the attempt, and go on to complete the execution if it was final. *)
Record(t) ==
    /\ t.step = "record"
    /\ \/ UNCHANGED <<log, raft>> /\ Finish(t)
       \/ \E a \in NewAttemptIDs, r \in RetryTimes, at \in ProposedTimes :
            LET cmd == [id |-> a, executionID |-> t.exec, nodeID |-> t.node,
                        outcome |-> t.outcome, retryAt |-> RetryAt(t.outcome, r)]
                accepted == RecordAttemptAccepted(db, cmd)
                tx == ApplyRecordAttempt(db, cmd)
            IN  \/ /\ Answered(t.node, accepted, tx, at)
                   /\ IF GoesOn(t, accepted)
                      THEN Advance(t, [t EXCEPT !.step = "complete"])
                      ELSE Finish(t)
                \/ Unanswered(t.node, accepted, tx, at) /\ Finish(t)
    /\ UNCHANGED loops

(* runFinalize reads the verdict off the last attempt. *)
Finalize(t) ==
    /\ t.step = "queued"
    /\ t.kind = "finalize"
    /\ LET outcome == LastOutcome(seen[t.node], t.exec)
       IN  IF t.node \in believes \ told /\ outcome \in {"success", "terminal_failure"}
           THEN Advance(t, [t EXCEPT !.step = "complete", !.outcome = outcome])
           ELSE Finish(t)
    /\ UNCHANGED <<log, raft, loops>>

Complete(t) ==
    /\ t.step = "complete"
    /\ \E at \in ProposedTimes :
         LET cmd == [executionID |-> t.exec, finalStatus |-> Verdict(t.outcome)]
             accepted == CompleteExecutionAccepted(db, cmd)
             tx == ApplyCompleteExecution(db, cmd)
         IN  Answered(t.node, accepted, tx, at) \/ Unanswered(t.node, accepted, tx, at)
    /\ Finish(t)
    /\ UNCHANGED loops

LoopStep(n) ==
    \/ StartLoop(n) \/ StopLoop(n) \/ Drained(n) \/ GiveUp(n)
    \/ ListInFlight(n) \/ AdoptOrComplete(n)
    \/ ListDue(n) \/ Claim(n)
    \/ \E elapsed \in SUBSET ExecutionIDs : ScanInFlight(n, elapsed)
    \/ SkipScan(n) \/ EndTick(n)

TaskStep(t) ==
    \/ Dispatch(t)
    \/ \E ok \in BOOLEAN : CallReturns(t, ok)
    \/ CallCanceled(t) \/ Record(t) \/ Finalize(t) \/ Complete(t)

WorkerNext ==
    \/ \E n \in Nodes : Elect(n) \/ StepDown(n) \/ Replicate(n) \/ Stop(n)
    \/ Client
    \/ \E n \in Nodes : LoopStep(n)
    \/ \E t \in tasks : TaskStep(t)

(* An entry of n is committed and answered in this step. *)
Succeeds(n) == n = leader /\ db' # db /\ UNCHANGED <<leader, believes>>

(* The goroutines of a node are scheduled, its replica catches up, and callbacks  *)
(* end (they have a timeout).  A proposal of a leader that stays one is not      *)
(* refused for ever, and a retry instant is reached.  Raft's elections, the       *)
(* clients and a process that stops owe nobody a step.                        *)
Fairness ==
    \A n \in Nodes :
        /\ WF_workerVars(Replicate(n))
        /\ WF_workerVars(LoopStep(n))
        /\ SF_workerVars(ScanInFlight(n, ExecutionIDs))
        /\ \A e \in ExecutionIDs :
             LET task(A(_)) == \E t \in TasksOf(n) : t.exec = e /\ A(t)
             IN  /\ WF_workerVars(task(TaskStep))
                 /\ SF_workerVars(task(Record) /\ Succeeds(n))
                 /\ SF_workerVars(task(Complete) /\ Succeeds(n))

WorkerSpec == WorkerInit /\ [][WorkerNext]_workerVars

FairWorkerSpec == WorkerSpec /\ Fairness

-----------------------------------------------------------------------------
(* Properties. *)

(* Every row, message and task has its type, and raft's leader believes it leads. *)
WorkerTypeOK ==
    /\ TypeOK
    /\ leader \in believes \cup {Nil}
    /\ believes \subseteq Nodes
    /\ notify \in [Nodes -> {"none", "elected", "deposed"}]
    /\ seen \in [Nodes -> Database]
    /\ loop \in [Nodes -> Running \cup {"off", "drain", "returned", "down"}]
    /\ told \subseteq Nodes
    /\ tasks \subseteq Task

(* A node never has two callbacks of one execution under way. *)
OneCallPerNode ==
    \A t, u \in tasks :
        /\ t.node = u.node /\ t.exec = u.exec
        /\ t.step \in {"calling", "record"} /\ u.step \in {"calling", "record"}
        => t = u

(* An ended execution has the verdict of one of its attempts: none is reported  *)
(* successful without a callback that was, or failed without one that was the  *)
(* last allowed.                                                             *)
EndsAsAttempted ==
    \A e \in Executions(db) :
        IsTerminal(db.executions[e].status) =>
            \E a \in AttemptsIn(db, e) :
                /\ db.attempts[a].outcome # "retry"
                /\ db.executions[e].status = Verdict(db.attempts[a].outcome)

(* Whatever the workers do, crashes and re-elections included, the log they      *)
(* build is one of module StateMachine.                                      *)
WorkersMakeLog == Spec

(* n leads for good: raft commits its proposals and its loop runs. *)
Steady(n) == leader = n /\ n \notin told /\ loop[n] \in Running

(* The call of a task for e on n, when it is dispatched. *)
Sends(n, e) ==
    \E t \in TasksOf(n) : t.exec = e /\ Dispatch(t) /\ tasks' # tasks \ {t}

(* The callback URLs can be parsed: a task that is dispatched over and over      *)
(* sends a request.                                                          *)
RequestsCanBeBuilt ==
    \A n \in Nodes, e \in ExecutionIDs : SF_workerVars(Sends(n, e))

(* Where requests can be built, an execution the steady leader owns does not     *)
(* stay in flight once it has been attempted, while its schedule is active and   *)
(* ids for attempts are left: it is retried, and finalized even if the worker    *)
(* that recorded its last attempt stopped before completing it, whatever          *)
(* update_schedule does to the limit in the meantime.                        *)
AttemptedEnds ==
    RequestsCanBeBuilt =>
        \A n \in Nodes, e \in ExecutionIDs :
            ~<>[](/\ Steady(n)
                  /\ e \in InFlight(db)
                  /\ db.executions[e].ownerNodeID = n
                  /\ db.executions[e].attemptCount > 0
                  /\ ParentOf(db, e).status = "active"
                  /\ NewAttemptIDs # {})

(* The summary of record_attempt and the order of the keys name the same last     *)
(* attempt: the finalize task, which the scan picks by the summary and which     *)
(* looks for the outcome under the last key, finds one that is final.  That    *)
(* needs ClocksAgree: ids made later in the log must sort later.             *)
FinalizeFindsFinal ==
    \A e \in InFlight(db) :
        NeedsFinalize(db.executions[e]) =>
            LastOutcome(db, e) \in {"success", "terminal_failure"}
=============================================================================
