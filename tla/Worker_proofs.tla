---------------------------- MODULE Worker_proofs ----------------------------
(***************************************************************************)
(* The leader loops build a log of module StateMachine, for any nodes, ids,  *)
(* schedules and clocks, so that what is proved of the log holds of the      *)
(* cluster: its entries are those the loops get committed.                  *)
(***************************************************************************)
EXTENDS Worker, StateMachine_proofs

(* What a loop goes through: the executions it recovers, the schedules it        *)
(* found due.                                                                *)
Recovered == [exec : ExecutionIDs, owner : Nodes \cup {Nil}]
FoundDue == [schedule : ScheduleIDs, at : Int]

LoopTypes ==
    /\ seen \in [Nodes -> Database]
    /\ loop \in [Nodes -> Running \cup {"off", "drain", "returned", "down"}]
    /\ todo \in [Nodes -> SUBSET (Recovered \cup FoundDue)]
    /\ tasks \subseteq Task

(* What a node will propose is something it may propose: claims are of instants  *)
(* it read, attempts have an outcome.                                        *)
ProposalsSound ==
    /\ \A n \in Nodes : ReadsOffered(seen[n])
    /\ \A n \in Nodes : loop[n] = "adopt" => todo[n] \subseteq Recovered
    /\ \A n \in Nodes : loop[n] = "claim" =>
         /\ todo[n] \subseteq FoundDue
         /\ \A x \in todo[n] : x.at \in offered[x.schedule]
    /\ \A t \in tasks : t.step = "record" => t.outcome \in Outcomes

(* A replica is a database of the past: what it has, the log's has.  Its           *)
(* executions have their schedules, and a task finds its execution.          *)
ReplicasBehind ==
    /\ \A n \in Nodes : \A e \in Executions(seen[n]) :
         /\ e \in Executions(db)
         /\ seen[n].schedules[seen[n].executions[e].scheduleID] # Nil
    /\ \A t \in tasks : t.exec \in Executions(seen[t.node])

(* Raft's part of the types. *)
RaftTypes ==
    /\ leader \in believes \cup {Nil}
    /\ believes \subseteq Nodes
    /\ notify \in [Nodes -> {"none", "elected", "deposed"}]
    /\ told \subseteq Nodes

WInv ==
    /\ IInv
    /\ OwnershipInv
    /\ ReadsOffered(db)
    /\ LoopTypes
    /\ ProposalsSound
    /\ ReplicasBehind
    /\ RaftTypes

-----------------------------------------------------------------------------
(* A proposal adds one entry of the leader's to the log, or none. *)

LEMMA ProposalIsEntry ==
    ASSUME NEW n, NEW accepted \in BOOLEAN, NEW tx, NEW at,
           Answered(n, accepted, tx, at) \/ Unanswered(n, accepted, tx, at)
    PROVE  (n = leader /\ accepted /\ Commit(tx, at)) \/ UNCHANGED vars
BY DEF Answered, Unanswered, Committed, log, vars

(* What recovery proposes of the execution it came to. *)
AdoptionBy(n, x) ==
    [executionID |-> x.exec, previousOwner |-> x.owner, newOwner |-> n]

CompletionAs(e, outcome) == [executionID |-> e, finalStatus |-> Verdict(outcome)]

LEMMA AdoptOrCompleteIsEntry ==
    ASSUME NEW n, AdoptOrComplete(n)
    PROVE  \E x \in todo[n], at \in ProposedTimes :
             \/ UNCHANGED vars
             \/ /\ n = leader
                /\ AdoptExecutionAccepted(db, AdoptionBy(n, x))
                /\ Commit(ApplyAdoptExecution(db, AdoptionBy(n, x)), at)
             \/ \E o : /\ n = leader
                       /\ o \notin {Nil, "retry"} /\ o = LastOutcome(seen[n], x.exec)
                       /\ CompleteExecutionAccepted(db, CompletionAs(x.exec, o))
                       /\ Commit(ApplyCompleteExecution(db, CompletionAs(x.exec, o)), at)
<1>1. PICK x \in todo[n], at \in ProposedTimes :
        LET outcome == LastOutcome(seen[n], x.exec)
            adopt == [executionID |-> x.exec, previousOwner |-> x.owner,
                      newOwner |-> n]
            complete == [executionID |-> x.exec, finalStatus |-> Verdict(outcome)]
            adopts == outcome \in {Nil, "retry"}
            accepted == IF adopts THEN AdoptExecutionAccepted(db, adopt)
                        ELSE CompleteExecutionAccepted(db, complete)
            tx == IF adopts THEN ApplyAdoptExecution(db, adopt)
                  ELSE ApplyCompleteExecution(db, complete)
        IN  Answered(n, accepted, tx, at) \/ Unanswered(n, accepted, tx, at)
  BY DEF AdoptOrComplete
<1> DEFINE o == LastOutcome(seen[n], x.exec)
           adopt == AdoptionBy(n, x)
           complete == CompletionAs(x.exec, o)
<1>2. CASE o \in {Nil, "retry"}
  <2>1. AdoptExecutionAccepted(db, adopt) \in BOOLEAN
    BY DEF AdoptExecutionAccepted
  <2>2. \/ Answered(n, AdoptExecutionAccepted(db, adopt), ApplyAdoptExecution(db, adopt), at)
        \/ Unanswered(n, AdoptExecutionAccepted(db, adopt), ApplyAdoptExecution(db, adopt), at)
    BY <1>1, <1>2 DEF AdoptionBy
  <2> QED
    BY <2>1, <2>2, ProposalIsEntry
<1>3. CASE o \notin {Nil, "retry"}
  <2>1. CompleteExecutionAccepted(db, complete) \in BOOLEAN
    BY DEF CompleteExecutionAccepted
  <2>2. \/ Answered(n, CompleteExecutionAccepted(db, complete),
                    ApplyCompleteExecution(db, complete), at)
        \/ Unanswered(n, CompleteExecutionAccepted(db, complete),
                      ApplyCompleteExecution(db, complete), at)
    BY <1>1, <1>3 DEF CompletionAs
  <2> QED
    BY <1>3, <2>1, <2>2, ProposalIsEntry
<1> QED
  BY <1>2, <1>3

ClaimBy(n, x, e) ==
    [id |-> e, scheduleID |-> x.schedule, scheduledFor |-> x.at, ownerNodeID |-> n]

LEMMA ClaimIsEntry ==
    ASSUME NEW n, Claim(n)
    PROVE  \E x \in todo[n] :
             \/ UNCHANGED vars
             \/ \E e \in ExecutionIDs \ Executions(db), at \in ProposedTimes :
                  /\ n = leader
                  /\ ClaimExecutionAccepted(db, ClaimBy(n, x, e))
                  /\ Commit(ApplyClaimExecution(db, ClaimBy(n, x, e)), at)
<1>1. ASSUME NEW e \in ExecutionIDs, NEW at \in ProposedTimes, NEW x
      PROVE  LET cmd == [id |-> e, scheduleID |-> x.schedule,
                         scheduledFor |-> x.at, ownerNodeID |-> n]
                 accepted == ClaimExecutionAccepted(db, cmd)
                 tx == ApplyClaimExecution(db, cmd)
             IN  Answered(n, accepted, tx, at) \/ Unanswered(n, accepted, tx, at)
                   => (n = leader /\ accepted /\ Commit(tx, at)) \/ UNCHANGED vars
  <2> DEFINE cmd == [id |-> e, scheduleID |-> x.schedule,
                     scheduledFor |-> x.at, ownerNodeID |-> n]
  <2>1. ClaimExecutionAccepted(db, cmd) \in BOOLEAN
    BY DEF ClaimExecutionAccepted
  <2> HIDE DEF cmd
  <2>2. ASSUME NEW accepted \in BOOLEAN, NEW tx
        PROVE  Answered(n, accepted, tx, at) \/ Unanswered(n, accepted, tx, at)
                 => (n = leader /\ accepted /\ Commit(tx, at)) \/ UNCHANGED vars
    BY ProposalIsEntry
  <2> QED
    BY <2>1, <2>2 DEF cmd
<1>2. ASSUME UNCHANGED <<log, raft, tasks>> PROVE UNCHANGED vars
  BY <1>2 DEF log, vars
<1> QED
  BY <1>1, <1>2 DEF Claim, ClaimBy

AttemptOf(t, a, r) ==
    [id |-> a, executionID |-> t.exec, nodeID |-> t.node,
     outcome |-> t.outcome, retryAt |-> RetryAt(t.outcome, r)]

LEMMA RecordIsEntry ==
    ASSUME NEW t, Record(t)
    PROVE  \/ UNCHANGED vars
           \/ \E a \in NewAttemptIDs, r \in RetryTimes, at \in ProposedTimes :
                /\ t.node = leader
                /\ RecordAttemptAccepted(db, AttemptOf(t, a, r))
                /\ Commit(ApplyRecordAttempt(db, AttemptOf(t, a, r)), at)
<1>1. CASE UNCHANGED <<log, raft>>
  BY <1>1 DEF log, vars
<1>2. ASSUME NEW a \in NewAttemptIDs, NEW r \in RetryTimes, NEW at \in ProposedTimes,
             LET cmd == [id |-> a, executionID |-> t.exec, nodeID |-> t.node,
                         outcome |-> t.outcome, retryAt |-> RetryAt(t.outcome, r)]
                 accepted == RecordAttemptAccepted(db, cmd)
                 tx == ApplyRecordAttempt(db, cmd)
             IN  \/ Answered(t.node, accepted, tx, at)
                 \/ Unanswered(t.node, accepted, tx, at)
      PROVE  \/ UNCHANGED vars
             \/ /\ t.node = leader
                /\ RecordAttemptAccepted(db, AttemptOf(t, a, r))
                /\ Commit(ApplyRecordAttempt(db, AttemptOf(t, a, r)), at)
  <2> DEFINE cmd == AttemptOf(t, a, r)
  <2>1. RecordAttemptAccepted(db, cmd) \in BOOLEAN
    BY DEF RecordAttemptAccepted
  <2>2. \/ Answered(t.node, RecordAttemptAccepted(db, cmd), ApplyRecordAttempt(db, cmd), at)
        \/ Unanswered(t.node, RecordAttemptAccepted(db, cmd), ApplyRecordAttempt(db, cmd), at)
    BY <1>2 DEF AttemptOf
  <2> QED
    BY <2>1, <2>2, ProposalIsEntry
<1> QED
  BY <1>1, <1>2 DEF Record

LEMMA CompleteIsEntry ==
    ASSUME NEW t, Complete(t)
    PROVE  \E at \in ProposedTimes :
             \/ UNCHANGED vars
             \/ /\ t.node = leader
                /\ CompleteExecutionAccepted(db, CompletionAs(t.exec, t.outcome))
                /\ Commit(ApplyCompleteExecution(db, CompletionAs(t.exec, t.outcome)), at)
<1> DEFINE cmd == CompletionAs(t.exec, t.outcome)
<1>1. PICK at \in ProposedTimes :
        \/ Answered(t.node, CompleteExecutionAccepted(db, cmd),
                    ApplyCompleteExecution(db, cmd), at)
        \/ Unanswered(t.node, CompleteExecutionAccepted(db, cmd),
                      ApplyCompleteExecution(db, cmd), at)
  BY DEF Complete, CompletionAs
<1>2. CompleteExecutionAccepted(db, cmd) \in BOOLEAN
  BY DEF CompleteExecutionAccepted
<1> QED
  BY <1>1, <1>2, ProposalIsEntry

(* Each step of the cluster is an entry of the log, or leaves the log alone. *)
LEMMA StepIsEntry == WInv /\ [WorkerNext]_workerVars => [Next]_vars
<1> SUFFICES ASSUME WInv, [WorkerNext]_workerVars PROVE [Next]_vars
  OBVIOUS
<1> USE DEF WInv
<1>1. ASSUME NEW n \in Nodes, Elect(n) \/ StepDown(n) \/ Replicate(n) \/ Stop(n)
      PROVE  UNCHANGED vars
  BY <1>1 DEF Elect, StepDown, Replicate, Stop, log, vars
<1>2. ASSUME Client PROVE Next
  BY <1>2 DEF Client, Next
<1>3. ASSUME NEW n \in Nodes, LoopStep(n) PROVE [Next]_vars
  <2>1. CASE StartLoop(n) \/ StopLoop(n) \/ Drained(n) \/ GiveUp(n)
    BY <2>1 DEF StartLoop, StopLoop, Drained, GiveUp, log, vars
  <2>2. CASE ListInFlight(n) \/ ListDue(n)
    BY <2>2 DEF ListInFlight, ListDue, log, vars
  <2>3. CASE (\E elapsed \in SUBSET ExecutionIDs : ScanInFlight(n, elapsed))
               \/ SkipScan(n) \/ EndTick(n)
    BY <2>3 DEF ScanInFlight, SkipScan, EndTick, log, vars
  <2>4. CASE AdoptOrComplete(n)
    <3>1. PICK x \in todo[n], at \in ProposedTimes :
            \/ UNCHANGED vars
            \/ /\ AdoptExecutionAccepted(db, AdoptionBy(n, x))
               /\ Commit(ApplyAdoptExecution(db, AdoptionBy(n, x)), at)
            \/ \E o : /\ CompleteExecutionAccepted(db, CompletionAs(x.exec, o))
                      /\ Commit(ApplyCompleteExecution(db, CompletionAs(x.exec, o)), at)
      BY <2>4, AdoptOrCompleteIsEntry
    <3>2. x \in Recovered
      BY <2>4 DEF AdoptOrComplete, ProposalsSound
    <3>3. ASSUME AdoptExecutionAccepted(db, AdoptionBy(n, x)),
                 Commit(ApplyAdoptExecution(db, AdoptionBy(n, x)), at)
          PROVE  Next
      <4>1. x.owner \in Nodes
        BY <3>2, <3>3 DEF AdoptExecutionAccepted, AdoptionBy, Recovered
      <4>2. AdoptExecution(x.exec, at)
        BY <3>3, <4>1 DEF AdoptExecution, AdoptionBy
      <4> QED
        BY <3>2, <4>2 DEF Next, Recovered
    <3>4. ASSUME NEW o, CompleteExecutionAccepted(db, CompletionAs(x.exec, o)),
                 Commit(ApplyCompleteExecution(db, CompletionAs(x.exec, o)), at)
          PROVE  Next
      <4>1. CompleteExecution(x.exec, at)
        BY <3>4 DEF CompleteExecution, CompletionAs, Verdict
      <4> QED
        BY <3>2, <4>1 DEF Next, Recovered
    <3> QED
      BY <3>1, <3>3, <3>4
  <2>5. CASE Claim(n)
    <3>1. PICK x \in todo[n] :
            \/ UNCHANGED vars
            \/ \E e \in ExecutionIDs \ Executions(db), at \in ProposedTimes :
                 /\ ClaimExecutionAccepted(db, ClaimBy(n, x, e))
                 /\ Commit(ApplyClaimExecution(db, ClaimBy(n, x, e)), at)
      BY <2>5, ClaimIsEntry
    <3>2. x \in FoundDue /\ x.at \in offered[x.schedule]
      BY <2>5 DEF Claim, ProposalsSound
    <3>3. ASSUME NEW e \in ExecutionIDs \ Executions(db), NEW at \in ProposedTimes,
                 ClaimExecutionAccepted(db, ClaimBy(n, x, e)),
                 Commit(ApplyClaimExecution(db, ClaimBy(n, x, e)), at)
          PROVE  Next
      <4>1. ClaimExecution(x.schedule, e, at)
        BY <3>2, <3>3 DEF ClaimExecution, ClaimBy, Executions
      <4> QED
        BY <3>2, <4>1 DEF Next, FoundDue
    <3> QED
      BY <3>1, <3>3
  <2> QED
    BY <1>3, <2>1, <2>2, <2>3, <2>4, <2>5 DEF LoopStep
<1>4. ASSUME NEW t \in tasks, TaskStep(t) PROVE [Next]_vars
  <2>0. t.exec \in ExecutionIDs /\ t.node \in Nodes
    BY DEF LoopTypes, Task
  <2>1. CASE Dispatch(t) \/ CallCanceled(t) \/ Finalize(t)
    <3>1. UNCHANGED log
      BY <2>1, Zenon DEF Dispatch, CallCanceled, Finalize
    <3> QED
      BY <3>1 DEF log, vars
  <2>4. ASSUME NEW ok \in BOOLEAN, CallReturns(t, ok) PROVE UNCHANGED vars
    BY <2>4 DEF CallReturns, log, vars
  <2>2. CASE Record(t)
    <3>1. t.outcome \in Outcomes
      BY <2>2 DEF Record, ProposalsSound
    <3>2. ASSUME NEW a \in NewAttemptIDs, NEW r \in RetryTimes, NEW at \in ProposedTimes,
                 RecordAttemptAccepted(db, AttemptOf(t, a, r)),
                 Commit(ApplyRecordAttempt(db, AttemptOf(t, a, r)), at)
          PROVE  Next
      <4>1. a \in AttemptIDs /\ db.attempts[a] = Nil
        BY DEF NewAttemptIDs, Attempts
      <4>2. RecordAttempt(t.exec, a, at)
        BY <2>0, <3>1, <3>2, <4>1 DEF RecordAttempt, AttemptOf, RetryAt
      <4> QED
        BY <2>0, <4>1, <4>2 DEF Next
    <3> QED
      BY <2>2, <3>2, RecordIsEntry
  <2>3. CASE Complete(t)
    <3>1. ASSUME NEW at \in ProposedTimes,
                 CompleteExecutionAccepted(db, CompletionAs(t.exec, t.outcome)),
                 Commit(ApplyCompleteExecution(db, CompletionAs(t.exec, t.outcome)), at)
          PROVE  Next
      <4>1. CompleteExecution(t.exec, at)
        BY <3>1 DEF CompleteExecution, CompletionAs, Verdict
      <4> QED
        BY <2>0, <4>1 DEF Next
    <3> QED
      BY <2>3, <3>1, CompleteIsEntry
  <2> QED
    BY <1>4, <2>1, <2>2, <2>3, <2>4 DEF TaskStep
<1>5. CASE UNCHANGED workerVars
  BY <1>5 DEF workerVars, log, vars
<1> QED
  BY <1>1, <1>2, <1>3, <1>4, <1>5 DEF WorkerNext

-----------------------------------------------------------------------------
(* The invariant. *)

(* A replica stays as it is or catches up with the log. *)
LEMMA SeenStep ==
    ASSUME [WorkerNext]_workerVars
    PROVE  \/ seen' = seen
           \/ \E n : seen' = [seen EXCEPT ![n] = db]
           \/ \E n : seen' = [seen EXCEPT ![n] = db']
<1> DEFINE Goal == \/ seen' = seen
                   \/ \E n : seen' = [seen EXCEPT ![n] = db]
                   \/ \E n : seen' = [seen EXCEPT ![n] = db']
<1>0. ASSUME NEW n, NEW accepted, NEW tx, NEW at,
             Answered(n, accepted, tx, at) \/ Unanswered(n, accepted, tx, at)
      PROVE  Goal
  BY <1>0 DEF Answered, Unanswered, raft
<1>1. ASSUME NEW n \in Nodes, Elect(n) \/ StepDown(n) \/ Replicate(n) \/ Stop(n)
      PROVE  Goal
  BY <1>1 DEF Elect, StepDown, Replicate, Stop
<1>2. ASSUME Client PROVE Goal
  BY <1>2 DEF Client
<1>3. ASSUME NEW n \in Nodes, LoopStep(n) PROVE Goal
  <2>1. CASE StartLoop(n) \/ StopLoop(n) \/ Drained(n) \/ GiveUp(n)
    BY <2>1 DEF StartLoop, StopLoop, Drained, GiveUp, raft
  <2>2. CASE ListInFlight(n) \/ ListDue(n)
    BY <2>2 DEF ListInFlight, ListDue, raft
  <2>3. CASE (\E elapsed \in SUBSET ExecutionIDs : ScanInFlight(n, elapsed))
               \/ SkipScan(n) \/ EndTick(n)
    BY <2>3 DEF ScanInFlight, SkipScan, EndTick, raft
  <2>4. CASE AdoptOrComplete(n)
    <3>1. \E accepted, tx, at :
            Answered(n, accepted, tx, at) \/ Unanswered(n, accepted, tx, at)
      BY <2>4, Zenon DEF AdoptOrComplete
    <3> QED
      BY <1>0, <3>1
  <2>5. CASE Claim(n)
    <3>1. \/ UNCHANGED <<log, raft, tasks>>
          \/ \E accepted, tx, at :
               Answered(n, accepted, tx, at) \/ Unanswered(n, accepted, tx, at)
      BY <2>5, Zenon DEF Claim
    <3> QED
      BY <1>0, <3>1 DEF raft
  <2> QED
    BY <1>3, <2>1, <2>2, <2>3, <2>4, <2>5 DEF LoopStep
<1>4. ASSUME NEW t \in tasks, TaskStep(t) PROVE Goal
  <2>1. CASE Dispatch(t) \/ CallCanceled(t) \/ Finalize(t)
    <3>1. UNCHANGED raft
      BY <2>1, Zenon DEF Dispatch, CallCanceled, Finalize
    <3> QED
      BY <3>1 DEF raft
  <2>2. ASSUME NEW ok \in BOOLEAN, CallReturns(t, ok) PROVE Goal
    BY <2>2 DEF CallReturns, raft
  <2>3. CASE Record(t)
    <3>1. \/ UNCHANGED <<log, raft>>
          \/ \E accepted, tx, at :
               Answered(t.node, accepted, tx, at) \/ Unanswered(t.node, accepted, tx, at)
      BY <2>3, Zenon DEF Record
    <3> QED
      BY <1>0, <3>1 DEF raft
  <2>4. CASE Complete(t)
    <3>1. \E accepted, tx, at :
            Answered(t.node, accepted, tx, at) \/ Unanswered(t.node, accepted, tx, at)
      BY <2>4, Zenon DEF Complete
    <3> QED
      BY <1>0, <3>1
  <2> QED
    BY <1>4, <2>1, <2>2, <2>3, <2>4 DEF TaskStep
<1>5. CASE UNCHANGED workerVars
  BY <1>5 DEF workerVars, raft
<1> QED
  BY <1>1, <1>2, <1>3, <1>4, <1>5 DEF WorkerNext

TasksSound ==
    /\ tasks \subseteq Task
    /\ \A t \in tasks : t.step = "record" => t.outcome \in Outcomes

(* A task keeps its type, and has an outcome before it records one. *)
LEMMA TasksStep ==
    ASSUME WInv, [WorkerNext]_workerVars
    PROVE  TasksSound'
<1> USE DEF TasksSound
<1>0. TasksSound
  BY DEF WInv, LoopTypes, ProposalsSound
<1>a. ASSUME tasks' \subseteq tasks PROVE TasksSound'
  BY <1>0, <1>a
<1>b. ASSUME NEW u \in Task, tasks' \subseteq tasks \cup {u},
             u.step = "record" => u.outcome \in Outcomes
      PROVE  TasksSound'
  BY <1>0, <1>b
<1>1. ASSUME NEW n \in Nodes, Elect(n) \/ StepDown(n) \/ Replicate(n) \/ Stop(n)
      PROVE  TasksSound'
  BY <1>1, <1>a DEF Elect, StepDown, Replicate, Stop
<1>2. ASSUME Client PROVE TasksSound'
  BY <1>2, <1>a DEF Client
<1>3. ASSUME NEW n \in Nodes, LoopStep(n) PROVE TasksSound'
  <2>1. CASE StartLoop(n) \/ StopLoop(n) \/ Drained(n) \/ GiveUp(n)
    BY <2>1, <1>a DEF StartLoop, StopLoop, Drained, GiveUp
  <2>2. CASE ListInFlight(n) \/ ListDue(n) \/ AdoptOrComplete(n) \/ SkipScan(n) \/ EndTick(n)
    <3>1. UNCHANGED tasks
      BY <2>2, Zenon DEF ListInFlight, ListDue, AdoptOrComplete, SkipScan, EndTick
    <3> QED
      BY <3>1, <1>a
  <2>3. ASSUME NEW elapsed \in SUBSET ExecutionIDs, ScanInFlight(n, elapsed)
        PROVE  TasksSound'
    <3> DEFINE found(e, kind) ==
                 [node |-> n, kind |-> kind, exec |-> e,
                  count |-> seen[n].executions[e].attemptCount, max |-> 0,
                  step |-> "queued", outcome |-> Nil]
    <3>1. \A u \in tasks' \ tasks :
            \E e \in InFlight(seen[n]) : u = found(e, "finalize") \/ u = found(e, "retry")
      BY <2>3 DEF ScanInFlight
    <3>2. \A e \in InFlight(seen[n]) : e \in ExecutionIDs /\ found(e, "retry").count \in Nat
      BY DEF InFlight, Executions, WInv, LoopTypes, Database, Execution
    <3>3. \A e \in InFlight(seen[n]) :
            found(e, "finalize") \in Task /\ found(e, "retry") \in Task
      BY <3>2 DEF Task
    <3>4. \A u \in tasks' \ tasks : u \in Task /\ u.step = "queued"
      <4> SUFFICES ASSUME NEW u \in tasks' \ tasks
                   PROVE  u \in Task /\ u.step = "queued"
        OBVIOUS
      <4>1. PICK e \in InFlight(seen[n]) : u = found(e, "finalize") \/ u = found(e, "retry")
        BY <3>1
      <4>2. found(e, "finalize").step = "queued" /\ found(e, "retry").step = "queued"
        OBVIOUS
      <4> HIDE DEF found
      <4> QED
        BY <3>3, <4>1, <4>2
    <3> HIDE DEF found
    <3> QED
      BY <1>0, <3>4
  <2>4. CASE Claim(n)
    <3>1. \/ UNCHANGED tasks
          \/ \E e \in ExecutionIDs :
               tasks' = tasks \cup {[node |-> n, kind |-> "fresh", exec |-> e, count |-> 0,
                                     max |-> 0, step |-> "queued", outcome |-> Nil]}
      BY <2>4 DEF Claim
    <3>2. \A e \in ExecutionIDs :
            [node |-> n, kind |-> "fresh", exec |-> e, count |-> 0,
             max |-> 0, step |-> "queued", outcome |-> Nil] \in Task
      BY DEF Task
    <3> QED
      BY <1>a, <1>b, <3>1, <3>2
  <2> QED
    BY <1>3, <2>1, <2>2, <2>3, <2>4 DEF LoopStep
<1>4. ASSUME NEW t \in tasks, TaskStep(t) PROVE TasksSound'
  <2>0. t \in Task
    BY <1>0
  <2>1. CASE Dispatch(t)
    <3> DEFINE max == ParentOf(seen[t.node], t.exec).maxAttempts
    <3>1. CASE Advance(t, [t EXCEPT !.step = "calling", !.max = max])
      <4>1. max \in Nat
        <5>1. ParentOf(seen[t.node], t.exec) \in Schedule
          BY <2>0 DEF ParentOf, WInv, LoopTypes, ReplicasBehind, Executions, Database,
                      Execution, Task
        <5> QED
          BY <5>1 DEF Schedule
      <4>2. [t EXCEPT !.step = "calling", !.max = max] \in Task
        BY <2>0, <4>1 DEF Task
      <4> QED
        BY <1>b, <2>0, <2>1, <3>1, <4>2 DEF Dispatch, Advance, Task
    <3>2. CASE Finish(t)
      BY <1>a, <2>1, <3>2 DEF Dispatch, Finish
    <3> QED
      BY <2>1, <3>1, <3>2 DEF Dispatch
  <2>2. ASSUME NEW ok \in BOOLEAN, CallReturns(t, ok) PROVE TasksSound'
    <3> DEFINE o == classifyAttemptOutcome(ok, t.count + 1, t.max)
    <3>1. o \in Outcomes
      BY DEF classifyAttemptOutcome, Outcomes
    <3>2. [t EXCEPT !.step = "record", !.outcome = o] \in Task
      BY <2>0, <3>1 DEF Task
    <3> QED
      BY <1>b, <2>0, <2>2, <3>1, <3>2 DEF CallReturns, Advance, Task
  <2>3. CASE CallCanceled(t)
    BY <1>a, <2>3 DEF CallCanceled, Finish
  <2>4. CASE Record(t)
    <3>1. Finish(t) \/ Advance(t, [t EXCEPT !.step = "complete"])
      BY <2>4, Zenon DEF Record
    <3>2. [t EXCEPT !.step = "complete"] \in Task
      BY <2>0 DEF Task
    <3> QED
      BY <1>a, <1>b, <2>0, <3>1, <3>2 DEF Finish, Advance, Task
  <2>5. CASE Finalize(t)
    <3>1. \/ Finish(t)
          \/ \E o \in {"success", "terminal_failure"} :
               Advance(t, [t EXCEPT !.step = "complete", !.outcome = o])
      BY <2>5 DEF Finalize
    <3>2. \A o \in {"success", "terminal_failure"} :
            [t EXCEPT !.step = "complete", !.outcome = o] \in Task
      BY <2>0 DEF Task, Outcomes
    <3> QED
      BY <1>a, <1>b, <2>0, <3>1, <3>2 DEF Finish, Advance, Task
  <2>6. CASE Complete(t)
    <3>1. Finish(t)
      BY <2>6, Zenon DEF Complete
    <3> QED
      BY <1>a, <3>1 DEF Finish
  <2> QED
    BY <1>4, <2>1, <2>2, <2>3, <2>4, <2>5, <2>6 DEF TaskStep
<1>5. CASE UNCHANGED workerVars
  BY <1>5, <1>a DEF workerVars
<1> QED
  BY <1>1, <1>2, <1>3, <1>4, <1>5 DEF WorkerNext

(* A task that is handed out in this step is for an execution its node's replica   *)
(* has.                                                                      *)
LEMMA NewTaskStep ==
    ASSUME WInv, [WorkerNext]_workerVars
    PROVE  \A u \in tasks' :
             \/ \E t \in tasks : u.exec = t.exec /\ u.node = t.node
             \/ u.exec \in Executions(seen[u.node])
             \/ u.exec \in Executions(seen'[u.node])
<1> DEFINE Goal == \A u \in tasks' :
             \/ \E t \in tasks : u.exec = t.exec /\ u.node = t.node
             \/ u.exec \in Executions(seen[u.node])
             \/ u.exec \in Executions(seen'[u.node])
<1>0. tasks \subseteq Task
  BY DEF WInv, LoopTypes
<1>a. ASSUME tasks' \subseteq tasks PROVE Goal
  BY <1>a
<1>b. ASSUME NEW t \in tasks, NEW u, tasks' \subseteq tasks \cup {u},
             u.exec = t.exec, u.node = t.node
      PROVE  Goal
  BY <1>b
<1>1. ASSUME NEW n \in Nodes, Elect(n) \/ StepDown(n) \/ Replicate(n) \/ Stop(n)
      PROVE  Goal
  BY <1>1, <1>a DEF Elect, StepDown, Replicate, Stop
<1>2. ASSUME Client PROVE Goal
  BY <1>2, <1>a DEF Client
<1>3. ASSUME NEW n \in Nodes, LoopStep(n) PROVE Goal
  <2>1. CASE StartLoop(n) \/ StopLoop(n) \/ Drained(n) \/ GiveUp(n)
    BY <2>1, <1>a DEF StartLoop, StopLoop, Drained, GiveUp
  <2>2. CASE ListInFlight(n) \/ ListDue(n) \/ AdoptOrComplete(n) \/ SkipScan(n) \/ EndTick(n)
    <3>1. UNCHANGED tasks
      BY <2>2, Zenon DEF ListInFlight, ListDue, AdoptOrComplete, SkipScan, EndTick
    <3> QED
      BY <3>1, <1>a
  <2>3. ASSUME NEW elapsed \in SUBSET ExecutionIDs, ScanInFlight(n, elapsed)
        PROVE  Goal
    <3>1. \A u \in tasks' \ tasks : u.node = n /\ u.exec \in InFlight(seen[n])
      BY <2>3 DEF ScanInFlight
    <3> QED
      BY <3>1 DEF InFlight
  <2>4. CASE Claim(n)
    <3>1. \/ UNCHANGED tasks
          \/ \E e \in ExecutionIDs, at \in ProposedTimes, x \in todo[n] :
               LET cmd == [id |-> e, scheduleID |-> x.schedule,
                           scheduledFor |-> x.at, ownerNodeID |-> n]
               IN  /\ tasks' = tasks \cup
                        {[node |-> n, kind |-> "fresh", exec |-> e, count |-> 0,
                          max |-> 0, step |-> "queued", outcome |-> Nil]}
                   /\ ClaimExecutionAccepted(db, cmd)
                   /\ Answered(n, ClaimExecutionAccepted(db, cmd),
                               ApplyClaimExecution(db, cmd), at)
      BY <2>4 DEF Claim
    <3>2. ASSUME NEW e \in ExecutionIDs, NEW at \in ProposedTimes, NEW x \in todo[n],
                 LET cmd == [id |-> e, scheduleID |-> x.schedule,
                             scheduledFor |-> x.at, ownerNodeID |-> n]
                 IN  /\ tasks' = tasks \cup
                          {[node |-> n, kind |-> "fresh", exec |-> e, count |-> 0,
                            max |-> 0, step |-> "queued", outcome |-> Nil]}
                     /\ ClaimExecutionAccepted(db, cmd)
                     /\ Answered(n, ClaimExecutionAccepted(db, cmd),
                                 ApplyClaimExecution(db, cmd), at)
          PROVE  Goal
      <4> DEFINE row == [scheduleID |-> x.schedule, scheduledFor |-> x.at,
                         ownerNodeID |-> n,
                         status |-> "in_flight", attemptCount |-> 0,
                         lastAttemptID |-> Nil, lastRetryAt |-> Nil]
      <4>1. db'.executions = [db.executions EXCEPT ![e] = row]
        <5> DEFINE cmd == [id |-> e, scheduleID |-> x.schedule,
                           scheduledFor |-> x.at, ownerNodeID |-> n]
        <5>1. db' = ApplyClaimExecution(db, cmd)
          BY <3>2 DEF Answered, Committed, Commit
        <5> QED
          BY <5>1 DEF ApplyClaimExecution, WInv, IInv, TypeOK, Database
      <4>2. row # Nil
        <5>1. x \in FoundDue
          BY <2>4 DEF Claim, WInv, ProposalsSound
        <5>2. row \in Execution
          BY <5>1, InputAssumption DEF Execution, FoundDue
        <5> QED
          BY <5>2, NilAssumption
      <4> HIDE DEF row
      <4>3. e \in Executions(db')
        BY <4>1, <4>2 DEF Executions, WInv, IInv, TypeOK, Database
      <4>4. seen'[n] = db'
        BY <3>2 DEF Answered, WInv, LoopTypes
      <4> QED
        BY <3>2, <4>3, <4>4
    <3> QED
      BY <1>a, <3>1, <3>2
  <2> QED
    BY <1>3, <2>1, <2>2, <2>3, <2>4 DEF LoopStep
<1>4. ASSUME NEW t \in tasks, TaskStep(t) PROVE Goal
  <2>0. t \in Task
    BY <1>0
  <2>1. CASE Dispatch(t)
    <3>1. Finish(t) \/ Advance(t, [t EXCEPT !.step = "calling",
                               !.max = ParentOf(seen[t.node], t.exec).maxAttempts])
      BY <2>1 DEF Dispatch
    <3> QED
      BY <1>a, <1>b, <2>0, <3>1 DEF Finish, Advance, Task
  <2>2. ASSUME NEW ok \in BOOLEAN, CallReturns(t, ok) PROVE Goal
    BY <1>b, <2>0, <2>2 DEF CallReturns, Advance, Task
  <2>3. CASE CallCanceled(t)
    BY <1>a, <2>3 DEF CallCanceled, Finish
  <2>4. CASE Record(t)
    <3>1. Finish(t) \/ Advance(t, [t EXCEPT !.step = "complete"])
      BY <2>4, Zenon DEF Record
    <3> QED
      BY <1>a, <1>b, <2>0, <3>1 DEF Finish, Advance, Task
  <2>5. CASE Finalize(t)
    <3>1. \/ Finish(t)
          \/ Advance(t, [t EXCEPT !.step = "complete",
                                  !.outcome = LastOutcome(seen[t.node], t.exec)])
      BY <2>5 DEF Finalize
    <3> QED
      BY <1>a, <1>b, <2>0, <3>1 DEF Finish, Advance, Task
  <2>6. CASE Complete(t)
    <3>1. Finish(t)
      BY <2>6, Zenon DEF Complete
    <3> QED
      BY <1>a, <3>1 DEF Finish
  <2> QED
    BY <1>4, <2>1, <2>2, <2>3, <2>4, <2>5, <2>6 DEF TaskStep
<1>5. CASE UNCHANGED workerVars
  BY <1>5, <1>a DEF workerVars
<1> QED
  BY <1>1, <1>2, <1>3, <1>4, <1>5 DEF WorkerNext

(* The lists the loops go through. *)
ListsSound ==
    /\ loop \in [Nodes -> Running \cup {"off", "drain", "returned", "down"}]
    /\ todo \in [Nodes -> SUBSET (Recovered \cup FoundDue)]
    /\ \A n \in Nodes : loop[n] = "adopt" => todo[n] \subseteq Recovered
    /\ \A n \in Nodes : loop[n] = "claim" =>
         /\ todo[n] \subseteq FoundDue
         /\ \A x \in todo[n] : x.at \in offered[x.schedule]

(* A loop only goes through what it has just read. *)
LEMMA ListsStep ==
    ASSUME WInv, [WorkerNext]_workerVars,
           \A s \in ScheduleIDs : offered[s] \subseteq offered'[s]
    PROVE  ListsSound'
<1> USE DEF ListsSound
<1>0. ListsSound
  BY DEF WInv, LoopTypes, ProposalsSound
<1>a. ASSUME UNCHANGED <<loop, todo>> PROVE ListsSound'
  BY <1>0, <1>a DEF FoundDue
<1>b. ASSUME NEW n \in Nodes, NEW where \in Running \cup {"off", "drain", "returned", "down"},
             NEW list \in SUBSET (Recovered \cup FoundDue),
             loop' = [loop EXCEPT ![n] = where], todo' = [todo EXCEPT ![n] = list],
             where = "adopt" => list \subseteq Recovered,
             where = "claim" =>
                 list \subseteq FoundDue /\ \A x \in list : x.at \in offered[x.schedule]
      PROVE  ListsSound'
  BY <1>0, <1>b DEF FoundDue
<1>c. ASSUME NEW n \in Nodes, NEW where \in {"off", "recover", "returned"},
             loop' = [loop EXCEPT ![n] = where], UNCHANGED todo
      PROVE  ListsSound'
  BY <1>0, <1>c DEF FoundDue, Running
<1>1. ASSUME NEW n \in Nodes, Elect(n) \/ StepDown(n) \/ Replicate(n)
      PROVE  ListsSound'
  BY <1>1, <1>a DEF Elect, StepDown, Replicate, loops
<1>2. ASSUME NEW n \in Nodes, Stop(n) PROVE ListsSound'
  BY <1>2, <1>b DEF Stop
<1>3. ASSUME Client PROVE ListsSound'
  BY <1>3, <1>a DEF Client, loops
<1>4. ASSUME NEW n \in Nodes, LoopStep(n) PROVE ListsSound'
  <2>1. CASE StartLoop(n)
    <3>1. CASE loop[n] = "off"
      BY <1>c, <2>1, <3>1 DEF StartLoop
    <3>2. CASE loop[n] # "off"
      BY <1>0, <1>a, <2>1, <3>2 DEF StartLoop
    <3> QED
      BY <3>1, <3>2
  <2>2. CASE StopLoop(n)
    <3>1. CASE loop[n] = "returned"
      BY <1>c, <2>2, <3>1 DEF StopLoop
    <3>2. CASE loop[n] # "returned"
      BY <1>0, <1>a, <2>2, <3>2 DEF StopLoop
    <3> QED
      BY <3>1, <3>2
  <2>3. CASE Drained(n)
    BY <1>c, <2>3 DEF Drained
  <2>4. CASE GiveUp(n)
    BY <1>b, <2>4 DEF GiveUp, Quit, Goto
  <2>5. CASE ListInFlight(n)
    <3> DEFINE list == {[exec |-> e, owner |-> seen[n].executions[e].ownerNodeID] :
                          e \in InFlight(seen[n])}
    <3>1. GoThrough(n, "adopt", list, "idle")
      BY <2>5 DEF ListInFlight
    <3>2. list \subseteq Recovered
      BY DEF WInv, LoopTypes, Database, Execution, InFlight, Executions, Recovered
    <3> HIDE DEF list
    <3> QED
      BY <1>b, <3>1, <3>2 DEF GoThrough, Goto, Running
  <2>6. CASE AdoptOrComplete(n)
    <3>1. \E x \in todo[n] : GoThrough(n, "adopt", todo[n] \ {x}, "idle") \/ Quit(n)
      BY <2>6, Zenon DEF AdoptOrComplete
    <3>2. loop[n] = "adopt"
      BY <2>6 DEF AdoptOrComplete
    <3> QED
      BY <1>0, <1>b, <3>1, <3>2 DEF GoThrough, Quit, Goto, Running
  <2>7. CASE ListDue(n)
    <3>1. PICK due \in SUBSET Due(seen[n]) :
            GoThrough(n, "claim",
              {[schedule |-> s, at |-> seen[n].schedules[s].nextRunAt] : s \in due}, "scan")
      BY <2>7 DEF ListDue
    <3> DEFINE list == {[schedule |-> s, at |-> seen[n].schedules[s].nextRunAt] : s \in due}
    <3>2. \A s \in due :
            /\ s \in ScheduleIDs
            /\ seen[n].schedules[s].nextRunAt \in Int
            /\ seen[n].schedules[s].nextRunAt \in offered[s]
      BY DEF Due, WInv, LoopTypes, ProposalsSound, ReadsOffered, Database, Schedule
    <3>3. list \subseteq FoundDue
      BY <3>2 DEF FoundDue
    <3>4. \A x \in list : x.at \in offered[x.schedule]
      BY <3>2
    <3>5. GoThrough(n, "claim", list, "scan")
      BY <3>1
    <3> HIDE DEF list
    <3> QED
      <4> DEFINE where == IF list = {} THEN "scan" ELSE "claim"
      <4>1. where \in Running /\ where # "adopt"
        BY DEF Running
      <4>2. loop' = [loop EXCEPT ![n] = where] /\ todo' = [todo EXCEPT ![n] = list]
        BY <3>5 DEF GoThrough, Goto
      <4>3. list \in SUBSET (Recovered \cup FoundDue)
        BY <3>3
      <4> HIDE DEF where
      <4> QED
        BY <1>b, <3>3, <3>4, <4>1, <4>2, <4>3
  <2>8. CASE Claim(n)
    <3>1. \E x \in todo[n] : GoThrough(n, "claim", todo[n] \ {x}, "scan")
      BY <2>8, Zenon DEF Claim
    <3>2. loop[n] = "claim"
      BY <2>8 DEF Claim
    <3> QED
      BY <1>0, <1>b, <3>1, <3>2 DEF GoThrough, Goto, Running
  <2>9. ASSUME NEW elapsed \in SUBSET ExecutionIDs, ScanInFlight(n, elapsed)
        PROVE  ListsSound'
    BY <1>b, <2>9 DEF ScanInFlight, Goto, Running
  <2>10. CASE SkipScan(n) \/ EndTick(n)
    BY <1>b, <2>10 DEF SkipScan, EndTick, Goto, Running
  <2> QED
    BY <1>4, <2>1, <2>2, <2>3, <2>4, <2>5, <2>6, <2>7, <2>8, <2>9, <2>10 DEF LoopStep
<1>5. ASSUME NEW t \in tasks, TaskStep(t) PROVE ListsSound'
  <2>1. UNCHANGED loops
    BY <1>5, Zenon DEF TaskStep, Dispatch, CallReturns, CallCanceled, Record, Finalize, Complete
  <2> QED
    BY <1>a, <2>1 DEF loops
<1>6. CASE UNCHANGED workerVars
  BY <1>6, <1>a DEF workerVars, loops
<1> QED
  BY <1>1, <1>2, <1>3, <1>4, <1>5, <1>6 DEF WorkerNext

(* The raft leader believes it leads, whoever gains or loses the lead. *)
LEMMA RaftStep ==
    ASSUME RaftTypes, tasks \subseteq Task, [WorkerNext]_workerVars
    PROVE  RaftTypes'
<1> USE DEF RaftTypes
<1>a. ASSUME UNCHANGED raft, told' \subseteq Nodes PROVE RaftTypes'
  BY <1>a DEF raft
<1>b. ASSUME NEW n \in Nodes, NEW accepted, NEW tx, NEW at, UNCHANGED told,
             Answered(n, accepted, tx, at) \/ Unanswered(n, accepted, tx, at)
      PROVE  RaftTypes'
  BY <1>b DEF Answered, Unanswered, SteppedDown, raft
<1>1. ASSUME NEW n \in Nodes, Elect(n) PROVE RaftTypes'
  BY <1>1 DEF Elect, loops
<1>2. ASSUME NEW n \in Nodes, StepDown(n) PROVE RaftTypes'
  BY <1>2 DEF StepDown, SteppedDown, loops
<1>3. ASSUME NEW n \in Nodes, Replicate(n) PROVE RaftTypes'
  BY <1>3 DEF Replicate, loops
<1>4. ASSUME NEW n \in Nodes, Stop(n) PROVE RaftTypes'
  BY <1>4 DEF Stop
<1>5. ASSUME Client PROVE RaftTypes'
  BY <1>5 DEF Client, loops
<1>6. ASSUME NEW n \in Nodes, LoopStep(n) PROVE RaftTypes'
  <2>1. CASE StartLoop(n)
    BY <2>1 DEF StartLoop
  <2>2. CASE StopLoop(n)
    BY <2>2 DEF StopLoop
  <2>3. CASE Drained(n)
    BY <1>a, <2>3 DEF Drained
  <2>4. CASE GiveUp(n)
    BY <1>a, <2>4 DEF GiveUp, Quit, Goto
  <2>5. CASE ListInFlight(n) \/ ListDue(n) \/ SkipScan(n) \/ EndTick(n)
               \/ \E elapsed \in SUBSET ExecutionIDs : ScanInFlight(n, elapsed)
    <3>1. UNCHANGED raft /\ UNCHANGED told
      BY <2>5, Zenon DEF ListInFlight, ListDue, SkipScan, EndTick, ScanInFlight, GoThrough, Goto
    <3> QED
      BY <1>a, <3>1
  <2>6. CASE AdoptOrComplete(n)
    <3>1. \E accepted, tx, at :
            Answered(n, accepted, tx, at) \/ Unanswered(n, accepted, tx, at)
      BY <2>6, Zenon DEF AdoptOrComplete
    <3>2. UNCHANGED told
      BY <2>6, Zenon DEF AdoptOrComplete, GoThrough, Quit, Goto
    <3> QED
      BY <1>b, <3>1, <3>2
  <2>7. CASE Claim(n)
    <3>1. \/ UNCHANGED <<log, raft, tasks>>
          \/ \E accepted, tx, at :
               Answered(n, accepted, tx, at) \/ Unanswered(n, accepted, tx, at)
      BY <2>7, Zenon DEF Claim
    <3>2. UNCHANGED told
      BY <2>7, Zenon DEF Claim, GoThrough, Goto
    <3> QED
      BY <1>a, <1>b, <3>1, <3>2
  <2> QED
    BY <1>6, <2>1, <2>2, <2>3, <2>4, <2>5, <2>6, <2>7 DEF LoopStep
<1>7. ASSUME NEW t \in tasks, TaskStep(t) PROVE RaftTypes'
  <2>0. t.node \in Nodes
    BY DEF Task
  <2>1. UNCHANGED loops
    BY <1>7, Zenon DEF TaskStep, Dispatch, CallReturns, CallCanceled, Record, Finalize, Complete
  <2>2. \/ UNCHANGED raft
        \/ \E accepted, tx, at :
             Answered(t.node, accepted, tx, at) \/ Unanswered(t.node, accepted, tx, at)
    <3>1. CASE Dispatch(t) \/ CallCanceled(t) \/ Finalize(t)
                 \/ \E ok \in BOOLEAN : CallReturns(t, ok)
      BY <3>1, Zenon DEF Dispatch, CallCanceled, Finalize, CallReturns
    <3>2. CASE Record(t)
      <4>1. \/ UNCHANGED <<log, raft>>
            \/ \E accepted, tx, at :
                 Answered(t.node, accepted, tx, at) \/ Unanswered(t.node, accepted, tx, at)
        BY <3>2, Zenon DEF Record
      <4> QED
        BY <4>1
    <3>3. CASE Complete(t)
      BY <3>3, Zenon DEF Complete
    <3> QED
      BY <1>7, <3>1, <3>2, <3>3 DEF TaskStep
  <2>3. UNCHANGED told
    BY <2>1 DEF loops
  <2> QED
    BY <1>a, <1>b, <2>0, <2>2, <2>3
<1>8. CASE UNCHANGED workerVars
  BY <1>8, <1>a DEF workerVars, loops
<1> QED
  BY <1>1, <1>2, <1>3, <1>4, <1>5, <1>6, <1>7, <1>8 DEF WorkerNext

(* Replicas stay behind the log, and tasks keep finding their executions. *)
LEMMA ReplicasStep ==
    ASSUME WInv, [WorkerNext]_workerVars, [Next]_vars, OwnershipInv', tasks' \subseteq Task
    PROVE  ReplicasBehind'
<1> DEFINE Behind(tx, ty) ==
             \A e \in Executions(tx) :
               /\ e \in Executions(ty)
               /\ tx.schedules[tx.executions[e].scheduleID] # Nil
<1>1. Executions(db) \subseteq Executions(db')
  BY ExecutionStep DEF WInv, Kept
<1>2. Behind(db, db) /\ Behind(db', db')
  BY DEF WInv, OwnershipInv, OwnedWhileInFlight
<1>3. \A n \in Nodes : seen'[n] = seen[n] \/ seen'[n] = db \/ seen'[n] = db'
  BY SeenStep DEF WInv, LoopTypes
<1>4. \A n \in Nodes : Behind(seen[n], db)
  BY DEF WInv, ReplicasBehind
<1>5. \A n \in Nodes : Behind(seen'[n], db')
  BY <1>1, <1>2, <1>3, <1>4
<1>6. \A n \in Nodes : Executions(seen[n]) \subseteq Executions(seen'[n])
  BY <1>1, <1>3, <1>4
<1>7. ASSUME NEW u \in tasks' PROVE u.exec \in Executions(seen'[u.node])
  <2>1. u.node \in Nodes
    BY DEF Task
  <2>2. CASE \E t \in tasks : u.exec = t.exec /\ u.node = t.node
    BY <1>6, <2>1, <2>2 DEF WInv, ReplicasBehind
  <2>3. CASE u.exec \in Executions(seen[u.node])
    BY <1>6, <2>1, <2>3
  <2> QED
    BY <2>2, <2>3, NewTaskStep
<1> QED
  BY <1>5, <1>7 DEF ReplicasBehind

(* Every step keeps the invariant. *)
LEMMA WorkerStep == WInv /\ [WorkerNext]_workerVars => WInv'
<1> SUFFICES ASSUME WInv, [WorkerNext]_workerVars PROVE WInv'
  OBVIOUS
<1>1. [Next]_vars
  BY StepIsEntry
<1>2. IInv' /\ OwnershipInv'
  BY <1>1, TypeStep, OwnershipStep DEF WInv
<1>3. ReadsOffered(db)' /\ \A s \in ScheduleIDs : offered[s] \subseteq offered'[s]
  BY <1>1, OfferedGrows DEF WInv, IInv
<1>4. TasksSound'
  BY TasksStep
<1>5. ListsSound'
  BY <1>3, ListsStep
<1>6. \A n \in Nodes : seen'[n] = seen[n] \/ seen'[n] = db \/ seen'[n] = db'
  BY SeenStep DEF WInv, LoopTypes
<1>7. seen' \in [Nodes -> Database]
  BY <1>2, SeenStep DEF WInv, LoopTypes, IInv, TypeOK
<1>8. \A n \in Nodes : ReadsOffered(seen[n])'
  BY <1>3, <1>6 DEF ReadsOffered, WInv, ProposalsSound
<1>9. LoopTypes' /\ ProposalsSound'
  BY <1>4, <1>5, <1>7, <1>8 DEF LoopTypes, ProposalsSound, TasksSound, ListsSound
<1>10. ReplicasBehind'
  BY <1>1, <1>2, <1>4, ReplicasStep DEF TasksSound
<1>11. RaftTypes'
  BY RaftStep DEF WInv, LoopTypes
<1> QED
  BY <1>2, <1>3, <1>9, <1>10, <1>11 DEF WInv

LEMMA WorkerInitial == WorkerInit => WInv
<1> SUFFICES ASSUME WorkerInit PROVE WInv
  OBVIOUS
<1>1. IInv /\ OwnershipInv
  BY TypeInit, OwnershipInit DEF WorkerInit
<1>2. EmptyDatabase \in Database /\ Executions(EmptyDatabase) = {}
  BY DEF EmptyDatabase, Database, Executions
<1>3. ReadsOffered(db) /\ \A n \in Nodes : ReadsOffered(seen[n])
  BY DEF WorkerInit, Init, ReadsOffered, EmptyDatabase
<1>4. LoopTypes /\ ProposalsSound
  BY <1>2, <1>3 DEF WorkerInit, LoopTypes, ProposalsSound
<1>5. ReplicasBehind /\ RaftTypes
  BY <1>2 DEF WorkerInit, ReplicasBehind, RaftTypes
<1> QED
  BY <1>1, <1>3, <1>4, <1>5 DEF WInv

-----------------------------------------------------------------------------
LEMMA WorkerInvariant == WorkerSpec => []WInv
BY WorkerInitial, WorkerStep, PTL DEF WorkerSpec

(* In every cluster the replicas, loops and tasks keep their types, and the       *)
(* leader of raft is a node that believes it leads.                          *)
THEOREM WorkerTypeCorrect == WorkerSpec => []WorkerTypeOK
<1>1. WInv => WorkerTypeOK
  BY DEF WInv, IInv, LoopTypes, RaftTypes, WorkerTypeOK
<1> QED
  BY <1>1, WorkerInvariant, PTL

(* However nodes are elected, deposed and restarted, however far their replicas   *)
(* lag and whatever answers are lost, the entries the leader loops get          *)
(* committed are a log of StateMachine: a claim is of an instant the schedule    *)
(* had, an attempt has an outcome, and its retry instant if it is to be retried. *)
THEOREM WorkersImplementLog == WorkerSpec => WorkersMakeLog
<1>1. WorkerInit => Init
  BY DEF WorkerInit
<1> QED
  BY <1>1, WorkerInvariant, StepIsEntry, PTL DEF WorkerSpec, WorkersMakeLog, Spec

(* So the cluster never gives an occurrence two executions, *)
THEOREM ClusterRunsOnce == WorkerSpec => []OneExecutionPerOccurrence
BY WorkersImplementLog, OccurrencesRunOnce, PTL DEF WorkersMakeLog

(* and no node, however late, changes an execution that has ended.           *)
THEOREM ClusterEndsForGood == WorkerSpec => EndedIsFinal
BY WorkersImplementLog, EndedStaysFinal, PTL DEF WorkersMakeLog
(* It keeps the promise of module Occurrences, and leaves no occurrence of a       *)
(* catch_up_all schedule out.                                                *)
THEOREM ClusterKeepsPromise == WorkerSpec => ImplementsOccurrences
BY WorkersImplementLog, LogKeepsPromise, PTL DEF WorkersMakeLog

THEOREM ClusterCatchesUp == WorkerSpec => []CatchUpAllInOrder
BY WorkersImplementLog, CatchUpLeavesNoneOut, PTL DEF WorkersMakeLog

-----------------------------------------------------------------------------
(* What a step of the cluster does to the tasks, whichever step it is.            *)

IsFresh(t) == t.kind = "fresh"
Attempted(tx, e) == tx.executions[e].attemptCount > 0

(* The row says that an attempt was recorded, whatever it was. *)
Summed(row) == row.lastAttemptID # Nil \/ row.lastRetryAt # Nil

(* Some attempt of e in tx ended as o, which is final. *)
FinalIn(tx, e, o) ==
    /\ o \in {"success", "terminal_failure"}
    /\ \E a \in AttemptsIn(tx, e) : tx.attempts[a].outcome = o

(* n reads from its replica that the last attempt of e ended as o, which is final. *)
ReadsFinal(n, e, o) ==
    /\ o \notin {Nil, "retry"}
    /\ o = LastOutcome(seen[n], e)

(* t goes on as u.  It calls back once, and completes its execution as a final     *)
(* attempt ended, which it recorded in this step or read from its replica.     *)
MovesOn(t, u) ==
    /\ tasks' = (tasks \ {t}) \cup {u}
    /\ u.node = t.node /\ u.exec = t.exec /\ u.kind = t.kind
    /\ u.step # "complete" => t.step # "complete"
    /\ u.step \in {"calling", "record"} => t.step \in {"queued", "calling"}
    /\ u.step = "complete" =>
         FinalIn(db', u.exec, u.outcome) \/ ReadsFinal(u.node, u.exec, u.outcome)

FreshTask(n, e) ==
    [node |-> n, kind |-> "fresh", exec |-> e, count |-> 0, max |-> 0,
     step |-> "queued", outcome |-> Nil]

(* The claiming loop of n hands out the execution it has just claimed. *)
HandsOutClaimed(n) ==
    /\ loop[n] = "claim"
    /\ \E e \in ExecutionIDs \ Executions(db) :
         /\ tasks' = tasks \cup {FreshTask(n, e)}
         /\ ~Attempted(db', e)

(* The scanning loop of n hands out executions that its replica says were        *)
(* attempted, each once, and waits for them.                                  *)
HandsOutFound(n) ==
    /\ loop[n] = "scan"
    /\ loop'[n] = "wait"
    /\ tasks \subseteq tasks'
    /\ \A u \in tasks' \ tasks :
         /\ u.node = n /\ ~IsFresh(u) /\ u.step = "queued"
         /\ u.exec \in Executions(seen[n])
         /\ Summed(seen[n].executions[u.exec])
    /\ \A u, v \in tasks' \ tasks : u.exec = v.exec => u = v

TasksFate ==
    \/ tasks' \subseteq tasks
    \/ \E t \in tasks, u \in Task : MovesOn(t, u)
    \/ \E n \in Nodes : HandsOutClaimed(n) \/ HandsOutFound(n)

LEMMA ScanFate ==
    ASSUME WInv, NEW n \in Nodes, NEW elapsed \in SUBSET ExecutionIDs,
           ScanInFlight(n, elapsed)
    PROVE  HandsOutFound(n)
<1> DEFINE row(e) == seen[n].executions[e]
           found(e, kind) == [node |-> n, kind |-> kind, exec |-> e,
                              count |-> row(e).attemptCount, max |-> 0,
                              step |-> "queued", outcome |-> Nil]
           final == {e \in InFlight(seen[n]) : NeedsFinalize(row(e))}
           retried == {e \in InFlight(seen[n]) \ final :
                         row(e).lastRetryAt # Nil /\ e \in elapsed}
<1>1. tasks' = tasks \cup {found(e, "finalize") : e \in final}
                     \cup {found(e, "retry") : e \in retried}
  BY DEF ScanInFlight
<1>2. loop[n] = "scan" /\ loop'[n] = "wait"
  BY DEF ScanInFlight, Goto, WInv, LoopTypes
<1>3. \A e \in final : e \in Executions(seen[n]) /\ Summed(row(e))
  BY DEF InFlight, NeedsFinalize, Summed
<1>4. \A e \in retried : e \in Executions(seen[n]) /\ Summed(row(e)) /\ e \notin final
  BY DEF InFlight, Summed
<1>5. \A e : /\ found(e, "finalize").node = n /\ found(e, "retry").node = n
             /\ found(e, "finalize").exec = e /\ found(e, "retry").exec = e
             /\ ~IsFresh(found(e, "finalize")) /\ ~IsFresh(found(e, "retry"))
             /\ found(e, "finalize").step = "queued" /\ found(e, "retry").step = "queued"
  BY DEF IsFresh
<1>6. \A u \in tasks' \ tasks :
        \/ \E e \in final : u = found(e, "finalize")
        \/ \E e \in retried : u = found(e, "retry")
  BY <1>1
<1> HIDE DEF found, final, retried
<1>7. \A u \in tasks' \ tasks : /\ u.node = n /\ ~IsFresh(u) /\ u.step = "queued"
                                /\ u.exec \in Executions(seen[n]) /\ Summed(row(u.exec))
  BY <1>3, <1>4, <1>5, <1>6
<1>8. \A u, v \in tasks' \ tasks : u.exec = v.exec => u = v
  BY <1>4, <1>5, <1>6
<1> QED
  BY <1>1, <1>2, <1>7, <1>8 DEF HandsOutFound

(* A claim that is answered makes an execution without attempts. *)
LEMMA ClaimFate ==
    ASSUME WInv, NEW n \in Nodes, Claim(n)
    PROVE  UNCHANGED tasks \/ HandsOutClaimed(n)
<1>1. \/ UNCHANGED tasks
      \/ \E e \in ExecutionIDs \ Executions(db), at \in ProposedTimes, x \in todo[n] :
           LET cmd == [id |-> e, scheduleID |-> x.schedule,
                       scheduledFor |-> x.at, ownerNodeID |-> n]
           IN  /\ tasks' = tasks \cup {FreshTask(n, e)}
               /\ ClaimExecutionAccepted(db, cmd)
               /\ Answered(n, ClaimExecutionAccepted(db, cmd),
                           ApplyClaimExecution(db, cmd), at)
  BY DEF Claim, FreshTask
<1>2. ASSUME NEW e \in ExecutionIDs \ Executions(db), NEW at \in ProposedTimes, NEW x \in todo[n],
             LET cmd == [id |-> e, scheduleID |-> x.schedule,
                         scheduledFor |-> x.at, ownerNodeID |-> n]
             IN  /\ tasks' = tasks \cup {FreshTask(n, e)}
                 /\ ClaimExecutionAccepted(db, cmd)
                 /\ Answered(n, ClaimExecutionAccepted(db, cmd),
                             ApplyClaimExecution(db, cmd), at)
      PROVE  HandsOutClaimed(n)
  <2> DEFINE cmd == [id |-> e, scheduleID |-> x.schedule,
                     scheduledFor |-> x.at, ownerNodeID |-> n]
  <2>1. db' = ApplyClaimExecution(db, cmd)
    BY <1>2 DEF Answered, Committed, Commit
  <2>2. db'.executions[e].attemptCount = 0
    BY <2>1 DEF ApplyClaimExecution, WInv, IInv, TypeOK, Database
  <2>3. loop[n] = "claim"
    BY DEF Claim
  <2>4. tasks' = tasks \cup {FreshTask(n, e)}
    BY <1>2
  <2> QED
    BY <2>2, <2>3, <2>4 DEF HandsOutClaimed, Attempted
<1> QED
  BY <1>1, <1>2

(* A task that goes on to complete after recording has recorded a final attempt. *)
LEMMA RecordFate ==
    ASSUME WInv, NEW t \in tasks, Record(t)
    PROVE  Finish(t) \/ MovesOn(t, [t EXCEPT !.step = "complete"])
<1>1. \/ Finish(t)
      \/ \E a \in NewAttemptIDs, r \in RetryTimes, at \in ProposedTimes :
           LET cmd == [id |-> a, executionID |-> t.exec, nodeID |-> t.node,
                       outcome |-> t.outcome, retryAt |-> RetryAt(t.outcome, r)]
               accepted == RecordAttemptAccepted(db, cmd)
           IN  /\ Answered(t.node, accepted, ApplyRecordAttempt(db, cmd), at)
               /\ GoesOn(t, accepted)
               /\ Advance(t, [t EXCEPT !.step = "complete"])
  BY Zenon DEF Record
<1>2. ASSUME NEW a \in NewAttemptIDs, NEW r \in RetryTimes, NEW at \in ProposedTimes,
             LET cmd == [id |-> a, executionID |-> t.exec, nodeID |-> t.node,
                         outcome |-> t.outcome, retryAt |-> RetryAt(t.outcome, r)]
                 accepted == RecordAttemptAccepted(db, cmd)
             IN  /\ Answered(t.node, accepted, ApplyRecordAttempt(db, cmd), at)
                 /\ GoesOn(t, accepted)
                 /\ Advance(t, [t EXCEPT !.step = "complete"])
      PROVE  MovesOn(t, [t EXCEPT !.step = "complete"])
  <2> DEFINE cmd == [id |-> a, executionID |-> t.exec, nodeID |-> t.node,
                     outcome |-> t.outcome, retryAt |-> RetryAt(t.outcome, r)]
             new == [executionID |-> t.exec, nodeID |-> t.node,
                     attemptNumber |-> db.executions[t.exec].attemptCount + 1,
                     outcome |-> t.outcome, retryAt |-> RetryAt(t.outcome, r)]
  <2>1. t.step = "record" /\ t \in Task /\ t.outcome \in Outcomes
    BY DEF Record, WInv, LoopTypes, ProposalsSound
  <2>2. t.outcome \in {"success", "terminal_failure"}
    BY <1>2, <2>1 DEF GoesOn, Outcomes
  <2>3. db' = ApplyRecordAttempt(db, cmd)
    BY <1>2 DEF Answered, Committed, Commit, GoesOn
  <2>4. a \in AttemptIDs
    BY DEF NewAttemptIDs
  <2>5. db'.attempts = [db.attempts EXCEPT ![a] = new]
    BY <2>3 DEF ApplyRecordAttempt, WInv, IInv, TypeOK, Database
  <2>6. db'.attempts[a] = new
    BY <2>4, <2>5 DEF WInv, IInv, TypeOK, Database
  <2>7. t.exec \in Executions(db)
    BY <2>1 DEF WInv, ReplicasBehind, Task
  <2>8. db.executions[t.exec] \in Execution
    BY <2>7 DEF Executions, WInv, IInv, TypeOK, Database
  <2>9. new \in Attempt
    BY <2>1, <2>8, InputAssumption DEF Attempt, Task, Execution, RetryAt
  <2>10. new # Nil
    BY <2>9, NilAssumption
  <2>11. a \in AttemptsIn(db', t.exec) /\ db'.attempts[a].outcome = t.outcome
    BY <2>4, <2>6, <2>10 DEF AttemptsIn, Attempts
  <2>12. FinalIn(db', t.exec, t.outcome)
    BY <2>2, <2>11 DEF FinalIn
  <2>13. Advance(t, [t EXCEPT !.step = "complete"])
    BY <1>2
  <2> QED
    BY <2>1, <2>12, <2>13 DEF MovesOn, Advance, Task
<1> QED
  BY <1>1, <1>2

(* Tasks are dropped, or one goes on, or a loop hands out new ones. *)
LEMMA TasksChange ==
    ASSUME WInv, [WorkerNext]_workerVars, tasks' \subseteq Task
    PROVE  TasksFate
<1>0. tasks \subseteq Task
  BY DEF WInv, LoopTypes
<1>a. ASSUME UNCHANGED tasks PROVE TasksFate
  BY <1>a DEF TasksFate
<1>b. ASSUME NEW t \in tasks, Finish(t) PROVE TasksFate
  BY <1>b DEF TasksFate, Finish
<1>c. ASSUME NEW t \in tasks, NEW u, MovesOn(t, u) PROVE TasksFate
  <2>1. u \in Task
    BY <1>c DEF MovesOn
  <2> QED
    BY <1>c, <2>1 DEF TasksFate
<1>1. ASSUME NEW n \in Nodes, Elect(n) \/ StepDown(n) \/ Replicate(n) PROVE TasksFate
  BY <1>1, <1>a DEF Elect, StepDown, Replicate
<1>2. ASSUME NEW n \in Nodes, Stop(n) PROVE TasksFate
  BY <1>2 DEF Stop, TasksFate
<1>3. ASSUME Client PROVE TasksFate
  BY <1>3, <1>a DEF Client
<1>4. ASSUME NEW n \in Nodes, LoopStep(n) PROVE TasksFate
  <2>1. CASE StartLoop(n) \/ StopLoop(n) \/ Drained(n) \/ GiveUp(n)
    BY <2>1, <1>a DEF StartLoop, StopLoop, Drained, GiveUp
  <2>2. CASE ListInFlight(n) \/ ListDue(n) \/ AdoptOrComplete(n) \/ SkipScan(n) \/ EndTick(n)
    <3>1. UNCHANGED tasks
      BY <2>2, Zenon DEF ListInFlight, ListDue, AdoptOrComplete, SkipScan, EndTick
    <3> QED
      BY <3>1, <1>a
  <2>3. ASSUME NEW elapsed \in SUBSET ExecutionIDs, ScanInFlight(n, elapsed)
        PROVE  TasksFate
    BY <2>3, ScanFate DEF TasksFate
  <2>4. CASE Claim(n)
    BY <2>4, <1>a, ClaimFate DEF TasksFate
  <2> QED
    BY <1>4, <2>1, <2>2, <2>3, <2>4 DEF LoopStep
<1>5. ASSUME NEW t \in tasks, TaskStep(t) PROVE TasksFate
  <2>0. t \in Task
    BY <1>0
  <2>1. CASE Dispatch(t)
    <3> DEFINE u == [t EXCEPT !.step = "calling",
                              !.max = ParentOf(seen[t.node], t.exec).maxAttempts]
    <3>1. Finish(t) \/ Advance(t, u)
      BY <2>1 DEF Dispatch
    <3>2. ASSUME Advance(t, u) PROVE MovesOn(t, u)
      BY <2>0, <2>1, <3>2 DEF Dispatch, Advance, MovesOn, Task
    <3> QED
      BY <1>b, <1>c, <3>1, <3>2
  <2>2. ASSUME NEW ok \in BOOLEAN, CallReturns(t, ok) PROVE TasksFate
    <3> DEFINE u == [t EXCEPT !.step = "record",
                              !.outcome = classifyAttemptOutcome(ok, t.count + 1, t.max)]
    <3>1. MovesOn(t, u)
      BY <2>0, <2>2 DEF CallReturns, Advance, MovesOn, Task
    <3> QED
      BY <1>c, <3>1
  <2>3. CASE CallCanceled(t)
    BY <1>b, <2>3 DEF CallCanceled
  <2>4. CASE Record(t)
    BY <1>b, <1>c, <2>4, RecordFate
  <2>5. CASE Finalize(t)
    <3> DEFINE outcome == LastOutcome(seen[t.node], t.exec)
               u == [t EXCEPT !.step = "complete", !.outcome = outcome]
    <3>1. \/ Finish(t)
          \/ outcome \in {"success", "terminal_failure"} /\ Advance(t, u)
      BY <2>5 DEF Finalize
    <3>2. u.node = t.node /\ u.exec = t.exec /\ u.kind = t.kind
            /\ u.step = "complete" /\ u.outcome = outcome
      BY <2>0 DEF Task
    <3>3. ASSUME outcome \in {"success", "terminal_failure"}, Advance(t, u)
          PROVE  MovesOn(t, u)
      <4>1. ReadsFinal(t.node, t.exec, outcome)
        BY <3>3, WorkerAssumption DEF ReadsFinal, Outcomes
      <4> QED
        BY <3>2, <3>3, <4>1 DEF Advance, MovesOn
    <3> QED
      BY <1>b, <1>c, <3>1, <3>3
  <2>6. CASE Complete(t)
    <3>1. Finish(t)
      BY <2>6, Zenon DEF Complete
    <3> QED
      BY <1>b, <3>1
  <2> QED
    BY <1>5, <2>1, <2>2, <2>3, <2>4, <2>5, <2>6 DEF TaskStep
<1>6. CASE UNCHANGED workerVars
  BY <1>6, <1>a DEF workerVars
<1> QED
  BY <1>1, <1>2, <1>3, <1>4, <1>5, <1>6 DEF WorkerNext

(* Where a loop has waited for the tasks it handed out. *)
AtRest == {"off", "recover", "adopt", "idle", "returned", "down"}

(* A loop comes to rest when its tasks are gone, and only then begins a new tick. *)
LEMMA LoopChange ==
    ASSUME WInv, [WorkerNext]_workerVars, NEW n \in Nodes
    PROVE  /\ loop'[n] \in AtRest => loop[n] \in AtRest \/ TasksOf(n)' = {}
           /\ loop'[n] \in {"claim", "scan"} => loop[n] \in AtRest \cup {"claim", "scan"}
<1> DEFINE Goal == /\ loop'[n] \in AtRest => loop[n] \in AtRest \/ TasksOf(n)' = {}
                   /\ loop'[n] \in {"claim", "scan"} =>
                         loop[n] \in AtRest \cup {"claim", "scan"}
<1>0. loop \in [Nodes -> Running \cup {"off", "drain", "returned", "down"}]
  BY DEF WInv, LoopTypes
<1>a. ASSUME loop'[n] = loop[n] PROVE Goal
  BY <1>a
<1>b. ASSUME loop[n] \in AtRest PROVE Goal
  BY <1>b
<1>c. ASSUME TasksOf(n) = {}, UNCHANGED tasks,
             loop'[n] \in AtRest
      PROVE  Goal
  BY <1>c DEF TasksOf, AtRest
<1>1. ASSUME NEW m \in Nodes, Elect(m) \/ StepDown(m) \/ Replicate(m) PROVE Goal
  BY <1>1, <1>a DEF Elect, StepDown, Replicate, loops
<1>2. ASSUME NEW m \in Nodes, Stop(m) PROVE Goal
  BY <1>0, <1>2 DEF Stop, TasksOf, AtRest
<1>3. ASSUME Client PROVE Goal
  BY <1>3, <1>a DEF Client, loops
<1>4. ASSUME NEW m \in Nodes, LoopStep(m) PROVE Goal
  <2>1. CASE StartLoop(m)
    BY <1>0, <1>a, <1>b, <2>1 DEF StartLoop, AtRest
  <2>2. CASE StopLoop(m)
    BY <1>0, <1>a, <1>b, <2>2 DEF StopLoop, AtRest
  <2>3. CASE Drained(m)
    BY <1>0, <1>a, <1>c, <2>3 DEF Drained, AtRest
  <2>4. CASE GiveUp(m)
    BY <1>0, <1>a, <2>4 DEF GiveUp, Quit, Goto, AtRest
  <2>5. CASE ListInFlight(m) \/ ListDue(m)
    <3>1. loop[m] \in AtRest /\ \A k \in Nodes \ {m} : loop'[k] = loop[k]
      BY <1>0, <2>5 DEF ListInFlight, ListDue, GoThrough, Goto, AtRest
    <3> QED
      BY <1>a, <1>b, <3>1
  <2>6. CASE AdoptOrComplete(m)
    <3>1. \E where : loop' = [loop EXCEPT ![m] = where]
      BY <2>6, Zenon DEF AdoptOrComplete, GoThrough, Quit, Goto
    <3>2. loop[m] \in AtRest
      BY <2>6 DEF AdoptOrComplete, AtRest
    <3> QED
      BY <1>0, <1>a, <1>b, <3>1, <3>2
  <2>7. CASE Claim(m)
    <3>1. \E x \in todo[m] : GoThrough(m, "claim", todo[m] \ {x}, "scan")
      BY <2>7, Zenon DEF Claim
    <3>2. loop[m] = "claim"
      BY <2>7 DEF Claim
    <3> QED
      BY <1>0, <1>a, <3>1, <3>2 DEF GoThrough, Goto, AtRest
  <2>8. CASE SkipScan(m) \/ \E elapsed \in SUBSET ExecutionIDs : ScanInFlight(m, elapsed)
    <3>1. loop' = [loop EXCEPT ![m] = "wait"]
      BY <2>8 DEF SkipScan, ScanInFlight, Goto
    <3> QED
      BY <1>0, <1>a, <3>1 DEF AtRest
  <2>9. CASE EndTick(m)
    BY <1>0, <1>a, <1>c, <2>9 DEF EndTick, Goto, AtRest
  <2> QED
    BY <1>4, <2>1, <2>2, <2>3, <2>4, <2>5, <2>6, <2>7, <2>8, <2>9 DEF LoopStep
<1>5. ASSUME NEW t \in tasks, TaskStep(t) PROVE Goal
  <2>1. UNCHANGED loops
    BY <1>5, Zenon DEF TaskStep, Dispatch, CallReturns, CallCanceled, Record, Finalize, Complete
  <2> QED
    BY <1>a, <2>1 DEF loops
<1>6. CASE UNCHANGED workerVars
  BY <1>6, <1>a DEF workerVars, loops
<1> QED
  BY <1>1, <1>2, <1>3, <1>4, <1>5, <1>6 DEF WorkerNext

-----------------------------------------------------------------------------
(* What a step of the cluster does to the executions. *)

(* t records the attempt it made for its execution, and has nothing else to do     *)
(* than to complete it.                                                      *)
RecordsAttempt(t) ==
    /\ t.step = "record"
    /\ tasks' \subseteq (tasks \ {t}) \cup {[t EXCEPT !.step = "complete"]}
    /\ Attempted(db', t.exec)

(* e is completed as o: by a task that has come that far, or in the recovery of a  *)
(* node that read o from its replica.                                         *)
CompletedAs(e, o) ==
    /\ db'.executions[e].status = Verdict(o)
    /\ \/ \E t \in tasks : t.step = "complete" /\ t.exec = e /\ t.outcome = o
       \/ \E n \in Nodes : ReadsFinal(n, e, o)

ExecutionFate(e) ==
    /\ \/ db'.executions[e].attemptCount = db.executions[e].attemptCount
       \/ \E t \in tasks : t.exec = e /\ RecordsAttempt(t)
    /\ \/ db'.executions[e].status = db.executions[e].status
       \/ \E o : CompletedAs(e, o)

(* Completing f as o leaves every other execution alone. *)
LEMMA CompleteFate ==
    ASSUME db \in Database, NEW f \in Executions(db), NEW o, NEW cmd,
           cmd = [executionID |-> f, finalStatus |-> Verdict(o)],
           db' = ApplyCompleteExecution(db, cmd),
           \/ \E t \in tasks : t.step = "complete" /\ t.exec = f /\ t.outcome = o
           \/ \E n \in Nodes : ReadsFinal(n, f, o)
    PROVE  \A e \in Executions(db) : ExecutionFate(e)
<1>1. db'.executions = [db.executions EXCEPT ![f] = [@ EXCEPT !.status = Verdict(o),
                                                              !.ownerNodeID = Nil]]
  BY DEF ApplyCompleteExecution, EndExecution, Database
<1>2. \A e \in Executions(db) : db.executions[e] \in Execution
  BY DEF Executions, Database
<1>3. /\ db'.executions[f].status = Verdict(o)
      /\ db'.executions[f].attemptCount = db.executions[f].attemptCount
      /\ \A e \in Executions(db) \ {f} : db'.executions[e] = db.executions[e]
  <2>1. /\ db'.executions[f] = [db.executions[f] EXCEPT !.status = Verdict(o),
                                                       !.ownerNodeID = Nil]
        /\ \A e \in Executions(db) \ {f} : db'.executions[e] = db.executions[e]
    BY <1>1 DEF Executions, Database
  <2> QED
    BY <1>2, <2>1 DEF Execution
<1>4. CompletedAs(f, o)
  BY <1>3 DEF CompletedAs
<1> QED
  BY <1>3, <1>4 DEF ExecutionFate

LEMMA RecordedFate ==
    ASSUME WInv, NEW t \in tasks, t.step = "record", NEW a \in AttemptIDs, NEW cmd,
           cmd.id = a, cmd.executionID = t.exec,
           db' = ApplyRecordAttempt(db, cmd),
           tasks' \subseteq (tasks \ {t}) \cup {[t EXCEPT !.step = "complete"]}
    PROVE  \A e \in Executions(db) : ExecutionFate(e)
<1>0. t.exec \in Executions(db)
  <2>1. t.node \in Nodes /\ t.exec \in Executions(seen[t.node])
    BY DEF WInv, LoopTypes, ReplicasBehind, Task
  <2> QED
    BY <2>1 DEF WInv, ReplicasBehind
<1>1. /\ db'.executions[t.exec].attemptCount = db.executions[t.exec].attemptCount + 1
      /\ db'.executions[t.exec].status = db.executions[t.exec].status
      /\ \A e \in Executions(db) \ {t.exec} : db'.executions[e] = db.executions[e]
  <2>1. db'.executions = [db.executions EXCEPT ![t.exec] =
            [@ EXCEPT !.attemptCount = db.executions[t.exec].attemptCount + 1,
                      !.lastAttemptID = a, !.lastRetryAt = cmd.retryAt]]
    BY DEF ApplyRecordAttempt, WInv, IInv, TypeOK, Database
  <2>2. db.executions[t.exec] \in Execution
    BY <1>0 DEF Executions, WInv, IInv, TypeOK, Database
  <2> QED
    BY <1>0, <2>1, <2>2 DEF Executions, WInv, IInv, TypeOK, Database, Execution
<1>2. db.executions[t.exec].attemptCount \in Nat
  BY <1>0 DEF Executions, WInv, IInv, TypeOK, Database, Execution
<1>3. RecordsAttempt(t)
  BY <1>1, <1>2 DEF RecordsAttempt, Attempted
<1> QED
  BY <1>1, <1>3 DEF ExecutionFate
LEMMA ExecutionsChange ==
    ASSUME WInv, [WorkerNext]_workerVars, NEW e \in Executions(db)
    PROVE  ExecutionFate(e)
<1>0. db \in Database
  BY DEF WInv, IInv, TypeOK
<1>a. ASSUME db'.executions = db.executions PROVE ExecutionFate(e)
  BY <1>a DEF ExecutionFate
<1>b. ASSUME UNCHANGED log PROVE ExecutionFate(e)
  BY <1>a, <1>b DEF log
<1>1. ASSUME NEW n \in Nodes, Elect(n) \/ StepDown(n) \/ Replicate(n) \/ Stop(n)
      PROVE  ExecutionFate(e)
  BY <1>1, <1>b DEF Elect, StepDown, Replicate, Stop
<1>2. ASSUME Client PROVE ExecutionFate(e)
  <2>1. ASSUME NEW t \in Tenants, NEW at, CreateTenant(t, at)
        PROVE  db'.executions = db.executions
    BY <1>0, <2>1 DEF CreateTenant, Commit, ApplyCreateTenant, Database
  <2>2. ASSUME NEW s \in ScheduleIDs, NEW at, CreateSchedule(s, at)
        PROVE  db'.executions = db.executions
    BY <1>0, <2>2 DEF CreateSchedule, Commit, ApplyCreateSchedule, Database
  <2>3. ASSUME NEW s \in ScheduleIDs, NEW at, PauseSchedule(s, at)
        PROVE  db'.executions = db.executions
    BY <1>0, <2>3 DEF PauseSchedule, Commit, ApplyPauseSchedule, Database
  <2>4. ASSUME NEW s \in ScheduleIDs, NEW at, ResumeSchedule(s, at)
        PROVE  db'.executions = db.executions
    BY <1>0, <2>4 DEF ResumeSchedule, Commit, ApplyResumeSchedule, Database
  <2>5. ASSUME NEW s \in ScheduleIDs, NEW at, CancelSchedule(s, at)
        PROVE  db'.executions = db.executions
    BY <1>0, <2>5 DEF CancelSchedule, Commit, ApplyCancelSchedule, Database
  <2>6. ASSUME NEW s \in ScheduleIDs, NEW at, UpdateSchedule(s, at)
        PROVE  db'.executions = db.executions
    BY <1>0, <2>6 DEF UpdateSchedule, Commit, ApplyUpdateSchedule, Database
  <2> QED
    BY <1>2, <1>a, <2>1, <2>2, <2>3, <2>4, <2>5, <2>6 DEF Client
<1>3. ASSUME NEW n \in Nodes, LoopStep(n) PROVE ExecutionFate(e)
  <2>1. CASE StartLoop(n) \/ StopLoop(n) \/ Drained(n) \/ GiveUp(n)
    BY <2>1, <1>b DEF StartLoop, StopLoop, Drained, GiveUp
  <2>2. CASE ListInFlight(n) \/ ListDue(n)
    BY <2>2, <1>b DEF ListInFlight, ListDue
  <2>3. CASE (\E elapsed \in SUBSET ExecutionIDs : ScanInFlight(n, elapsed))
               \/ SkipScan(n) \/ EndTick(n)
    BY <2>3, <1>b DEF ScanInFlight, SkipScan, EndTick
  <2>4. CASE AdoptOrComplete(n)
    <3>1. PICK x \in todo[n], at \in ProposedTimes :
            \/ UNCHANGED vars
            \/ Commit(ApplyAdoptExecution(db, AdoptionBy(n, x)), at)
            \/ \E o : /\ o \notin {Nil, "retry"} /\ o = LastOutcome(seen[n], x.exec)
                      /\ CompleteExecutionAccepted(db, CompletionAs(x.exec, o))
                      /\ Commit(ApplyCompleteExecution(db, CompletionAs(x.exec, o)), at)
      BY <2>4, AdoptOrCompleteIsEntry
    <3>2. x.exec \in ExecutionIDs
      BY <2>4 DEF AdoptOrComplete, WInv, ProposalsSound, Recovered
    <3>3. ASSUME db' = ApplyAdoptExecution(db, AdoptionBy(n, x)) PROVE ExecutionFate(e)
      <4>1. db'.executions = [db.executions EXCEPT ![x.exec] = [@ EXCEPT !.ownerNodeID = n]]
        BY <1>0, <3>3 DEF ApplyAdoptExecution, AdoptionBy, Database
      <4>2. db.executions[e] \in Execution
        BY <1>0 DEF Executions, Database
      <4>3. /\ db'.executions[e].status = db.executions[e].status
            /\ db'.executions[e].attemptCount = db.executions[e].attemptCount
        BY <1>0, <4>1, <4>2 DEF Database, Executions, Execution
      <4> QED
        BY <4>3 DEF ExecutionFate
    <3>4. ASSUME NEW o, o \notin {Nil, "retry"}, o = LastOutcome(seen[n], x.exec),
                 CompleteExecutionAccepted(db, CompletionAs(x.exec, o)),
                 db' = ApplyCompleteExecution(db, CompletionAs(x.exec, o))
          PROVE  ExecutionFate(e)
      <4>1. x.exec \in Executions(db)
        BY <3>2, <3>4 DEF CompleteExecutionAccepted, CompletionAs, EndExecutionAccepted, Executions
      <4>2. ReadsFinal(n, x.exec, o)
        BY <3>4 DEF ReadsFinal
      <4> QED
        BY <1>0, <3>4, <4>1, <4>2, CompleteFate DEF CompletionAs
    <3> QED
      BY <1>a, <3>1, <3>3, <3>4 DEF Commit, vars
  <2>5. CASE Claim(n)
    <3>1. ASSUME NEW f \in ExecutionIDs \ Executions(db), NEW x, NEW at,
                 Commit(ApplyClaimExecution(db, ClaimBy(n, x, f)), at)
          PROVE  db'.executions[e] = db.executions[e]
      <4>1. f # e
        BY DEF Executions
      <4> QED
        BY <1>0, <3>1, <4>1 DEF Commit, ApplyClaimExecution, ClaimBy, Database, Executions
    <3> QED
      BY <2>5, <3>1, ClaimIsEntry DEF vars, ExecutionFate
  <2> QED
    BY <1>3, <2>1, <2>2, <2>3, <2>4, <2>5 DEF LoopStep
<1>4. ASSUME NEW t \in tasks, TaskStep(t) PROVE ExecutionFate(e)
  <2>1. CASE Dispatch(t) \/ CallCanceled(t) \/ Finalize(t)
               \/ \E ok \in BOOLEAN : CallReturns(t, ok)
    <3>1. UNCHANGED log
      BY <2>1, Zenon DEF Dispatch, CallCanceled, Finalize, CallReturns
    <3> QED
      BY <1>b, <3>1
  <2>2. CASE Record(t)
    <3>1. tasks' \subseteq (tasks \ {t}) \cup {[t EXCEPT !.step = "complete"]}
      <4>1. Finish(t) \/ Advance(t, [t EXCEPT !.step = "complete"])
        BY <2>2, Zenon DEF Record
      <4> QED
        BY <4>1 DEF Finish, Advance
    <3>2. t.step = "record"
      BY <2>2 DEF Record
    <3>3. ASSUME NEW a \in NewAttemptIDs, NEW r,
                 db' = ApplyRecordAttempt(db, AttemptOf(t, a, r))
          PROVE  ExecutionFate(e)
      <4> DEFINE cmd == AttemptOf(t, a, r)
      <4>1. a \in AttemptIDs /\ cmd.id = a /\ cmd.executionID = t.exec
        BY DEF NewAttemptIDs, AttemptOf
      <4> HIDE DEF cmd
      <4>2. db' = ApplyRecordAttempt(db, cmd)
        BY <3>3 DEF cmd
      <4> QED
        BY <3>1, <3>2, <4>1, <4>2, RecordedFate
    <3> QED
      BY <1>a, <2>2, <3>3, RecordIsEntry DEF Commit, vars
  <2>3. CASE Complete(t)
    <3>1. t.step = "complete" /\ t.exec \in ExecutionIDs
      BY <2>3 DEF Complete, WInv, LoopTypes, Task
    <3>2. ASSUME CompleteExecutionAccepted(db, CompletionAs(t.exec, t.outcome)),
                 db' = ApplyCompleteExecution(db, CompletionAs(t.exec, t.outcome))
          PROVE  ExecutionFate(e)
      <4>1. t.exec \in Executions(db)
        BY <3>1, <3>2 DEF CompleteExecutionAccepted, CompletionAs, EndExecutionAccepted, Executions
      <4> QED
        BY <1>0, <3>1, <3>2, <4>1, CompleteFate DEF CompletionAs
    <3> QED
      BY <1>a, <2>3, <3>2, CompleteIsEntry DEF Commit, vars
  <2> QED
    BY <1>4, <2>1, <2>2, <2>3 DEF TaskStep
<1>5. CASE UNCHANGED workerVars
  BY <1>5, <1>b DEF workerVars
<1> QED
  BY <1>1, <1>2, <1>3, <1>4, <1>5 DEF WorkerNext

-----------------------------------------------------------------------------
(* One callback at a time. *)

(* Nobody has recorded an attempt of an execution whose first task has not, *)
FreshUnattempted ==
    \A t \in tasks : IsFresh(t) /\ t.step # "complete" => ~Attempted(db, t.exec)

(* and only an attempted execution gets another task.                        *)
FoundAttempted ==
    /\ \A t \in tasks : ~IsFresh(t) => Attempted(db, t.exec)
    /\ \A n \in Nodes : \A e \in Executions(seen[n]) :
         Summed(seen[n].executions[e]) => Attempted(db, e)

(* An execution is handed out once when it is claimed, and once a tick. *)
HandedOutOnce ==
    /\ \A t, u \in tasks : t.exec = u.exec /\ IsFresh(t) /\ IsFresh(u) => t = u
    /\ \A t, u \in tasks :
         t.node = u.node /\ t.exec = u.exec /\ ~IsFresh(t) /\ ~IsFresh(u) => t = u

(* A tick begins when the tasks of the one before are gone. *)
TicksWait ==
    \A n \in Nodes :
        /\ loop[n] \in AtRest => TasksOf(n) = {}
        /\ loop[n] \in {"claim", "scan"} => \A t \in TasksOf(n) : IsFresh(t)

CallsInv == FreshUnattempted /\ FoundAttempted /\ HandedOutOnce /\ TicksWait

LEMMA TicksStep ==
    ASSUME WInv, TicksWait, [WorkerNext]_workerVars, TasksFate
    PROVE  TicksWait'
<1> SUFFICES ASSUME NEW n \in Nodes
             PROVE  /\ loop'[n] \in AtRest => TasksOf(n)' = {}
                    /\ loop'[n] \in {"claim", "scan"} => \A t \in TasksOf(n)' : IsFresh(t)
  BY DEF TicksWait
<1>1. CASE tasks' \subseteq tasks
  <2>1. TasksOf(n)' \subseteq TasksOf(n)
    BY <1>1 DEF TasksOf
  <2> QED
    BY <2>1, LoopChange DEF TicksWait
<1>2. ASSUME NEW t \in tasks, NEW u, MovesOn(t, u)
      PROVE  /\ loop'[n] \in AtRest => TasksOf(n)' = {}
             /\ loop'[n] \in {"claim", "scan"} => \A v \in TasksOf(n)' : IsFresh(v)
  <2>1. \A v \in TasksOf(n)' : v \in TasksOf(n) \/ (v = u /\ t \in TasksOf(n))
    BY <1>2 DEF MovesOn, TasksOf
  <2>2. IsFresh(u) <=> IsFresh(t)
    BY <1>2 DEF MovesOn, IsFresh
  <2> QED
    BY <2>1, <2>2, LoopChange DEF TicksWait
<1>3. ASSUME NEW m \in Nodes, HandsOutClaimed(m)
      PROVE  /\ loop'[n] \in AtRest => TasksOf(n)' = {}
             /\ loop'[n] \in {"claim", "scan"} => \A v \in TasksOf(n)' : IsFresh(v)
  <2>1. PICK e : tasks' = tasks \cup {FreshTask(m, e)}
    BY <1>3 DEF HandsOutClaimed
  <2>2. FreshTask(m, e).node = m /\ IsFresh(FreshTask(m, e))
    BY DEF FreshTask, IsFresh
  <2>3. loop[m] = "claim" /\ "claim" \notin AtRest
    BY <1>3 DEF HandsOutClaimed, AtRest
  <2>4. CASE n = m
    <3>1. \A v \in TasksOf(n)' : v \in TasksOf(n) \/ IsFresh(v)
      BY <2>1, <2>2 DEF TasksOf
    <3> QED
      BY <2>3, <2>4, <3>1, LoopChange DEF TicksWait
  <2>5. CASE n # m
    <3>1. TasksOf(n)' = TasksOf(n)
      BY <2>1, <2>2, <2>5 DEF TasksOf
    <3> QED
      BY <3>1, LoopChange DEF TicksWait
  <2> QED
    BY <2>4, <2>5
<1>4. ASSUME NEW m \in Nodes, HandsOutFound(m)
      PROVE  /\ loop'[n] \in AtRest => TasksOf(n)' = {}
             /\ loop'[n] \in {"claim", "scan"} => \A v \in TasksOf(n)' : IsFresh(v)
  <2>1. CASE n = m
    BY <1>4, <2>1 DEF HandsOutFound, AtRest
  <2>2. CASE n # m
    <3>1. TasksOf(n)' = TasksOf(n)
      BY <1>4, <2>2 DEF HandsOutFound, TasksOf
    <3> QED
      BY <3>1, LoopChange DEF TicksWait
  <2> QED
    BY <2>1, <2>2
<1> QED
  BY <1>1, <1>2, <1>3, <1>4 DEF TasksFate

LEMMA HandedOutStep ==
    ASSUME WInv, CallsInv, TasksFate
    PROVE  HandedOutOnce'
<1>0. HandedOutOnce
  BY DEF CallsInv
<1>1. CASE tasks' \subseteq tasks
  BY <1>0, <1>1 DEF HandedOutOnce
<1>2. ASSUME NEW t \in tasks, NEW u, MovesOn(t, u) PROVE HandedOutOnce'
  <2>1. \A v \in tasks' : v = u \/ (v \in tasks /\ v # t)
    BY <1>2 DEF MovesOn
  <2>2. u.node = t.node /\ u.exec = t.exec /\ (IsFresh(u) <=> IsFresh(t))
    BY <1>2 DEF MovesOn, IsFresh
  <2> QED
    BY <1>0, <2>1, <2>2 DEF HandedOutOnce
<1>3. ASSUME NEW n \in Nodes, HandsOutClaimed(n) PROVE HandedOutOnce'
  <2>1. PICK e \in ExecutionIDs \ Executions(db) : tasks' = tasks \cup {FreshTask(n, e)}
    BY <1>3 DEF HandsOutClaimed
  <2>2. FreshTask(n, e).exec = e /\ IsFresh(FreshTask(n, e))
    BY DEF FreshTask, IsFresh
  <2>3. \A t \in tasks : t.exec # e
    BY DEF WInv, LoopTypes, ReplicasBehind, Task
  <2> QED
    BY <1>0, <2>1, <2>2, <2>3 DEF HandedOutOnce
<1>4. ASSUME NEW n \in Nodes, HandsOutFound(n) PROVE HandedOutOnce'
  <2>1. \A t \in tasks : t.node = n => IsFresh(t)
    BY <1>4 DEF HandsOutFound, CallsInv, TicksWait, TasksOf
  <2>2. \A t \in tasks' \ tasks : t.node = n /\ ~IsFresh(t)
    BY <1>4 DEF HandsOutFound
  <2>3. \A t, u \in tasks' \ tasks : t.exec = u.exec => t = u
    BY <1>4 DEF HandsOutFound
  <2> QED
    BY <1>0, <2>1, <2>2, <2>3 DEF HandedOutOnce
<1> QED
  BY <1>1, <1>2, <1>3, <1>4 DEF TasksFate

(* A first task's execution gets an attempt only from the task itself. *)
LEMMA FreshStep ==
    ASSUME WInv, CallsInv, TasksFate, \A e \in Executions(db) : ExecutionFate(e)
    PROVE  FreshUnattempted'
<1> SUFFICES ASSUME NEW u \in tasks', IsFresh(u), u.step # "complete", Attempted(db', u.exec)
             PROVE  FALSE
  BY DEF FreshUnattempted
<1>1. CASE \E t \in tasks : t.exec = u.exec /\ IsFresh(t) /\ t.step # "complete"
  <2>1. PICK t \in tasks : t.exec = u.exec /\ IsFresh(t) /\ t.step # "complete"
    BY <1>1
  <2>2. t.exec \in Executions(db)
    BY DEF WInv, LoopTypes, ReplicasBehind, Task
  <2>3. ~Attempted(db, t.exec)
    BY <2>1 DEF CallsInv, FreshUnattempted
  <2>4. PICK r \in tasks : r.exec = t.exec /\ RecordsAttempt(r)
    BY <2>1, <2>2, <2>3 DEF ExecutionFate, Attempted
  <2>5. IsFresh(r)
    BY <2>3, <2>4 DEF CallsInv, FoundAttempted
  <2>6. r = t
    BY <2>1, <2>4, <2>5 DEF CallsInv, HandedOutOnce
  <2>7. t \in Task
    BY DEF WInv, LoopTypes
  <2>8. u \in tasks /\ u # t
    BY <2>4, <2>6, <2>7 DEF RecordsAttempt, Task
  <2> QED
    BY <2>1, <2>8 DEF CallsInv, HandedOutOnce
<1>2. CASE ~\E t \in tasks : t.exec = u.exec /\ IsFresh(t) /\ t.step # "complete"
  <2>1. u \notin tasks
    BY <1>2
  <2>2. ASSUME NEW t \in tasks, NEW v, MovesOn(t, v) PROVE FALSE
    <3>1. u = v
      BY <2>1, <2>2 DEF MovesOn
    <3> QED
      BY <1>2, <2>2, <3>1 DEF MovesOn, IsFresh
  <2>3. ASSUME NEW n \in Nodes, HandsOutFound(n) PROVE FALSE
    BY <2>1, <2>3 DEF HandsOutFound
  <2>4. ASSUME NEW n \in Nodes, HandsOutClaimed(n) PROVE FALSE
    BY <2>1, <2>4 DEF HandsOutClaimed, FreshTask
  <2> QED
    BY <2>1, <2>2, <2>3, <2>4 DEF TasksFate
<1> QED
  BY <1>1, <1>2

LEMMA FoundStep ==
    ASSUME WInv, CallsInv, TasksFate, \A e \in Executions(db) : ExecutionFate(e),
           [WorkerNext]_workerVars, WInv', AttemptsMatchSummary, AttemptsMatchSummary'
    PROVE  FoundAttempted'
<1>1. \A e \in Executions(db) : Attempted(db, e) => Attempted(db', e)
  BY DEF ExecutionFate, RecordsAttempt, Attempted
<1>2. \A t \in tasks : t.exec \in Executions(db)
  BY DEF WInv, LoopTypes, ReplicasBehind, Task
<1>3. ASSUME NEW u \in tasks', ~IsFresh(u) PROVE Attempted(db', u.exec)
  <2>1. CASE \E t \in tasks : t.exec = u.exec /\ ~IsFresh(t)
    BY <1>1, <1>2, <2>1 DEF CallsInv, FoundAttempted
  <2>2. ASSUME NEW n \in Nodes, HandsOutFound(n), u \notin tasks PROVE Attempted(db', u.exec)
    <3>1. u.exec \in Executions(seen[n]) /\ Summed(seen[n].executions[u.exec])
      BY <2>2 DEF HandsOutFound
    <3>2. Attempted(db, u.exec) /\ u.exec \in Executions(db)
      BY <3>1 DEF CallsInv, FoundAttempted, WInv, ReplicasBehind
    <3> QED
      BY <1>1, <3>2
  <2>3. ASSUME NEW t \in tasks, NEW v, MovesOn(t, v), u \notin tasks
        PROVE  t.exec = u.exec /\ ~IsFresh(t)
    BY <1>3, <2>3 DEF MovesOn, IsFresh
  <2>4. ASSUME NEW n \in Nodes, HandsOutClaimed(n) PROVE u \in tasks
    BY <1>3, <2>4 DEF HandsOutClaimed, FreshTask, IsFresh
  <2> QED
    BY <1>3, <2>1, <2>2, <2>3, <2>4 DEF TasksFate
<1>4. ASSUME NEW n \in Nodes, NEW e \in Executions(seen'[n]), Summed(seen'[n].executions[e])
      PROVE  Attempted(db', e)
  <2>1. seen'[n] = seen[n] \/ seen'[n] = db \/ seen'[n] = db'
    BY SeenStep DEF WInv, LoopTypes
  <2>2. CASE seen'[n] = seen[n]
    BY <1>1, <1>4, <2>2 DEF CallsInv, FoundAttempted, WInv, ReplicasBehind
  <2>3. CASE seen'[n] = db
    <3>1. e \in Executions(db) /\ Summed(db.executions[e])
      BY <1>4, <2>3
    <3>2. db.executions[e].attemptCount \in Nat
      BY <3>1 DEF Executions, WInv, IInv, TypeOK, Database, Execution
    <3>3. Attempted(db, e)
      BY <3>1, <3>2 DEF AttemptsMatchSummary, Summed, Attempted
    <3> QED
      BY <1>1, <3>1, <3>3
  <2>4. CASE seen'[n] = db'
    <3>1. e \in Executions(db)' /\ Summed(db'.executions[e])
      BY <1>4, <2>4 DEF Executions
    <3>2. db'.executions[e].attemptCount \in Nat
      BY <3>1 DEF Executions, WInv, IInv, TypeOK, Database, Execution
    <3>3. db'.executions[e].attemptCount # 0
      BY <3>1 DEF AttemptsMatchSummary, Summed
    <3> QED
      BY <3>2, <3>3 DEF Attempted
  <2> QED
    BY <2>1, <2>2, <2>3, <2>4
<1> QED
  BY <1>3, <1>4 DEF FoundAttempted

LEMMA CallsStep ==
    WInv /\ AttemptsMatchSummary /\ AttemptsMatchSummary' /\ CallsInv /\ [WorkerNext]_workerVars
      => CallsInv'
<1> SUFFICES ASSUME WInv, AttemptsMatchSummary, AttemptsMatchSummary', CallsInv,
                    [WorkerNext]_workerVars
             PROVE  CallsInv'
  OBVIOUS
<1>1. WInv'
  BY WorkerStep
<1>2. TasksFate
  BY <1>1, TasksChange DEF WInv, LoopTypes
<1>3. \A e \in Executions(db) : ExecutionFate(e)
  BY ExecutionsChange
<1>4. TicksWait'
  BY <1>2, TicksStep DEF CallsInv
<1>5. HandedOutOnce'
  BY <1>2, HandedOutStep
<1>6. FreshUnattempted'
  BY <1>2, <1>3, FreshStep
<1>7. FoundAttempted'
  BY <1>1, <1>2, <1>3, FoundStep
<1> QED
  BY <1>4, <1>5, <1>6, <1>7 DEF CallsInv

LEMMA CallsInvariant == WorkerSpec => []CallsInv
<1>1. WorkerInit => CallsInv
  BY DEF WorkerInit, CallsInv, FreshUnattempted, FoundAttempted, HandedOutOnce, TicksWait,
         TasksOf, EmptyDatabase, Executions
<1>2. WorkerSpec => []AttemptsMatchSummary
  BY WorkersImplementLog, SummaryIsExact, PTL DEF WorkersMakeLog
<1> QED
  BY <1>1, <1>2, CallsStep, WorkerInvariant, PTL DEF WorkerSpec

(* However executions are handed out by claims and by the scans of other ticks,     *)
(* on however many nodes, a node never has two callbacks of an execution under   *)
(* way: a scan waits for the tick before, and what was just claimed is not found *)
(* by it.                                                                    *)
THEOREM CallsDoNotOverlap == WorkerSpec => []OneCallPerNode
<1>1. CallsInv => OneCallPerNode
  <2> SUFFICES ASSUME CallsInv, NEW t \in tasks, NEW u \in tasks,
                      t.node = u.node, t.exec = u.exec,
                      t.step \in {"calling", "record"}, u.step \in {"calling", "record"}
               PROVE  t = u
    BY DEF OneCallPerNode
  <2>1. IsFresh(t) <=> IsFresh(u)
    BY DEF CallsInv, FreshUnattempted, FoundAttempted
  <2> QED
    BY <2>1 DEF CallsInv, HandedOutOnce
<1> QED
  BY <1>1, CallsInvariant, PTL

-----------------------------------------------------------------------------
(* Executions end as an attempt did. *)

(* No attempt has a key beyond some bound.  There are always finitely many; this  *)
(* is the part of it that makes one the last.                                 *)
AttemptsBounded(tx) == \E b \in Nat : \A a \in Attempts(tx) : a <= b

(* tx has the attempts of ty, with the rows they have there. *)
HasAttemptsOf(tx, ty) ==
    \A a \in Attempts(ty) : a \in Attempts(tx) /\ tx.attempts[a] = ty.attempts[a]

OutcomesInv ==
    /\ AttemptsBounded(db)
    /\ \A n \in Nodes : HasAttemptsOf(db, seen[n])
    /\ \A t \in tasks : t.step = "complete" => FinalIn(db, t.exec, t.outcome)
    /\ EndsAsAttempted

(* The last outcome a node reads is that of some attempt. *)
LEMMA LastOutcomeIsFinal ==
    ASSUME NEW tx \in Database, AttemptsBounded(tx), NEW e, NEW o,
           o \notin {Nil, "retry"}, o = LastOutcome(tx, e)
    PROVE  FinalIn(tx, e, o)
<1> DEFINE A == AttemptsIn(tx, e)
           last == CHOOSE a \in A : \A b \in A : b <= a
<1>1. A # {} /\ o = tx.attempts[last].outcome
  BY Zenon DEF LastOutcome
<1>2. A \subseteq Attempts(tx) /\ Attempts(tx) \subseteq AttemptIDs
  BY DEF AttemptsIn, Attempts
<1>3. \E m \in A : \A b \in A : b <= m
  <2>1. PICK b \in Nat : \A a \in Attempts(tx) : a <= b
    BY DEF AttemptsBounded
  <2>2. A \in SUBSET Nat /\ \A a \in A : a <= b
    BY <1>2, <2>1, WorkerAssumption
  <2> HIDE DEF A
  <2> QED
    BY <1>1, <2>2, BoundedSetHasMax
<1>4. last \in A
  <2> HIDE DEF A
  <2> QED
    BY <1>3
<1> HIDE DEF A, last
<1>5. tx.attempts[last] \in Attempt
  BY <1>2, <1>4 DEF Attempts, Database
<1>6. o \in {"success", "terminal_failure"}
  BY <1>1, <1>5 DEF Attempt, Outcomes
<1> QED
  BY <1>1, <1>4, <1>6 DEF FinalIn, A

LEMMA FinalStays ==
    ASSUME NEW tx, NEW ty, HasAttemptsOf(tx, ty), NEW e, NEW o, FinalIn(ty, e, o)
    PROVE  FinalIn(tx, e, o)
BY DEF HasAttemptsOf, FinalIn, AttemptsIn

(* The log's attempts stay, and it gains one at most in a step. *)
LEMMA AttemptsGrow ==
    ASSUME IInv, [Next]_vars, NEW next, next = db'
    PROVE  /\ HasAttemptsOf(next, db)
           /\ AttemptsBounded(db) => AttemptsBounded(next)
<1>0. db.attempts \in [AttemptIDs -> Attempt \cup {Nil}]
  BY DEF IInv, TypeOK, Database
<1>1. \/ next.attempts = db.attempts
      \/ \E a \in AttemptIDs, new \in Attempt :
           db.attempts[a] = Nil /\ next.attempts = [db.attempts EXCEPT ![a] = new]
  BY StepEffect DEF Effect, LeavesExecutions, Claims, Adopts, Records, Finishes
<1>2. CASE next.attempts = db.attempts
  BY <1>2 DEF HasAttemptsOf, AttemptsBounded, Attempts
<1>3. ASSUME NEW a \in AttemptIDs, NEW new \in Attempt, db.attempts[a] = Nil,
             next.attempts = [db.attempts EXCEPT ![a] = new]
      PROVE  /\ HasAttemptsOf(next, db)
             /\ AttemptsBounded(db) => AttemptsBounded(next)
  <2>1. HasAttemptsOf(next, db)
    BY <1>0, <1>3 DEF HasAttemptsOf, Attempts
  <2>2. \A b \in Attempts(next) : b \in Attempts(db) \/ b = a
    BY <1>0, <1>3 DEF Attempts
  <2>3. ASSUME NEW m \in Nat, \A b \in Attempts(db) : b <= m
        PROVE  AttemptsBounded(next)
    <3>1. a \in Nat /\ Attempts(db) \subseteq Nat
      BY WorkerAssumption DEF Attempts
    <3> DEFINE bound == IF a <= m THEN m ELSE a
    <3>2. bound \in Nat /\ a <= bound /\ m <= bound
      BY <3>1
    <3>3. \A b \in Attempts(next) : b <= bound
      BY <2>2, <2>3, <3>1, <3>2
    <3> QED
      BY <3>2, <3>3 DEF AttemptsBounded
  <2> QED
    BY <2>1, <2>3 DEF AttemptsBounded
<1> QED
  BY <1>1, <1>2, <1>3

LEMMA OutcomesStep == WInv /\ OutcomesInv /\ [WorkerNext]_workerVars => OutcomesInv'
<1> SUFFICES ASSUME WInv, OutcomesInv, [WorkerNext]_workerVars PROVE OutcomesInv'
  OBVIOUS
<1> PICK next : next = db'
  OBVIOUS
<1>1. WInv' /\ [Next]_vars /\ IInv
  BY WorkerStep, StepIsEntry DEF WInv
<1>2. HasAttemptsOf(next, db) /\ AttemptsBounded(next)
  BY <1>1, AttemptsGrow DEF OutcomesInv
<1>3. \A n \in Nodes : AttemptsBounded(seen[n])
  BY DEF OutcomesInv, AttemptsBounded, HasAttemptsOf
<1>4. ASSUME NEW n \in Nodes PROVE HasAttemptsOf(next, seen'[n])
  <2>1. seen'[n] = seen[n] \/ seen'[n] = db \/ seen'[n] = next
    BY SeenStep DEF WInv, LoopTypes
  <2>2. HasAttemptsOf(next, seen[n])
    BY <1>2 DEF OutcomesInv, HasAttemptsOf
  <2>3. HasAttemptsOf(next, next)
    BY DEF HasAttemptsOf
  <2> QED
    BY <1>2, <2>1, <2>2, <2>3
<1>5. ASSUME NEW n \in Nodes, NEW e, NEW o, ReadsFinal(n, e, o) PROVE FinalIn(next, e, o)
  <2>1. seen[n] \in Database
    BY DEF WInv, LoopTypes
  <2>2. FinalIn(seen[n], e, o)
    BY <1>3, <1>5, <2>1, LastOutcomeIsFinal DEF ReadsFinal
  <2>3. FinalIn(db, e, o)
    BY <2>2, FinalStays DEF OutcomesInv
  <2> QED
    BY <1>2, <2>3, FinalStays
<1>6. ASSUME NEW t \in tasks, t.step = "complete" PROVE FinalIn(next, t.exec, t.outcome)
  BY <1>2, <1>6, FinalStays DEF OutcomesInv
<1>7. ASSUME NEW u \in tasks', u.step = "complete" PROVE FinalIn(next, u.exec, u.outcome)
  <2>1. TasksFate
    BY <1>1, TasksChange DEF WInv, LoopTypes
  <2>2. CASE u \in tasks
    BY <1>6, <1>7, <2>2
  <2>3. ASSUME NEW t \in tasks, NEW v \in Task, MovesOn(t, v), u \notin tasks
        PROVE  FinalIn(next, u.exec, u.outcome)
    <3>1. u = v /\ u.node \in Nodes
      BY <2>3 DEF MovesOn, Task
    <3> QED
      BY <1>5, <1>7, <2>3, <3>1 DEF MovesOn
  <2>4. ASSUME NEW n \in Nodes, HandsOutFound(n) PROVE u \in tasks
    BY <1>7, <2>4 DEF HandsOutFound
  <2>5. ASSUME NEW n \in Nodes, HandsOutClaimed(n) PROVE u \in tasks
    BY <1>7, <2>5 DEF HandsOutClaimed, FreshTask
  <2> QED
    BY <2>1, <2>2, <2>3, <2>4, <2>5 DEF TasksFate
<1>8. ASSUME NEW e \in Executions(next), IsTerminal(next.executions[e].status)
      PROVE  \E o : FinalIn(next, e, o) /\ next.executions[e].status = Verdict(o)
  <2>1. e \in Executions(db)
    BY <1>1, <1>8, ExecutionStep DEF New
  <2>2. ExecutionFate(e)
    BY <2>1, ExecutionsChange
  <2>3. CASE next.executions[e].status = db.executions[e].status
    <3>1. PICK a \in AttemptsIn(db, e) : /\ db.attempts[a].outcome # "retry"
                                         /\ db.executions[e].status = Verdict(db.attempts[a].outcome)
      BY <1>8, <2>1, <2>3 DEF OutcomesInv, EndsAsAttempted
    <3>2. db.attempts[a] \in Attempt
      BY <1>1 DEF AttemptsIn, Attempts, IInv, TypeOK, Database
    <3>3. FinalIn(db, e, db.attempts[a].outcome)
      BY <3>1, <3>2 DEF FinalIn, Attempt, Outcomes
    <3> QED
      BY <1>2, <2>3, <3>1, <3>3, FinalStays
  <2>4. ASSUME NEW o, CompletedAs(e, o)
        PROVE  FinalIn(next, e, o) /\ next.executions[e].status = Verdict(o)
    BY <1>5, <1>6, <2>4 DEF CompletedAs
  <2> QED
    BY <2>2, <2>3, <2>4 DEF ExecutionFate
<1>9. EndsAsAttempted'
  <2>1. \A e \in Executions(next) : \A o :
          FinalIn(next, e, o) /\ next.executions[e].status = Verdict(o) =>
            \E a \in AttemptsIn(next, e) :
                /\ next.attempts[a].outcome # "retry"
                /\ next.executions[e].status = Verdict(next.attempts[a].outcome)
    BY DEF FinalIn
  <2>2. \A e \in Executions(next) :
          IsTerminal(next.executions[e].status) =>
            \E a \in AttemptsIn(next, e) :
                /\ next.attempts[a].outcome # "retry"
                /\ next.executions[e].status = Verdict(next.attempts[a].outcome)
    BY <1>8, <2>1
  <2> QED
    BY <2>2 DEF EndsAsAttempted
<1> QED
  BY <1>2, <1>4, <1>7, <1>9 DEF OutcomesInv

(* In every cluster an execution ends as one of its attempts did: the verdict a      *)
(* task, a finalization or a recovery proposes, on whatever node and from         *)
(* however old a replica, is that of an attempt in the log.                    *)
THEOREM VerdictIsOfAnAttempt == WorkerSpec => []EndsAsAttempted
<1>1. WorkerInit => OutcomesInv
  <2> SUFFICES ASSUME WorkerInit PROVE OutcomesInv
    OBVIOUS
  <2>1. Attempts(EmptyDatabase) = {} /\ Executions(EmptyDatabase) = {}
    BY DEF EmptyDatabase, Attempts, Executions
  <2>2. 0 \in Nat /\ AttemptsBounded(db)
    BY <2>1 DEF WorkerInit, Init, AttemptsBounded
  <2> QED
    BY <2>1, <2>2 DEF WorkerInit, Init, OutcomesInv, EndsAsAttempted, HasAttemptsOf
<1>2. WorkerSpec => []OutcomesInv
  BY <1>1, OutcomesStep, WorkerInvariant, PTL DEF WorkerSpec
<1>3. OutcomesInv => EndsAsAttempted
  BY DEF OutcomesInv
<1> QED
  BY <1>2, <1>3, PTL

-----------------------------------------------------------------------------
(* The summary names the last attempt. *)

(* A step records no attempt, or a new one, with an instant for its retry if it    *)
(* is to be retried.                                                         *)
RecordsNew(a, new) ==
    /\ a \in NewAttemptIDs
    /\ db'.attempts = [db.attempts EXCEPT ![a] = new]
    /\ new.outcome = "retry" => new.retryAt # Nil

LEMMA AttemptsChange ==
    ASSUME WInv, [WorkerNext]_workerVars
    PROVE  \/ db'.attempts = db.attempts
           \/ \E a, new : RecordsNew(a, new)
<1> DEFINE Same == db'.attempts = db.attempts
<1>0. db \in Database
  BY DEF WInv, IInv, TypeOK
<1>b. ASSUME UNCHANGED log PROVE Same
  BY <1>b DEF log
<1>c. ASSUME NEW cmd, db' = ApplyCompleteExecution(db, cmd) PROVE Same
  BY <1>0, <1>c DEF ApplyCompleteExecution, EndExecution, Database
<1>1. ASSUME NEW n \in Nodes, Elect(n) \/ StepDown(n) \/ Replicate(n) \/ Stop(n) PROVE Same
  BY <1>1, <1>b DEF Elect, StepDown, Replicate, Stop
<1>2. ASSUME Client PROVE Same
  <2>1. ASSUME NEW t \in Tenants, NEW at, CreateTenant(t, at) PROVE Same
    BY <1>0, <2>1 DEF CreateTenant, Commit, ApplyCreateTenant, Database
  <2>2. ASSUME NEW s \in ScheduleIDs, NEW at, CreateSchedule(s, at) PROVE Same
    BY <1>0, <2>2 DEF CreateSchedule, Commit, ApplyCreateSchedule, Database
  <2>3. ASSUME NEW s \in ScheduleIDs, NEW at, PauseSchedule(s, at) PROVE Same
    BY <1>0, <2>3 DEF PauseSchedule, Commit, ApplyPauseSchedule, Database
  <2>4. ASSUME NEW s \in ScheduleIDs, NEW at, ResumeSchedule(s, at) PROVE Same
    BY <1>0, <2>4 DEF ResumeSchedule, Commit, ApplyResumeSchedule, Database
  <2>5. ASSUME NEW s \in ScheduleIDs, NEW at, CancelSchedule(s, at) PROVE Same
    BY <1>0, <2>5 DEF CancelSchedule, Commit, ApplyCancelSchedule, Database
  <2>6. ASSUME NEW s \in ScheduleIDs, NEW at, UpdateSchedule(s, at) PROVE Same
    BY <1>0, <2>6 DEF UpdateSchedule, Commit, ApplyUpdateSchedule, Database
  <2> QED
    BY <1>2, <2>1, <2>2, <2>3, <2>4, <2>5, <2>6 DEF Client
<1>3. ASSUME NEW n \in Nodes, LoopStep(n) PROVE Same
  <2>1. CASE StartLoop(n) \/ StopLoop(n) \/ Drained(n) \/ GiveUp(n)
    BY <2>1, <1>b DEF StartLoop, StopLoop, Drained, GiveUp
  <2>2. CASE ListInFlight(n) \/ ListDue(n)
    BY <2>2, <1>b DEF ListInFlight, ListDue
  <2>3. CASE (\E elapsed \in SUBSET ExecutionIDs : ScanInFlight(n, elapsed))
               \/ SkipScan(n) \/ EndTick(n)
    BY <2>3, <1>b DEF ScanInFlight, SkipScan, EndTick
  <2>4. CASE AdoptOrComplete(n)
    <3>1. PICK x \in todo[n], at \in ProposedTimes :
            \/ UNCHANGED vars
            \/ Commit(ApplyAdoptExecution(db, AdoptionBy(n, x)), at)
            \/ \E o : Commit(ApplyCompleteExecution(db, CompletionAs(x.exec, o)), at)
      BY <2>4, AdoptOrCompleteIsEntry
    <3>2. ASSUME db' = ApplyAdoptExecution(db, AdoptionBy(n, x)) PROVE Same
      BY <1>0, <3>2 DEF ApplyAdoptExecution, Database
    <3> QED
      BY <1>c, <3>1, <3>2 DEF Commit, vars
  <2>5. CASE Claim(n)
    <3>1. ASSUME NEW f, NEW x, db' = ApplyClaimExecution(db, ClaimBy(n, x, f)) PROVE Same
      BY <1>0, <3>1 DEF ApplyClaimExecution, Database
    <3> QED
      BY <2>5, <3>1, ClaimIsEntry DEF vars, Commit
  <2> QED
    BY <1>3, <2>1, <2>2, <2>3, <2>4, <2>5 DEF LoopStep
<1>4. ASSUME NEW t \in tasks, TaskStep(t) PROVE Same \/ \E a, new : RecordsNew(a, new)
  <2>1. CASE Dispatch(t) \/ CallCanceled(t) \/ Finalize(t)
               \/ \E ok \in BOOLEAN : CallReturns(t, ok)
    <3>1. UNCHANGED log
      BY <2>1, Zenon DEF Dispatch, CallCanceled, Finalize, CallReturns
    <3> QED
      BY <1>b, <3>1
  <2>2. CASE Record(t)
    <3>1. ASSUME NEW a \in NewAttemptIDs, NEW r \in RetryTimes,
                 db' = ApplyRecordAttempt(db, AttemptOf(t, a, r))
          PROVE  \E new : RecordsNew(a, new)
      <4> DEFINE new == [executionID |-> t.exec, nodeID |-> t.node,
                         attemptNumber |-> db.executions[t.exec].attemptCount + 1,
                         outcome |-> t.outcome, retryAt |-> RetryAt(t.outcome, r)]
      <4>1. db'.attempts = [db.attempts EXCEPT ![a] = new]
        BY <1>0, <3>1 DEF ApplyRecordAttempt, AttemptOf, Database
      <4>2. new.outcome = "retry" => new.retryAt # Nil
        BY InputAssumption, NilAssumption DEF RetryAt
      <4> QED
        BY <4>1, <4>2 DEF RecordsNew
    <3> QED
      BY <2>2, <3>1, RecordIsEntry DEF Commit, vars
  <2>3. CASE Complete(t)
    BY <1>c, <2>3, CompleteIsEntry DEF Commit, vars
  <2> QED
    BY <1>4, <2>1, <2>2, <2>3 DEF TaskStep
<1>5. CASE UNCHANGED workerVars
  BY <1>5, <1>b DEF workerVars
<1> QED
  BY <1>1, <1>2, <1>3, <1>4, <1>5 DEF WorkerNext

(* Ids are used in their order. *)
IDsInOrder(tx) ==
    \A a \in Attempts(tx), b \in AttemptIDs : b < a => b \in Attempts(tx)

(* a is the last attempt of e in tx by its key, and final unless retryAt is set. *)
LastOf(tx, e, a, retryAt) ==
    /\ a \in AttemptsIn(tx, e)
    /\ \A b \in AttemptsIn(tx, e) : b <= a
    /\ retryAt = Nil => tx.attempts[a].outcome # "retry"

LastInv ==
    /\ IDsInOrder(db)
    /\ \A e \in Executions(db) :
         LET row == db.executions[e]
         IN  row.lastAttemptID # Nil => LastOf(db, e, row.lastAttemptID, row.lastRetryAt)

LEMMA LastStep ==
    ASSUME ClocksAgree, WInv, LastInv, [WorkerNext]_workerVars
    PROVE  LastInv'
<1> PICK next : next = db'
  OBVIOUS
<1>0. db \in Database /\ db.attempts \in [AttemptIDs -> Attempt \cup {Nil}]
  BY DEF WInv, IInv, TypeOK, Database
<1>1. Effect
  BY StepIsEntry, StepEffect DEF WInv
<1>2. \A e \in Executions(db) : db.executions[e] \in Execution
  BY <1>0 DEF Executions, Database
<1>3. CASE next.attempts = db.attempts
  <2>1. IDsInOrder(next)
    BY <1>3 DEF LastInv, IDsInOrder, Attempts
  <2>2. ASSUME NEW e, NEW a, NEW r, LastOf(db, e, a, r) PROVE LastOf(next, e, a, r)
    BY <1>3, <2>2 DEF LastOf, AttemptsIn, Attempts
  <2>3. ASSUME NEW e \in Executions(next), next.executions[e].lastAttemptID # Nil
        PROVE  /\ e \in Executions(db)
               /\ next.executions[e].lastAttemptID = db.executions[e].lastAttemptID
               /\ next.executions[e].lastRetryAt = db.executions[e].lastRetryAt
    <3>1. CASE LeavesExecutions
      BY <2>3, <3>1 DEF LeavesExecutions, Executions
    <3>2. ASSUME NEW f \in ExecutionIDs, NEW s, NEW t, Claims(f, s, t)
          PROVE  e \in Executions(db) /\ next.executions[e] = db.executions[e]
      BY <1>0, <2>3, <3>2 DEF Claims, Executions, Database
    <3>3. ASSUME NEW f \in ExecutionIDs, NEW n, Adopts(f, n)
          PROVE  /\ e \in Executions(db)
                 /\ next.executions[e].lastAttemptID = db.executions[e].lastAttemptID
                 /\ next.executions[e].lastRetryAt = db.executions[e].lastRetryAt
      <4>1. f \in Executions(db) /\ e \in Executions(db)
        BY <1>0, <2>3, <3>3 DEF Adopts, Executions, Database
      <4> QED
        BY <1>0, <1>2, <3>3, <4>1 DEF Adopts, Executions, Database, Execution
    <3>4. ASSUME NEW f \in ExecutionIDs, NEW status, Finishes(f, status)
          PROVE  /\ e \in Executions(db)
                 /\ next.executions[e].lastAttemptID = db.executions[e].lastAttemptID
                 /\ next.executions[e].lastRetryAt = db.executions[e].lastRetryAt
      <4>1. f \in Executions(db) /\ e \in Executions(db)
        BY <1>0, <2>3, <3>4 DEF Finishes, Executions, Database
      <4> QED
        BY <1>0, <1>2, <3>4, <4>1 DEF Finishes, Executions, Database, Execution
    <3>5. ASSUME NEW f, NEW a \in AttemptIDs, NEW n, NEW new \in Attempt, Records(f, a, n, new)
          PROVE  FALSE
      BY <1>0, <1>3, <3>5, NilAssumption DEF Records
    <3> QED
      BY <1>1, <3>1, <3>2, <3>3, <3>4, <3>5 DEF Effect
  <2> QED
    BY <2>1, <2>2, <2>3 DEF LastInv
<1>4. ASSUME NEW a, NEW new, RecordsNew(a, new), next.attempts # db.attempts
      PROVE  LastInv'
  <2>1. PICK f \in ExecutionIDs, c \in AttemptIDs, n \in Nodes, made \in Attempt :
          Records(f, c, n, made)
    BY <1>1, <1>4 DEF Effect, LeavesExecutions, Claims, Adopts, Finishes
  <2>2. c = a /\ made = new
    <3>1. a \in AttemptIDs /\ db.attempts[c] = Nil /\ next.attempts[c] = made /\ made # Nil
      BY <1>0, <1>4, <2>1, NilAssumption DEF Records, RecordsNew, NewAttemptIDs
    <3>2. next.attempts = [db.attempts EXCEPT ![a] = new]
      BY <1>4 DEF RecordsNew
    <3> QED
      BY <1>0, <3>1, <3>2
  <2>3. /\ a \in AttemptIDs /\ a \notin Attempts(db)
        /\ \A b \in AttemptIDs : b < a => b \in Attempts(db)
    BY <1>4, <2>1, <2>2 DEF RecordsNew, NewAttemptIDs, Attempts
  <2>4. Attempts(next) = Attempts(db) \cup {a}
    BY <1>0, <2>1, <2>2, <2>3, NilAssumption DEF Records, Attempts
  <2>5. \A b \in Attempts(next) : b <= a
    <3>1. Attempts(db) \subseteq AttemptIDs /\ AttemptIDs \subseteq Nat
      BY WorkerAssumption DEF Attempts
    <3>2. \A b \in Attempts(db) : ~(a < b)
      BY <2>3 DEF LastInv, IDsInOrder
    <3>3. ASSUME NEW b \in Attempts(next) PROVE b <= a
      <4>1. a \in Nat /\ b \in Nat /\ (b = a \/ ~(a < b))
        BY <2>3, <2>4, <3>1, <3>2
      <4> QED
        BY <4>1
    <3> QED
      BY <3>3
  <2>6. IDsInOrder(next)
    BY <2>3, <2>4 DEF LastInv, IDsInOrder
  <2>7. LastOf(next, f, a, new.retryAt)
    <3>1. next.attempts[a] = new /\ new.executionID = f
      BY <1>0, <2>1, <2>2 DEF Records
    <3>2. a \in AttemptsIn(next, f) /\ AttemptsIn(next, f) \subseteq Attempts(next)
      BY <2>4, <3>1 DEF AttemptsIn
    <3> QED
      BY <1>4, <2>5, <3>1, <3>2 DEF LastOf, RecordsNew
  <2>8. /\ f \in Executions(db)
        /\ next.executions[f].lastAttemptID = a
        /\ next.executions[f].lastRetryAt = new.retryAt
        /\ \A e \in ExecutionIDs \ {f} : next.executions[e] = db.executions[e]
    <3>1. f \in Executions(db)
      BY <2>1 DEF Records, Executions
    <3> QED
      BY <1>0, <1>2, <2>1, <2>2, <3>1 DEF Records, Database, Execution
  <2>9. ASSUME NEW e \in ExecutionIDs \ {f}, NEW b, NEW r, LastOf(db, e, b, r)
        PROVE  LastOf(next, e, b, r)
    <3>1. \A d \in Attempts(db) : next.attempts[d] = db.attempts[d]
      BY <1>0, <2>1, <2>2, <2>3 DEF Records, Attempts
    <3>2. next.attempts[a].executionID # e
      BY <1>0, <2>1, <2>2 DEF Records
    <3>3. AttemptsIn(next, e) = AttemptsIn(db, e)
      BY <2>4, <3>1, <3>2 DEF AttemptsIn
    <3> QED
      BY <2>9, <3>1, <3>3 DEF LastOf, AttemptsIn
  <2>10. Executions(next) \subseteq ExecutionIDs
    BY DEF Executions
  <2>11. ASSUME NEW e \in Executions(next), next.executions[e].lastAttemptID # Nil
         PROVE  LastOf(next, e, next.executions[e].lastAttemptID, next.executions[e].lastRetryAt)
    <3>1. CASE e = f
      BY <2>7, <2>8, <3>1
    <3>2. CASE e # f
      BY <2>8, <2>9, <2>10, <2>11, <3>2 DEF LastInv, Executions
    <3> QED
      BY <3>1, <3>2
  <2> QED
    BY <2>6, <2>11 DEF LastInv
<1> QED
  BY <1>3, <1>4, AttemptsChange

(* Where the ids of attempts follow the order of the log, the attempt the summary    *)
(* of an execution is of is the last of its list, on any number of nodes and       *)
(* through any elections, lost answers and adoptions: the finalize task finds a    *)
(* final outcome under the last key.                                          *)
THEOREM FinalOutcomeIsFound == ClocksAgree => (WorkerSpec => []FinalizeFindsFinal)
<1> SUFFICES ASSUME ClocksAgree PROVE WorkerSpec => []FinalizeFindsFinal
  OBVIOUS
<1>1. WorkerInit => LastInv
  BY DEF WorkerInit, Init, LastInv, IDsInOrder, EmptyDatabase, Attempts, Executions
<1>2. WInv /\ LastInv /\ [WorkerNext]_workerVars => LastInv'
  BY LastStep
<1>3. WInv /\ LastInv => FinalizeFindsFinal
  <2> SUFFICES ASSUME WInv, LastInv, NEW e \in InFlight(db), NeedsFinalize(db.executions[e])
               PROVE  LastOutcome(db, e) \in {"success", "terminal_failure"}
    BY DEF FinalizeFindsFinal
  <2> DEFINE A == AttemptsIn(db, e)
             a == db.executions[e].lastAttemptID
             last == CHOOSE m \in A : \A b \in A : b <= m
  <2>1. LastOf(db, e, a, Nil)
    BY DEF LastInv, InFlight, NeedsFinalize
  <2>2. A \subseteq AttemptIDs /\ AttemptIDs \subseteq Nat
    BY WorkerAssumption DEF AttemptsIn, Attempts
  <2>3. a \in A /\ \A b \in A : b <= a
    BY <2>1 DEF LastOf
  <2>4. last \in A /\ \A b \in A : b <= last
    <3> HIDE DEF A, a
    <3> QED
      BY <2>3
  <2>5. last = a
    <3> HIDE DEF A, a, last
    <3> QED
      BY <2>2, <2>3, <2>4
  <2>6. db.attempts[a] \in Attempt
    BY <2>3 DEF AttemptsIn, Attempts, WInv, IInv, TypeOK, Database
  <2>7. LastOutcome(db, e) = db.attempts[a].outcome
    BY <2>3, <2>5, Zenon DEF LastOutcome
  <2> QED
    BY <2>1, <2>6, <2>7 DEF LastOf, Attempt, Outcomes
<1> QED
  BY <1>1, <1>2, <1>3, WorkerInvariant, PTL DEF WorkerSpec

=============================================================================
