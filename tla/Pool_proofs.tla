----------------------------- MODULE Pool_proofs -----------------------------
(***************************************************************************)
(* The task pool of a leader loop, for any number of goroutines, any room in   *)
(* the channel and any executions: w.wg counts the tasks that are left, and     *)
(* nobody is left when Run returns.  The supervisor never runs two loops,       *)
(* whatever raft notifies and whenever they return.                          *)
(***************************************************************************)
EXTENDS Pool, Supervisor, FiniteSetTheorems, TLAPS

(* The goroutines that run a task, and the tasks on their way to one. *)
Busy == {g \in Goroutines : pool[g] \in Executions}
OnTheWay == (IF sending = Nil THEN 0 ELSE 1) + Len(taskCh)

Types ==
    /\ due \subseteq Executions /\ todo \subseteq Executions
    /\ ctxDone \in BOOLEAN /\ tickerC \in BOOLEAN /\ closed \in BOOLEAN
    /\ loop \in {"recover", "select", "tick", "wait", "drain", "returned"}
    /\ sending \in Executions \cup {Nil}
    /\ taskCh \in Seq(Executions) /\ Len(taskCh) <= Capacity
    /\ pool \in [Goroutines -> Executions \cup {"receive", "off", "done"}]

(* w.wg counts the tasks added and not counted off: each is being sent, is in     *)
(* the channel, or is run by one goroutine.                                  *)
TasksCounted ==
    /\ IsFiniteSet(Busy)
    /\ wg = OnTheWay + Cardinality(Busy)

(* Only a tick sends, none does once the channel is closed, and a goroutine leaves *)
(* the pool when nothing more can come.                                      *)
Phases ==
    /\ sending # Nil => loop = "tick"
    /\ closed => loop \in {"drain", "returned"}
    /\ loop \in {"recover", "select", "returned"} => wg = 0
    /\ \A g \in Goroutines : pool[g] = "done" => closed /\ taskCh = <<>>

IInv == Types /\ TasksCounted /\ Phases

(* Nothing is left when the count is zero. *)
LEMMA NothingLeft ==
    ASSUME Types, TasksCounted, wg = 0
    PROVE  taskCh = <<>> /\ sending = Nil /\ Busy = {}
<1>1. Len(taskCh) \in Nat /\ Cardinality(Busy) \in Nat
  BY FS_CardinalityType DEF Types, TasksCounted
<1>2. Len(taskCh) = 0 /\ sending = Nil /\ Cardinality(Busy) = 0
  BY <1>1 DEF TasksCounted, OnTheWay
<1> QED
  BY <1>2, FS_EmptySet DEF Types, TasksCounted

LEMMA Initial == Init => IInv
<1> SUFFICES ASSUME Init PROVE IInv
  OBVIOUS
<1>1. Types
  <2>1. taskCh \in Seq(Executions) /\ Len(taskCh) <= Capacity
    BY PoolAssumption DEF Init
  <2>2. pool \in [Goroutines -> Executions \cup {"receive", "off", "done"}]
    BY DEF Init
  <2>3. /\ due \subseteq Executions /\ todo \subseteq Executions
        /\ ctxDone \in BOOLEAN /\ tickerC \in BOOLEAN /\ closed \in BOOLEAN
        /\ loop \in {"recover", "select", "tick", "wait", "drain", "returned"}
        /\ sending \in Executions \cup {Nil}
    BY DEF Init
  <2> QED
    BY <2>1, <2>2, <2>3 DEF Types
<1>2. Busy = {}
  BY PoolAssumption DEF Init, Busy
<1>3. TasksCounted
  BY <1>2, FS_EmptySet DEF Init, TasksCounted, OnTheWay
<1>4. Phases
  BY DEF Init, Phases
<1> QED
  BY <1>1, <1>3, <1>4 DEF IInv

(* A goroutine that takes a task is busy with it, *)
LEMMA BusyGains ==
    ASSUME Types, TasksCounted, NEW g \in Goroutines, pool[g] \notin Executions,
           NEW x \in Executions, pool' = [pool EXCEPT ![g] = x]
    PROVE  IsFiniteSet(Busy') /\ Cardinality(Busy') = Cardinality(Busy) + 1
<1>1. Busy' = Busy \cup {g} /\ g \notin Busy
  BY DEF Types, Busy
<1> QED
  BY <1>1, FS_AddElement DEF TasksCounted

(* and one that is through with it is not.                                    *)
LEMMA BusyLoses ==
    ASSUME Types, TasksCounted, NEW g \in Goroutines, pool[g] \in Executions,
           pool' = [pool EXCEPT ![g] = "receive"]
    PROVE  IsFiniteSet(Busy') /\ Cardinality(Busy') = Cardinality(Busy) - 1
<1>1. Busy' = Busy \ {g} /\ g \in Busy
  BY PoolAssumption DEF Types, Busy
<1> QED
  BY <1>1, FS_RemoveElement DEF TasksCounted

LEMMA Step == IInv /\ [Next]_vars => IInv'
<1> SUFFICES ASSUME IInv, [Next]_vars PROVE IInv'
  OBVIOUS
<1>0. Types /\ TasksCounted /\ Phases
  BY DEF IInv
<1>a. Len(taskCh) \in Nat /\ Cardinality(Busy) \in Nat
  BY <1>0, FS_CardinalityType DEF Types, TasksCounted
(* Steps that leave the tasks alone. *)
<1>b. ASSUME Types', Phases', UNCHANGED <<sending, taskCh, wg, pool>> PROVE IInv'
  BY <1>0, <1>b DEF IInv, TasksCounted, OnTheWay, Busy
<1>1. CASE Cancel \/ TickerFires
  <2>1. Types'
    BY <1>0, <1>1 DEF Cancel, TickerFires, Types
  <2>2. Phases'
    BY <1>0, <1>1 DEF Cancel, TickerFires, Phases
  <2> QED
    BY <1>1, <1>b, <2>1, <2>2 DEF Cancel, TickerFires
<1>2. ASSUME NEW x \in Executions, BecomesDue(x) \/ PassOver(x) PROVE IInv'
  <2>1. Types' /\ Phases'
    BY <1>0, <1>2 DEF BecomesDue, PassOver, Types, Phases
  <2> QED
    BY <1>2, <1>b, <2>1 DEF BecomesDue, PassOver
<1>3. CASE Recovered
  <2>1. Busy = {} /\ taskCh = <<>> /\ sending = Nil
    BY <1>0, <1>3, NothingLeft DEF Recovered, Phases
  <2>2. Busy' = {}
    BY <1>3, PoolAssumption DEF Recovered, Busy
  <2>3. TasksCounted'
    BY <1>0, <1>3, <2>1, <2>2 DEF Recovered, TasksCounted, OnTheWay
  <2>4. Types' /\ Phases'
    BY <1>0, <1>3, <2>1 DEF Recovered, Types, Phases
  <2> QED
    BY <2>3, <2>4 DEF IInv
<1>4. CASE RecoverFailed \/ BeginTick \/ EndOfLists
  <2>1. Types'
    BY <1>0, <1>4 DEF RecoverFailed, BeginTick, EndOfLists, Types
  <2>2. Phases'
    BY <1>0, <1>4 DEF RecoverFailed, BeginTick, EndOfLists, Phases
  <2> QED
    BY <1>4, <1>b, <2>1, <2>2 DEF RecoverFailed, BeginTick, EndOfLists
<1>5. CASE SeeDone \/ TickFails \/ TickSeesDone
  <2>1. loop \in {"select", "tick"} /\ LeaveSteadyState /\ tickerC' \in BOOLEAN /\ sending = Nil
    BY <1>0, <1>5 DEF SeeDone, TickFails, TickSeesDone, Types, Phases
  <2>2. Types' /\ Phases'
    BY <1>0, <2>1 DEF LeaveSteadyState, Types, Phases
  <2> QED
    BY <1>b, <2>1, <2>2 DEF LeaveSteadyState
<1>6. ASSUME NEW x \in Executions, AddTask(x) PROVE IInv'
  <2>1. x # Nil
    BY PoolAssumption
  <2>2. Busy' = Busy
    BY <1>6 DEF AddTask, Busy
  <2>3. TasksCounted'
    BY <1>0, <1>6, <1>a, <2>1, <2>2 DEF AddTask, TasksCounted, OnTheWay
  <2>4. Types' /\ Phases'
    BY <1>0, <1>6 DEF AddTask, Types, Phases
  <2> QED
    BY <2>3, <2>4 DEF IInv
<1>7. CASE SendTask
  <2>1. Busy' = Busy
    BY <1>7 DEF SendTask, Busy
  <2>2. Len(taskCh') = Len(taskCh) + 1 /\ taskCh' \in Seq(Executions)
    BY <1>0, <1>7 DEF SendTask, Types
  <2>3. TasksCounted'
    BY <1>0, <1>7, <1>a, <2>1, <2>2 DEF SendTask, TasksCounted, OnTheWay
  <2>4. Types'
    BY <1>0, <1>7, <1>a, <2>2, PoolAssumption DEF SendTask, Types
  <2>5. ~closed
    BY <1>0, <1>7 DEF SendTask, Phases
  <2>6. Phases'
    BY <1>0, <1>7, <2>5 DEF SendTask, Phases
  <2> QED
    BY <2>3, <2>4, <2>6 DEF IInv
<1>8. CASE TickEnds
  <2>1. Types' /\ Phases'
    BY <1>0, <1>8 DEF TickEnds, Types, Phases
  <2> QED
    BY <1>8, <1>b, <2>1 DEF TickEnds
<1>9. CASE Drained
  <2>1. taskCh = <<>> /\ sending = Nil
    BY <1>0, <1>9, PoolAssumption DEF Drained, Phases
  <2>2. Busy = {}
    BY <1>9, PoolAssumption DEF Drained, Busy
  <2>3. wg = 0
    BY <1>0, <2>1, <2>2, FS_EmptySet DEF TasksCounted, OnTheWay
  <2>4. Types' /\ Phases'
    BY <1>0, <1>9, <2>1, <2>3 DEF Drained, Types, Phases
  <2> QED
    BY <1>9, <1>b, <2>4 DEF Drained
<1>10. ASSUME NEW g \in Goroutines, Receive(g) PROVE IInv'
  <2>1. /\ Head(taskCh) \in Executions
        /\ taskCh' \in Seq(Executions) /\ Len(taskCh') = Len(taskCh) - 1
    BY <1>0, <1>10 DEF Receive, Types
  <2>2. IsFiniteSet(Busy') /\ Cardinality(Busy') = Cardinality(Busy) + 1
    BY <1>0, <1>10, <2>1, BusyGains, PoolAssumption DEF Receive
  <2>3. TasksCounted'
    BY <1>0, <1>10, <1>a, <2>1, <2>2 DEF Receive, TasksCounted, OnTheWay
  <2>4. Types'
    BY <1>0, <1>10, <1>a, <2>1, PoolAssumption DEF Receive, Types
  <2>5. Head(taskCh) # "done"
    BY <2>1, PoolAssumption
  <2>6. Phases'
    BY <1>0, <1>10, <2>5 DEF Receive, Phases, Types
  <2> QED
    BY <2>3, <2>4, <2>6 DEF IInv
<1>11. ASSUME NEW g \in Goroutines, Succeed(g) \/ Fail(g) PROVE IInv'
  <2>1. /\ pool[g] \in Executions /\ pool' = [pool EXCEPT ![g] = "receive"]
        /\ wg' = wg - 1 /\ due' \subseteq due
        /\ UNCHANGED <<ctxDone, tickerC, loop, todo, sending, taskCh, closed>>
    BY <1>11 DEF Succeed, Fail
  <2>2. IsFiniteSet(Busy') /\ Cardinality(Busy') = Cardinality(Busy) - 1
    BY <1>0, <2>1, BusyLoses
  <2>3. TasksCounted'
    BY <1>0, <1>a, <2>1, <2>2 DEF TasksCounted, OnTheWay
  <2>4. Types'
    BY <1>0, <2>1 DEF Types
  <2>5. wg # 0
    <3>1. g \in Busy
      BY <2>1 DEF Busy
    <3> QED
      BY <1>0, <3>1, NothingLeft
  <2>6. Phases'
    BY <1>0, <2>1, <2>5 DEF Phases, Types
  <2> QED
    BY <2>3, <2>4, <2>6 DEF IInv
<1>12. ASSUME NEW g \in Goroutines, LeavePool(g) PROVE IInv'
  <2>1. Busy' = Busy
    BY <1>0, <1>12, PoolAssumption DEF LeavePool, Busy, Types
  <2>2. TasksCounted'
    BY <1>0, <1>12, <2>1 DEF LeavePool, TasksCounted, OnTheWay
  <2>3. Types' /\ Phases'
    BY <1>0, <1>12 DEF LeavePool, Types, Phases
  <2> QED
    BY <2>2, <2>3 DEF IInv
<1>13. CASE UNCHANGED vars
  <2>1. Types' /\ Phases'
    BY <1>0, <1>13 DEF vars, Types, Phases
  <2> QED
    BY <1>13, <1>b, <2>1 DEF vars
<1> QED
  BY <1>1, <1>2, <1>3, <1>4, <1>5, <1>6, <1>7, <1>8, <1>9, <1>10, <1>11, <1>12, <1>13
     DEF Next, Loop, Goroutine

LEMMA Invariant == Spec => []IInv
BY Initial, Step, PTL DEF Spec

(* When Run returns, w.wg is at zero and with it everything it counts: no task is  *)
(* in the channel, in a goroutine or being sent, however the loop has ended.   *)
THEOREM NoTaskIsLeft == Spec => []ReturnsDrained
<1>1. IInv => ReturnsDrained
  BY NothingLeft DEF IInv, Phases, ReturnsDrained, Busy
<1> QED
  BY <1>1, Invariant, PTL

(* A tick begins when the tasks of all ticks before it have been counted off. *)
THEOREM OneTickAtATime == Spec => TicksDoNotOverlap
<1>1. IInv => (BeginTick => taskCh = <<>> /\ \A g \in Goroutines : pool[g] \notin Executions)
  BY NothingLeft DEF IInv, Phases, BeginTick, Busy
<1> QED
  BY <1>1, Invariant, PTL DEF TicksDoNotOverlap

-----------------------------------------------------------------------------
(* The supervisor, whose leader loops are those of module Runner; that Run is one  *)
(* is a matter of liveness, and left to TLC.                                   *)

(* The loop sv.cancel stands for is the only one there can be; once Run has     *)
(* returned there is none.                                                   *)
OneLoopInv ==
    /\ alive \subseteq Workers
    /\ pc \in {"select", "stopping", "leaving", "returned"}
    /\ OneLeaderLoop

(* A node never runs two leader loops, and Run leaves none behind: startWorker   *)
(* is refused until stopWorker has waited for the loop before.               *)
THEOREM OneLoopAtATime == SupervisorSpec => []OneLeaderLoop
<1>1. SupervisorInit => OneLoopInv
  BY DEF SupervisorInit, OneLoopInv, OneLeaderLoop
<1>2. OneLoopInv /\ [SupervisorNext]_supervisorVars => OneLoopInv'
  <2> SUFFICES ASSUME OneLoopInv, [SupervisorNext]_supervisorVars PROVE OneLoopInv'
    OBVIOUS
  <2> USE WorkersAssumption DEF OneLoopInv, OneLeaderLoop
  <2>1. CASE LeadershipChanges
    BY <2>1 DEF LeadershipChanges
  <2>2. CASE Shutdown
    BY <2>2 DEF Shutdown
  <2>3. CASE StartWorker
    <3>1. alive = {}
      BY <2>3 DEF StartWorker
    <3> QED
      BY <2>3, <3>1 DEF StartWorker, Notified
  <2>4. CASE RefuseStart
    BY <2>4 DEF RefuseStart, Notified
  <2>5. CASE StopWorker
    BY <2>5 DEF StopWorker, Notified
  <2>6. CASE RefuseStop
    BY <2>6 DEF RefuseStop, Notified
  <2>7. CASE Stopped
    BY <2>7 DEF Stopped
  <2>8. CASE Leave
    <3>1. cancel = NoCancel => alive = {}
      OBVIOUS
    <3> QED
      BY <2>8, <3>1 DEF Leave
  <2>9. CASE Left
    BY <2>9 DEF Left
  <2>10. ASSUME NEW w \in Workers, WorkerStops(w) \/ WorkerFails(w) PROVE OneLoopInv'
    BY <2>10 DEF WorkerStops, WorkerFails, WorkerReturns
  <2>11. CASE UNCHANGED supervisorVars
    BY <2>11 DEF supervisorVars
  <2> QED
    BY <2>1, <2>2, <2>3, <2>4, <2>5, <2>6, <2>7, <2>8, <2>9, <2>10, <2>11 DEF SupervisorNext
<1>3. OneLoopInv => OneLeaderLoop
  BY DEF OneLoopInv
<1> QED
  BY <1>1, <1>2, <1>3, PTL DEF SupervisorSpec
=============================================================================
