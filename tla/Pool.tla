-------------------------------- MODULE Pool --------------------------------
(***************************************************************************)
(* Worker.Run of internal/scheduler/worker.go as goroutines and channels: the *)
(* loop that recovers and ticks, the buffered task channel it sends to, and   *)
(* the pool that receives.  A tick waits for all its tasks, and Run for the    *)
(* whole pool.                                                               *)
(*                                                                           *)
(* Which entries a tick and its tasks propose is module Worker; here an       *)
(* execution is due until a task has dealt with it, and a tick has one item    *)
(* for every execution its lists return.                                     *)
(***************************************************************************)
EXTENDS Naturals, FiniteSets, Sequences

CONSTANTS
    Executions,
    Goroutines,  \* of the pool: w.poolSize of them, 8 in the code
    Capacity,    \* of w.taskCh, 256 in the code
    Nil

ASSUME PoolAssumption ==
    /\ IsFiniteSet(Executions) /\ Nil \notin Executions
    /\ Executions \cap {"receive", "off", "done"} = {}
    /\ Goroutines # {}
    /\ Capacity \in Nat \ {0}

VARIABLES
    ctxDone,  \* the context of Run is done
    due,      \* the executions a tick would find something to do for
    tickerC,  \* a tick waits in ticker.C, a channel of one slot
    loop,     \* where Run is
    todo,     \* the items the tick has still to go through
    sending,  \* the task it is sending to w.taskCh, or Nil
    taskCh,   \* the tasks in the channel
    closed,   \* w.taskCh is closed
    wg,       \* the counter of w.wg
    pool      \* pool[g]: the task goroutine g runs, "receive", "off" or "done"

vars == <<ctxDone, due, tickerC, loop, todo, sending, taskCh, closed, wg, pool>>

TypeOK ==
    /\ due \subseteq Executions /\ todo \subseteq Executions
    /\ {ctxDone, tickerC, closed} \subseteq BOOLEAN
    /\ loop \in {"recover", "select", "tick", "wait", "drain", "returned"}
    /\ sending \in Executions \cup {Nil}
    /\ taskCh \in Seq(Executions) /\ Len(taskCh) <= Capacity
    /\ wg \in Nat
    /\ pool \in [Goroutines -> Executions \cup {"receive", "off", "done"}]

Init ==
    /\ ctxDone = FALSE
    /\ due = {}
    /\ tickerC = FALSE
    /\ loop = "recover"
    /\ todo = {}
    /\ sending = Nil
    /\ taskCh = <<>>
    /\ closed = FALSE
    /\ wg = 0
    /\ pool = [g \in Goroutines |-> "off"]

-----------------------------------------------------------------------------
(* The supervisor, the clock, and the schedules (external). *)

Cancel ==
    /\ ~ctxDone
    /\ ctxDone' = TRUE
    /\ UNCHANGED <<due, tickerC, loop, todo, sending, taskCh, closed, wg, pool>>

TickerFires ==
    /\ loop \notin {"recover", "drain", "returned"}
    /\ tickerC' = TRUE
    /\ UNCHANGED <<ctxDone, due, loop, todo, sending, taskCh, closed, wg, pool>>

BecomesDue(x) ==
    /\ due' = due \cup {x}
    /\ UNCHANGED <<ctxDone, tickerC, loop, todo, sending, taskCh, closed, wg, pool>>

-----------------------------------------------------------------------------
(* The goroutine of Run. *)

(* runRecover did its work, and the pool is started. *)
Recovered ==
    /\ loop = "recover"
    /\ loop' = "select"
    /\ pool' = [g \in Goroutines |-> "receive"]
    /\ UNCHANGED <<ctxDone, due, tickerC, todo, sending, taskCh, closed, wg>>

(* runRecover failed, or saw the context done: there is no pool to stop. *)
RecoverFailed ==
    /\ loop = "recover"
    /\ loop' = "returned"
    /\ UNCHANGED <<ctxDone, due, tickerC, todo, sending, taskCh, closed, wg, pool>>

(* steadyState returns, and Run closes the channel. *)
LeaveSteadyState ==
    /\ loop' = "drain"
    /\ closed' = TRUE
    /\ todo' = {}
    /\ UNCHANGED <<ctxDone, due, sending, taskCh, wg, pool>>

(* The ctx.Done case of the select. *)
SeeDone ==
    /\ loop = "select"
    /\ ctxDone
    /\ LeaveSteadyState
    /\ UNCHANGED tickerC

BeginTick ==
    /\ loop = "select"
    /\ tickerC
    /\ tickerC' = FALSE
    /\ loop' = "tick"
    /\ todo' = due
    /\ UNCHANGED <<ctxDone, due, sending, taskCh, closed, wg, pool>>

(* ListTenants failed: the leader loop ends with the error. *)
TickFails ==
    /\ loop = "select"
    /\ tickerC
    /\ tickerC' = FALSE
    /\ LeaveSteadyState

(* The next item of the tick finds the context done; the tick does not wait. *)
TickSeesDone ==
    /\ loop = "tick"
    /\ sending = Nil
    /\ todo # {}
    /\ ctxDone
    /\ LeaveSteadyState
    /\ UNCHANGED tickerC

(* Nothing is dispatched for x: its claim was refused, or a read failed.  It is   *)
(* still due at the next tick.                                               *)
PassOver(x) ==
    /\ loop = "tick"
    /\ sending = Nil
    /\ ~ctxDone
    /\ x \in todo
    /\ todo' = todo \ {x}
    /\ UNCHANGED <<ctxDone, due, tickerC, loop, sending, taskCh, closed, wg, pool>>

(* w.wg.Add(1), with the context not done when it was looked at. *)
AddTask(x) ==
    /\ loop = "tick"
    /\ sending = Nil
    /\ ~ctxDone
    /\ x \in todo
    /\ todo' = todo \ {x}
    /\ wg' = wg + 1
    /\ sending' = x
    /\ UNCHANGED <<ctxDone, due, tickerC, loop, taskCh, closed, pool>>

(* w.taskCh <- task: it blocks while the channel is full, the context done or not. *)
SendTask ==
    /\ sending # Nil
    /\ Len(taskCh) < Capacity
    /\ taskCh' = Append(taskCh, sending)
    /\ sending' = Nil
    /\ UNCHANGED <<ctxDone, due, tickerC, loop, todo, closed, wg, pool>>

EndOfLists ==
    /\ loop = "tick"
    /\ sending = Nil
    /\ todo = {}
    /\ loop' = "wait"
    /\ UNCHANGED <<ctxDone, due, tickerC, todo, sending, taskCh, closed, wg, pool>>

(* Mutant: the tick does not wait for its tasks. *)
TickEndsAtOnce ==
    /\ loop = "wait"
    /\ loop' = "select"
    /\ UNCHANGED <<ctxDone, due, tickerC, todo, sending, taskCh, closed, wg, pool>>

(* w.wg.Wait() *)
TickEnds ==
    /\ loop = "wait"
    /\ wg = 0
    /\ loop' = "select"
    /\ UNCHANGED <<ctxDone, due, tickerC, todo, sending, taskCh, closed, wg, pool>>

(* Mutant: Run does not wait for the pool. *)
ReturnsAtOnce ==
    /\ loop = "drain"
    /\ loop' = "returned"
    /\ UNCHANGED <<ctxDone, due, tickerC, todo, sending, taskCh, closed, wg, pool>>

(* poolWg.Wait() *)
Drained ==
    /\ loop = "drain"
    /\ \A g \in Goroutines : pool[g] = "done"
    /\ loop' = "returned"
    /\ UNCHANGED <<ctxDone, due, tickerC, todo, sending, taskCh, closed, wg, pool>>

-----------------------------------------------------------------------------
(* A goroutine of the pool: runPool and runTask. *)

Receive(g) ==
    /\ pool[g] = "receive"
    /\ taskCh # <<>>
    /\ pool' = [pool EXCEPT ![g] = Head(taskCh)]
    /\ taskCh' = Tail(taskCh)
    /\ UNCHANGED <<ctxDone, due, tickerC, loop, todo, sending, closed, wg>>

(* The task has dealt with its execution. *)
Succeed(g) ==
    /\ pool[g] \in Executions
    /\ due' = due \ {pool[g]}
    /\ wg' = wg - 1
    /\ pool' = [pool EXCEPT ![g] = "receive"]
    /\ UNCHANGED <<ctxDone, tickerC, loop, todo, sending, taskCh, closed>>

(* Mutant: a task that panics is not counted off. *)
FailUncounted(g) ==
    /\ pool[g] \in Executions
    /\ pool' = [pool EXCEPT ![g] = "receive"]
    /\ UNCHANGED <<ctxDone, due, tickerC, loop, todo, sending, taskCh, closed, wg>>

(* The task returns an error, or panics: both are logged and counted off. *)
Fail(g) ==
    /\ pool[g] \in Executions
    /\ wg' = wg - 1
    /\ pool' = [pool EXCEPT ![g] = "receive"]
    /\ UNCHANGED <<ctxDone, due, tickerC, loop, todo, sending, taskCh, closed>>

(* Mutant: a goroutine leaves when it sees the context done. *)
LeavePoolWhenDone(g) ==
    /\ pool[g] = "receive"
    /\ ctxDone
    /\ pool' = [pool EXCEPT ![g] = "done"]
    /\ UNCHANGED <<ctxDone, due, tickerC, loop, todo, sending, taskCh, closed, wg>>

(* The end of `range w.taskCh`: closed, and every task received. *)
LeavePool(g) ==
    /\ pool[g] = "receive"
    /\ closed
    /\ taskCh = <<>>
    /\ pool' = [pool EXCEPT ![g] = "done"]
    /\ UNCHANGED <<ctxDone, due, tickerC, loop, todo, sending, taskCh, closed, wg>>

Loop ==
    \/ Recovered \/ RecoverFailed
    \/ SeeDone \/ BeginTick \/ TickFails
    \/ TickSeesDone
    \/ \E x \in Executions : PassOver(x) \/ AddTask(x)
    \/ SendTask
    \/ EndOfLists \/ TickEnds \/ Drained

Goroutine(g) == Receive(g) \/ Succeed(g) \/ Fail(g) \/ LeavePool(g)

Next ==
    \/ Cancel \/ TickerFires
    \/ \E x \in Executions : BecomesDue(x)
    \/ Loop
    \/ \E g \in Goroutines : Goroutine(g)

(* Goroutines are scheduled, and the clock goes on.  A task ends: its callback   *)
(* and its proposals have timeouts.  A select picks among its ready cases at    *)
(* random.  Nobody owes a cancellation, an execution or a failure.            *)
Fairness ==
    /\ WF_vars(Loop)
    /\ SF_vars(SeeDone)
    /\ WF_vars(TickerFires)
    /\ \A g \in Goroutines : WF_vars(Goroutine(g))

Spec == Init /\ [][Next]_vars /\ Fairness

-----------------------------------------------------------------------------
(* Properties. *)

(* When Run returns, the loop has no task left anywhere: none in the channel,    *)
(* none running, and w.wg at zero.  The next leader loop of the node starts     *)
(* with no callback of this one under way.                                   *)
ReturnsDrained ==
    loop = "returned" =>
        /\ taskCh = <<>> /\ sending = Nil /\ wg = 0
        /\ \A g \in Goroutines : pool[g] \notin Executions

(* Two ticks never have tasks at the same time, so that no execution's retry is *)
(* dispatched again by the next tick while it is still being made.           *)
TicksDoNotOverlap ==
    [][BeginTick => taskCh = <<>> /\ \A g \in Goroutines : pool[g] \notin Executions]_vars

(* However many executions are due, more than the channel and the pool have      *)
(* room for, and whatever tasks fail or panic, each is reached: a goroutine      *)
(* runs a task for it, unless the leader loop ends, or ticks never stop being    *)
(* refused its claim or a read of its rows.                                   *)
DueIsReached ==
    \A x \in Executions :
        <>[][~PassOver(x)]_vars =>
            ((x \in due) ~> (x \notin due \/ loop = "returned" \/ \E g \in Goroutines : pool[g] = x))

(* Run is the Runner the supervisor stops: it returns after its context is done, *)
(* though the loop does not look at it while it sends or waits.               *)
R == INSTANCE Runner WITH running <- loop # "returned", told <- ctxDone
RunsAsSupervised == R!Spec
=============================================================================
