----------------------------- MODULE Supervisor -----------------------------
(***************************************************************************)
(* Supervisor.Run of internal/scheduler/supervisor.go: it starts a leader    *)
(* loop (a worker goroutine) when raft elects this node and stops it when    *)
(* the node is deposed or shut down.  Raft, the worker goroutines and the    *)
(* caller that cancels the context all run beside it.                       *)
(*                                                                           *)
(* notifyCh is a raft LeaderCh: one slot, in which a newer notification       *)
(* replaces one that was not received yet.  The worker is reduced to whether *)
(* its Run has returned; a returned goroutine's slot is reused.              *)
(*                                                                           *)
(* The names of what every module has are the supervisor's own, so that it    *)
(* can be taken together with the leader loop (module Pool).                 *)
(***************************************************************************)
EXTENDS Naturals

CONSTANTS Workers,        \* identities of worker goroutines, reused
          WorkersFail,    \* whether Worker.Run may return by itself
          NoCancel        \* sv.cancel is nil

ASSUME WorkersAssumption == NoCancel \notin Workers /\ WorkersFail \in BOOLEAN

VARIABLES
    leader,     \* raft: this node is the leader
    notifyCh,   \* the notification waiting in the channel, "none" without
    svDone,     \* the supervisor's context is cancelled
    pc,         \* "select", "stopping", "leaving" (both in wg.Wait), "returned"
    cancel,     \* the worker whose cancel function is in sv.cancel, or none
    alive,      \* the workers whose goroutine has not called wg.Done
    cancelled   \* the workers whose context sv.cancel has cancelled

supervisorVars == <<leader, notifyCh, svDone, pc, cancel, alive, cancelled>>

SupervisorInit ==
    /\ leader = FALSE
    /\ notifyCh = "none"
    /\ svDone = FALSE
    /\ pc = "select"
    /\ cancel = NoCancel
    /\ alive = {}
    /\ cancelled = {}

-----------------------------------------------------------------------------
(* Raft, and the caller of Run. *)

LeadershipChanges ==
    /\ leader' = ~leader
    /\ notifyCh' = IF leader' THEN "elected" ELSE "deposed"
    /\ UNCHANGED <<svDone, pc, cancel, alive, cancelled>>

Shutdown ==
    /\ ~svDone
    /\ svDone' = TRUE
    /\ UNCHANGED <<leader, notifyCh, pc, cancel, alive, cancelled>>

-----------------------------------------------------------------------------
(* The supervisor's goroutine. *)

(* v is received; notifyCh is empty afterwards. *)
Notified(v) ==
    /\ pc = "select"
    /\ notifyCh = v
    /\ notifyCh' = "none"
    /\ UNCHANGED <<leader, svDone>>

(* startWorker, when no cancel function is held. *)
StartWorker ==
    /\ Notified("elected")
    /\ cancel = NoCancel
    /\ \E w \in Workers \ alive :
         /\ cancel' = w
         /\ alive' = alive \cup {w}
         /\ cancelled' = cancelled \ {w}
    /\ UNCHANGED pc

(* startWorker, refused with an error in the log. *)
RefuseStart ==
    /\ Notified("elected")
    /\ cancel # NoCancel
    /\ UNCHANGED <<pc, cancel, alive, cancelled>>

(* Mutant: the cancel function is not called. *)
StopWorkerWithoutCancel ==
    /\ Notified("deposed")
    /\ cancel # NoCancel
    /\ pc' = "stopping"
    /\ UNCHANGED <<cancel, alive, cancelled>>

(* stopWorker up to sv.wg.Wait. *)
StopWorker ==
    /\ Notified("deposed")
    /\ cancel # NoCancel
    /\ cancelled' = cancelled \cup {cancel}
    /\ pc' = "stopping"
    /\ UNCHANGED <<cancel, alive>>

(* stopWorker, refused with a warning in the log. *)
RefuseStop ==
    /\ Notified("deposed")
    /\ cancel = NoCancel
    /\ UNCHANGED <<pc, cancel, alive, cancelled>>

(* Mutant: the worker is not waited for. *)
StoppedWithoutWait ==
    /\ pc = "stopping"
    /\ cancel' = NoCancel
    /\ pc' = "select"
    /\ UNCHANGED <<leader, notifyCh, svDone, alive, cancelled>>

(* Mutant: sv.cancel is not reset. *)
StoppedKeepingCancel ==
    /\ pc = "stopping"
    /\ alive = {}
    /\ pc' = "select"
    /\ UNCHANGED <<leader, notifyCh, svDone, cancel, alive, cancelled>>

(* The rest of stopWorker: every goroutine has called wg.Done. *)
Stopped ==
    /\ pc = "stopping"
    /\ alive = {}
    /\ cancel' = NoCancel
    /\ pc' = "select"
    /\ UNCHANGED <<leader, notifyCh, svDone, alive, cancelled>>

(* Mutant: the branch is taken only when no worker is held. *)
LeaveWhenIdle ==
    /\ pc = "select"
    /\ svDone
    /\ cancel = NoCancel
    /\ pc' = "returned"
    /\ UNCHANGED <<leader, notifyCh, svDone, cancel, alive, cancelled>>

(* The ctx.Done branch of the select. *)
Leave ==
    /\ pc = "select"
    /\ svDone
    /\ IF cancel = NoCancel
       THEN pc' = "returned" /\ UNCHANGED cancelled
       ELSE pc' = "leaving" /\ cancelled' = cancelled \cup {cancel}
    /\ UNCHANGED <<leader, notifyCh, svDone, cancel, alive>>

Left ==
    /\ pc = "leaving"
    /\ alive = {}
    /\ pc' = "returned"
    /\ UNCHANGED <<leader, notifyCh, svDone, cancel, alive, cancelled>>

-----------------------------------------------------------------------------
(* A worker's goroutine. *)

WorkerReturns(w) ==
    /\ w \in alive
    /\ alive' = alive \ {w}
    /\ UNCHANGED <<leader, notifyCh, svDone, pc, cancel, cancelled>>

(* The worker's context, a child of the supervisor's, is done. *)
Told(w) == w \in cancelled \/ svDone

WorkerStops(w) == Told(w) /\ WorkerReturns(w)

(* Worker.Run returns the error of a failed recovery or tick (worker.go:516    *)
(* and 616); nothing tells the supervisor's loop.                            *)
WorkerFails(w) == WorkersFail /\ ~Told(w) /\ WorkerReturns(w)

SupervisorNext ==
    \/ LeadershipChanges
    \/ Shutdown
    \/ StartWorker \/ RefuseStart
    \/ StopWorker \/ RefuseStop \/ Stopped
    \/ Leave \/ Left
    \/ \E w \in Workers : WorkerStops(w) \/ WorkerFails(w)

(* The supervisor's goroutine is scheduled, and so are the workers', which      *)
(* end their calls (each callback has a timeout) and see the cancelled        *)
(* context.  A Go select picks among its ready cases at random, so the        *)
(* ctx.Done case is taken if it is ready again and again.  Raft, the caller    *)
(* and a worker's failure owe nobody a step.                                 *)
SupervisorFairness ==
    /\ WF_supervisorVars(StartWorker \/ RefuseStart)
    /\ WF_supervisorVars(StopWorker \/ RefuseStop)
    /\ WF_supervisorVars(Stopped)
    /\ SF_supervisorVars(Leave)
    /\ WF_supervisorVars(Left)
    /\ \A w \in Workers : WF_supervisorVars(WorkerStops(w))

SupervisorSpec == SupervisorInit /\ [][SupervisorNext]_supervisorVars /\ SupervisorFairness

-----------------------------------------------------------------------------
(* Properties. *)

(* A node never runs two leader loops, however quickly it is deposed and         *)
(* elected again while the old loop drains; the loop it runs is the one        *)
(* sv.cancel stops; and Run leaves none behind when it returns.              *)
OneLeaderLoop ==
    /\ \A w \in alive : w = cancel
    /\ pc = "returned" => alive = {}

(* A node that is deposed for good stops leading, whatever notifications were   *)
(* overwritten in the channel before: no leader loop runs on.                 *)
DeposedStops == <>[](~leader) => <>[](alive = {})

(* Cancelling the context ends Run, even with notifications still arriving and *)
(* a worker being drained.                                                   *)
ShutdownCompletes == svDone ~> (pc = "returned" /\ alive = {})

(* A node that is elected for good runs a leader loop nobody has cancelled,     *)
(* whatever notifications were overwritten.  The one exception is a loop that   *)
(* failed on its own: sv.cancel goes on standing for it, and nobody starts      *)
(* another (supervisor.go:30).                                               *)
ElectedRuns ==
    <>[](leader /\ ~svDone) =>
        \/ <>[](\E w \in alive : ~Told(w))
        \/ <>[](cancel # NoCancel /\ cancel \notin alive \cup cancelled)
=============================================================================
