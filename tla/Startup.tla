------------------------------ MODULE Startup -------------------------------
(***************************************************************************)
(* The processes of one node, from main through node.New to node.Shutdown.    *)
(* A service manager may start the next process before the last one is gone;  *)
(* what keeps them apart is the lock bolt takes on each of the three database *)
(* files of the data directory.  storage.New waits a second for its lock; the  *)
(* raft stores are opened without a timeout.  A process that ends in any way   *)
(* lets go of every lock.                                                    *)
(*                                                                           *)
(* The callback, scheduler and API parts of a node are stubs whose New, Start   *)
(* and Shutdown do nothing.                                                  *)
(***************************************************************************)
EXTENDS Naturals, FiniteSets

CONSTANTS
    Processes,      \* of one node, with the same data directory
    Bootstrap,      \* the processes started with --bootstrap
    Nil

ASSUME StartupAssumption == Bootstrap \subseteq Processes /\ Nil \notin Processes

Files == {"scheduler.db", "raft-log.db", "raft-stable.db"}

VARIABLES
    pc,          \* pc[p]: what process p does next, or where it is
    lock,        \* lock[f]: the process that has f open, or Nil
    raftRuns,    \* the processes whose raft goroutines run
    configured,  \* the raft stores hold a configuration
    restored     \* raft has restored a snapshot, in this process or an earlier one

vars == <<pc, lock, raftRuns, configured, restored>>

TypeOK ==
    /\ pc \in [Processes -> {"off", "open database", "open log", "open stable",
                             "new raft", "bootstrap", "up", "stop raft",
                             "close log", "close stable", "refused"}]
    /\ lock \in [Files -> Processes \cup {Nil}]
    /\ raftRuns \subseteq Processes
    /\ {configured, restored} \subseteq BOOLEAN

Init ==
    /\ pc = [p \in Processes |-> "off"]
    /\ lock = [f \in Files |-> Nil]
    /\ raftRuns = {}
    /\ configured = FALSE
    /\ restored = FALSE

Goto(p, from, to) == pc[p] = from /\ pc' = [pc EXCEPT ![p] = to]

-----------------------------------------------------------------------------
(* node.New: statemachine.New, then raftnode.New. *)

Begin(p) ==
    /\ Goto(p, "off", "open database")
    /\ UNCHANGED <<lock, raftRuns, configured, restored>>

Open(p, file, from, to) ==
    /\ Goto(p, from, to)
    /\ lock[file] = Nil
    /\ lock' = [lock EXCEPT ![file] = p]
    /\ UNCHANGED <<raftRuns, configured, restored>>

OpenDatabase(p) == Open(p, "scheduler.db", "open database", "open log")

(* The lock was not free for a second; main exits. *)
DatabaseLocked(p) ==
    /\ lock["scheduler.db"] # Nil
    /\ Goto(p, "open database", "off")
    /\ UNCHANGED <<lock, raftRuns, configured, restored>>

OpenLog(p) == Open(p, "raft-log.db", "open log", "open stable")

OpenStable(p) == Open(p, "raft-stable.db", "open stable", "new raft")

(* NewRaft starts raft's goroutines before the cluster is bootstrapped. *)
NewRaft(p) ==
    /\ Goto(p, "new raft", IF p \in Bootstrap THEN "bootstrap" ELSE "up")
    /\ raftRuns' = raftRuns \cup {p}
    /\ UNCHANGED <<lock, configured, restored>>

BootstrapCluster(p) ==
    /\ ~configured
    /\ Goto(p, "bootstrap", "up")
    /\ configured' = TRUE
    /\ UNCHANGED <<lock, raftRuns, restored>>

(* Everything a process held is let go when it ends. *)
Exit(p, to) ==
    /\ pc' = [pc EXCEPT ![p] = to]
    /\ lock' = [f \in Files |-> IF lock[f] = p THEN Nil ELSE lock[f]]
    /\ raftRuns' = raftRuns \ {p}
    /\ UNCHANGED <<configured, restored>>

(* raft refuses to bootstrap over an existing configuration; main exits. *)
BootstrapRefused(p) ==
    /\ pc[p] = "bootstrap"
    /\ configured
    /\ Exit(p, "refused")

(* raft has received a configuration from a leader, for a node without one. *)
Joined(p) ==
    /\ pc[p] = "up"
    /\ p \in raftRuns
    /\ ~configured
    /\ configured' = TRUE
    /\ UNCHANGED <<pc, lock, raftRuns, restored>>

(* StateMachine.Restore closes the database Apply writes to, and with it goes    *)
(* the lock.                                                                 *)
Restore(p) ==
    /\ configured
    /\ p \in raftRuns
    /\ lock["scheduler.db"] = p
    /\ lock' = [lock EXCEPT !["scheduler.db"] = Nil]
    /\ restored' = TRUE
    /\ UNCHANGED <<pc, raftRuns, configured>>

-----------------------------------------------------------------------------
(* The end of a process. *)

(* SIGTERM: node.Shutdown, in which only raftNode.Shutdown does anything. *)
Terminate(p) ==
    /\ Goto(p, "up", "stop raft")
    /\ UNCHANGED <<lock, raftRuns, configured, restored>>

(* Mutant: the log is closed before raft has stopped. *)
StopRaftLater(p) ==
    /\ Goto(p, "stop raft", "close log")
    /\ UNCHANGED <<lock, raftRuns, configured, restored>>

StopRaft(p) ==
    /\ Goto(p, "stop raft", "close log")
    /\ raftRuns' = raftRuns \ {p}
    /\ UNCHANGED <<lock, configured, restored>>

(* Mutant: the state machine's database is closed first. *)
CloseDatabaseThenLog(p) ==
    /\ Goto(p, "close log", "close stable")
    /\ lock' = [lock EXCEPT !["scheduler.db"] = Nil]
    /\ UNCHANGED <<raftRuns, configured, restored>>

CloseLog(p) ==
    /\ Goto(p, "close log", "close stable")
    /\ lock' = [lock EXCEPT !["raft-log.db"] = Nil]
    /\ UNCHANGED <<raftRuns, configured, restored>>

(* The stable store and the transport are closed, and main returns: the state   *)
(* machine's database is closed with the process.                            *)
CloseStable(p) ==
    /\ pc[p] = "close stable"
    /\ Exit(p, "off")

(* A crash, or an error of New. *)
Crash(p) ==
    /\ pc[p] \notin {"off", "refused"}
    /\ Exit(p, "off")

Next == \E p \in Processes :
    \/ Begin(p)
    \/ OpenDatabase(p) \/ DatabaseLocked(p) \/ OpenLog(p) \/ OpenStable(p)
    \/ NewRaft(p) \/ BootstrapCluster(p) \/ BootstrapRefused(p) \/ Joined(p)
    \/ Restore(p)
    \/ Terminate(p) \/ StopRaft(p) \/ CloseLog(p) \/ CloseStable(p)
    \/ Crash(p)

Spec == Init /\ [][Next]_vars

-----------------------------------------------------------------------------
(* Properties. *)

(* Raft never runs without its two stores behind it, and so in one process of    *)
(* the node only: not while a process is being stopped, not when the next one   *)
(* is started before the last is gone, and not when a restored snapshot has     *)
(* given up the state machine's database, which is locked first.             *)
RaftHasItsStores ==
    \A p \in raftRuns : lock["raft-log.db"] = p /\ lock["raft-stable.db"] = p

(* The raft stores are opened without a timeout, but nobody is left waiting for *)
(* one: the last process gives up the state machine's database, which the next  *)
(* one opens first, after the raft stores.  Only a restored snapshot breaks the *)
(* chain, as it gives up that database while raft runs.                       *)
NobodyWaitsForStores ==
    ~restored =>
        \A p \in Processes :
            /\ pc[p] = "open log" => lock["raft-log.db"] = Nil
            /\ pc[p] = "open stable" => lock["raft-stable.db"] = Nil
=============================================================================
