--------------------------- MODULE Startup_proofs ---------------------------
(***************************************************************************)
(* The locks of a node's database files, for any number of its processes,    *)
(* however they are started, crash or overlap, and whichever of them           *)
(* bootstrap.                                                               *)
(***************************************************************************)
EXTENDS Startup, TLAPS

(* Where a process is while it has the raft log open, the stable store, and, as  *)
(* long as no snapshot was restored, the state machine's database.            *)
HasLog == {"open stable", "new raft", "bootstrap", "up", "stop raft", "close log"}
HasStable == {"new raft", "bootstrap", "up", "stop raft", "close log", "close stable"}
HasDatabase == {"open log", "close stable"} \cup HasLog

(* Where its raft goroutines may run. *)
HasRaft == {"bootstrap", "up", "stop raft"}

Places == {"off", "open database", "open log", "open stable", "new raft", "bootstrap", "up",
           "stop raft", "close log", "close stable", "refused"}

LocksMatch ==
    \A p \in Processes :
        /\ pc[p] \in HasLog <=> lock["raft-log.db"] = p
        /\ pc[p] \in HasStable <=> lock["raft-stable.db"] = p
        /\ ~restored => (pc[p] \in HasDatabase <=> lock["scheduler.db"] = p)

RaftUp == \A p \in raftRuns : pc[p] \in HasRaft

(* A lock is held exactly by the process whose start has come to it and whose end *)
(* has not: that alone keeps two processes of the node apart.                  *)
IInv == TypeOK /\ LocksMatch /\ RaftUp

LEMMA Initial == Init => IInv
BY StartupAssumption DEF Init, IInv, TypeOK, LocksMatch, RaftUp, HasLog, HasStable, HasDatabase,
                         Files

(* A process that moves on and leaves the others' locks alone keeps the invariant,  *)
(* if its own locks and goroutines fit where it has come to.                   *)
LEMMA Moves ==
    ASSUME IInv, NEW p \in Processes, NEW to \in Places,
           pc' = [pc EXCEPT ![p] = to],
           lock' \in [Files -> Processes \cup {Nil}],
           \A f \in Files, q \in Processes \ {p} : lock'[f] = q <=> lock[f] = q,
           to \in HasLog <=> lock'["raft-log.db"] = p,
           to \in HasStable <=> lock'["raft-stable.db"] = p,
           ~restored => (to \in HasDatabase <=> lock'["scheduler.db"] = p),
           raftRuns' \subseteq raftRuns \cup {p}, p \in raftRuns' => to \in HasRaft,
           configured' \in BOOLEAN, restored' = restored
    PROVE  IInv'
<1>1. TypeOK'
  BY DEF IInv, TypeOK, Places
<1>2. LocksMatch'
  <2>1. \A q \in Processes \ {p} : pc'[q] = pc[q]
    BY DEF IInv, TypeOK
  <2>2. pc'[p] = to
    BY DEF IInv, TypeOK
  <2> QED
    BY <2>1, <2>2 DEF IInv, LocksMatch, Files
<1>3. RaftUp'
  BY DEF IInv, TypeOK, RaftUp
<1> QED
  BY <1>1, <1>2, <1>3 DEF IInv

(* A process that ends gives up whatever it held. *)
LEMMA Exits ==
    ASSUME IInv, NEW p \in Processes, NEW to \in {"off", "refused"}, Exit(p, to)
    PROVE  IInv'
<1>0. TypeOK /\ p # Nil
  BY StartupAssumption DEF IInv
<1>1. \A f \in Files : lock'[f] = IF lock[f] = p THEN Nil ELSE lock[f]
  BY DEF Exit
<1>2. lock' \in [Files -> Processes \cup {Nil}]
  BY <1>0 DEF Exit, TypeOK
<1>3. \A f \in Files, q \in Processes \ {p} : lock'[f] = q <=> lock[f] = q
  BY <1>1, StartupAssumption
<1>4. \A f \in Files : lock'[f] # p
  BY <1>0, <1>1
<1>5. to \in Places /\ to \notin HasLog /\ to \notin HasStable /\ to \notin HasDatabase
  BY DEF Places, HasLog, HasStable, HasDatabase
<1>6. /\ pc' = [pc EXCEPT ![p] = to] /\ raftRuns' = raftRuns \ {p}
      /\ UNCHANGED <<configured, restored>>
  BY DEF Exit
<1>7. configured' \in BOOLEAN
  BY <1>0, <1>6 DEF TypeOK
<1>8. /\ lock'["raft-log.db"] # p /\ lock'["raft-stable.db"] # p /\ lock'["scheduler.db"] # p
  BY <1>4 DEF Files
<1> QED
  BY <1>2, <1>3, <1>5, <1>6, <1>7, <1>8, Moves

LEMMA Step == IInv /\ [Next]_vars => IInv'
<1> SUFFICES ASSUME IInv, [Next]_vars PROVE IInv'
  OBVIOUS
<1> USE StartupAssumption
<1>0. TypeOK /\ LocksMatch /\ RaftUp
  BY DEF IInv
<1>1. ASSUME NEW p \in Processes, Begin(p) PROVE IInv'
  <2> DEFINE to == "open database"
  <2>1. to \in Places
    BY DEF Places
  <2>2. pc' = [pc EXCEPT ![p] = to]
    BY <1>1 DEF Begin, Goto
  <2>3. /\ lock' \in [Files -> Processes \cup {Nil}]
        /\ \A f \in Files, q \in Processes \ {p} : lock'[f] = q <=> lock[f] = q
    BY <1>0, <1>1 DEF Begin, Goto, TypeOK, Files
  <2>4. /\ to \in HasLog <=> lock'["raft-log.db"] = p
        /\ to \in HasStable <=> lock'["raft-stable.db"] = p
        /\ ~restored => (to \in HasDatabase <=> lock'["scheduler.db"] = p)
    BY <1>0, <1>1 DEF Begin, Goto, TypeOK, LocksMatch, Files, HasLog, HasStable, HasDatabase
  <2>5. /\ raftRuns' \subseteq raftRuns \cup {p}
        /\ p \in raftRuns' => to \in HasRaft
        /\ configured' \in BOOLEAN /\ restored' = restored
    BY <1>0, <1>1 DEF Begin, Goto, TypeOK, RaftUp, HasRaft
  <2> HIDE DEF to
  <2> QED
    BY <2>1, <2>2, <2>3, <2>4, <2>5, Moves
<1>2. ASSUME NEW p \in Processes, OpenDatabase(p) PROVE IInv'
  <2> DEFINE to == "open log"
  <2>1. to \in Places
    BY DEF Places
  <2>2. pc' = [pc EXCEPT ![p] = to]
    BY <1>2 DEF OpenDatabase, Open, Goto
  <2>3. /\ lock' \in [Files -> Processes \cup {Nil}]
        /\ \A f \in Files, q \in Processes \ {p} : lock'[f] = q <=> lock[f] = q
    BY <1>0, <1>2 DEF OpenDatabase, Open, Goto, TypeOK, Files
  <2>4. /\ to \in HasLog <=> lock'["raft-log.db"] = p
        /\ to \in HasStable <=> lock'["raft-stable.db"] = p
        /\ ~restored => (to \in HasDatabase <=> lock'["scheduler.db"] = p)
    BY <1>0, <1>2 DEF OpenDatabase, Open, Goto, TypeOK, LocksMatch, Files, HasLog, HasStable, HasDatabase
  <2>5. /\ raftRuns' \subseteq raftRuns \cup {p}
        /\ p \in raftRuns' => to \in HasRaft
        /\ configured' \in BOOLEAN /\ restored' = restored
    BY <1>0, <1>2 DEF OpenDatabase, Open, Goto, TypeOK, RaftUp, HasRaft
  <2> HIDE DEF to
  <2> QED
    BY <2>1, <2>2, <2>3, <2>4, <2>5, Moves
<1>3. ASSUME NEW p \in Processes, DatabaseLocked(p) PROVE IInv'
  <2> DEFINE to == "off"
  <2>1. to \in Places
    BY DEF Places
  <2>2. pc' = [pc EXCEPT ![p] = to]
    BY <1>3 DEF DatabaseLocked, Goto
  <2>3. /\ lock' \in [Files -> Processes \cup {Nil}]
        /\ \A f \in Files, q \in Processes \ {p} : lock'[f] = q <=> lock[f] = q
    BY <1>0, <1>3 DEF DatabaseLocked, Goto, TypeOK, Files
  <2>4. /\ to \in HasLog <=> lock'["raft-log.db"] = p
        /\ to \in HasStable <=> lock'["raft-stable.db"] = p
        /\ ~restored => (to \in HasDatabase <=> lock'["scheduler.db"] = p)
    BY <1>0, <1>3 DEF DatabaseLocked, Goto, TypeOK, LocksMatch, Files, HasLog, HasStable, HasDatabase
  <2>5. /\ raftRuns' \subseteq raftRuns \cup {p}
        /\ p \in raftRuns' => to \in HasRaft
        /\ configured' \in BOOLEAN /\ restored' = restored
    BY <1>0, <1>3 DEF DatabaseLocked, Goto, TypeOK, RaftUp, HasRaft
  <2> HIDE DEF to
  <2> QED
    BY <2>1, <2>2, <2>3, <2>4, <2>5, Moves
<1>4. ASSUME NEW p \in Processes, OpenLog(p) PROVE IInv'
  <2> DEFINE to == "open stable"
  <2>1. to \in Places
    BY DEF Places
  <2>2. pc' = [pc EXCEPT ![p] = to]
    BY <1>4 DEF OpenLog, Open, Goto
  <2>3. /\ lock' \in [Files -> Processes \cup {Nil}]
        /\ \A f \in Files, q \in Processes \ {p} : lock'[f] = q <=> lock[f] = q
    BY <1>0, <1>4 DEF OpenLog, Open, Goto, TypeOK, Files
  <2>4. /\ to \in HasLog <=> lock'["raft-log.db"] = p
        /\ to \in HasStable <=> lock'["raft-stable.db"] = p
        /\ ~restored => (to \in HasDatabase <=> lock'["scheduler.db"] = p)
    BY <1>0, <1>4 DEF OpenLog, Open, Goto, TypeOK, LocksMatch, Files, HasLog, HasStable, HasDatabase
  <2>5. /\ raftRuns' \subseteq raftRuns \cup {p}
        /\ p \in raftRuns' => to \in HasRaft
        /\ configured' \in BOOLEAN /\ restored' = restored
    BY <1>0, <1>4 DEF OpenLog, Open, Goto, TypeOK, RaftUp, HasRaft
  <2> HIDE DEF to
  <2> QED
    BY <2>1, <2>2, <2>3, <2>4, <2>5, Moves
<1>5. ASSUME NEW p \in Processes, OpenStable(p) PROVE IInv'
  <2> DEFINE to == "new raft"
  <2>1. to \in Places
    BY DEF Places
  <2>2. pc' = [pc EXCEPT ![p] = to]
    BY <1>5 DEF OpenStable, Open, Goto
  <2>3. /\ lock' \in [Files -> Processes \cup {Nil}]
        /\ \A f \in Files, q \in Processes \ {p} : lock'[f] = q <=> lock[f] = q
    BY <1>0, <1>5 DEF OpenStable, Open, Goto, TypeOK, Files
  <2>4. /\ to \in HasLog <=> lock'["raft-log.db"] = p
        /\ to \in HasStable <=> lock'["raft-stable.db"] = p
        /\ ~restored => (to \in HasDatabase <=> lock'["scheduler.db"] = p)
    BY <1>0, <1>5 DEF OpenStable, Open, Goto, TypeOK, LocksMatch, Files, HasLog, HasStable, HasDatabase
  <2>5. /\ raftRuns' \subseteq raftRuns \cup {p}
        /\ p \in raftRuns' => to \in HasRaft
        /\ configured' \in BOOLEAN /\ restored' = restored
    BY <1>0, <1>5 DEF OpenStable, Open, Goto, TypeOK, RaftUp, HasRaft
  <2> HIDE DEF to
  <2> QED
    BY <2>1, <2>2, <2>3, <2>4, <2>5, Moves
<1>6. ASSUME NEW p \in Processes, NewRaft(p) PROVE IInv'
  <2> DEFINE to == IF p \in Bootstrap THEN "bootstrap" ELSE "up"
  <2>1. to \in Places /\ to \in HasLog /\ to \in HasStable /\ to \in HasDatabase /\ to \in HasRaft
    BY DEF Places, HasLog, HasStable, HasDatabase, HasRaft
  <2>2. /\ pc' = [pc EXCEPT ![p] = to] /\ pc[p] = "new raft"
        /\ raftRuns' = raftRuns \cup {p} /\ UNCHANGED <<lock, configured, restored>>
    BY <1>6 DEF NewRaft, Goto
  <2>3. /\ lock["raft-log.db"] = p /\ lock["raft-stable.db"] = p
        /\ ~restored => lock["scheduler.db"] = p
    BY <1>0, <2>2 DEF LocksMatch, HasLog, HasStable, HasDatabase
  <2> HIDE DEF to
  <2> QED
    BY <1>0, <2>1, <2>2, <2>3, Moves DEF TypeOK
<1>7. ASSUME NEW p \in Processes, BootstrapCluster(p) PROVE IInv'
  <2> DEFINE to == "up"
  <2>1. to \in Places
    BY DEF Places
  <2>2. pc' = [pc EXCEPT ![p] = to]
    BY <1>7 DEF BootstrapCluster, Goto
  <2>3. /\ lock' \in [Files -> Processes \cup {Nil}]
        /\ \A f \in Files, q \in Processes \ {p} : lock'[f] = q <=> lock[f] = q
    BY <1>0, <1>7 DEF BootstrapCluster, Goto, TypeOK, Files
  <2>4. /\ to \in HasLog <=> lock'["raft-log.db"] = p
        /\ to \in HasStable <=> lock'["raft-stable.db"] = p
        /\ ~restored => (to \in HasDatabase <=> lock'["scheduler.db"] = p)
    BY <1>0, <1>7 DEF BootstrapCluster, Goto, TypeOK, LocksMatch, Files, HasLog, HasStable, HasDatabase
  <2>5. /\ raftRuns' \subseteq raftRuns \cup {p}
        /\ p \in raftRuns' => to \in HasRaft
        /\ configured' \in BOOLEAN /\ restored' = restored
    BY <1>0, <1>7 DEF BootstrapCluster, Goto, TypeOK, RaftUp, HasRaft
  <2> HIDE DEF to
  <2> QED
    BY <2>1, <2>2, <2>3, <2>4, <2>5, Moves
<1>8. ASSUME NEW p \in Processes, BootstrapRefused(p) PROVE IInv'
  BY <1>8, Exits DEF BootstrapRefused
<1>9. ASSUME NEW p \in Processes, Terminate(p) PROVE IInv'
  <2> DEFINE to == "stop raft"
  <2>1. to \in Places
    BY DEF Places
  <2>2. pc' = [pc EXCEPT ![p] = to]
    BY <1>9 DEF Terminate, Goto
  <2>3. /\ lock' \in [Files -> Processes \cup {Nil}]
        /\ \A f \in Files, q \in Processes \ {p} : lock'[f] = q <=> lock[f] = q
    BY <1>0, <1>9 DEF Terminate, Goto, TypeOK, Files
  <2>4. /\ to \in HasLog <=> lock'["raft-log.db"] = p
        /\ to \in HasStable <=> lock'["raft-stable.db"] = p
        /\ ~restored => (to \in HasDatabase <=> lock'["scheduler.db"] = p)
    BY <1>0, <1>9 DEF Terminate, Goto, TypeOK, LocksMatch, Files, HasLog, HasStable, HasDatabase
  <2>5. /\ raftRuns' \subseteq raftRuns \cup {p}
        /\ p \in raftRuns' => to \in HasRaft
        /\ configured' \in BOOLEAN /\ restored' = restored
    BY <1>0, <1>9 DEF Terminate, Goto, TypeOK, RaftUp, HasRaft
  <2> HIDE DEF to
  <2> QED
    BY <2>1, <2>2, <2>3, <2>4, <2>5, Moves
<1>10. ASSUME NEW p \in Processes, StopRaft(p) PROVE IInv'
  <2> DEFINE to == "close log"
  <2>1. to \in Places
    BY DEF Places
  <2>2. pc' = [pc EXCEPT ![p] = to]
    BY <1>10 DEF StopRaft, Goto
  <2>3. /\ lock' \in [Files -> Processes \cup {Nil}]
        /\ \A f \in Files, q \in Processes \ {p} : lock'[f] = q <=> lock[f] = q
    BY <1>0, <1>10 DEF StopRaft, Goto, TypeOK, Files
  <2>4. /\ to \in HasLog <=> lock'["raft-log.db"] = p
        /\ to \in HasStable <=> lock'["raft-stable.db"] = p
        /\ ~restored => (to \in HasDatabase <=> lock'["scheduler.db"] = p)
    BY <1>0, <1>10 DEF StopRaft, Goto, TypeOK, LocksMatch, Files, HasLog, HasStable, HasDatabase
  <2>5. /\ raftRuns' \subseteq raftRuns \cup {p}
        /\ p \in raftRuns' => to \in HasRaft
        /\ configured' \in BOOLEAN /\ restored' = restored
    BY <1>0, <1>10 DEF StopRaft, Goto, TypeOK, RaftUp, HasRaft
  <2> HIDE DEF to
  <2> QED
    BY <2>1, <2>2, <2>3, <2>4, <2>5, Moves
<1>11. ASSUME NEW p \in Processes, CloseLog(p) PROVE IInv'
  <2> DEFINE to == "close stable"
  <2>1. to \in Places
    BY DEF Places
  <2>2. pc' = [pc EXCEPT ![p] = to]
    BY <1>11 DEF CloseLog, Goto
  <2>3. /\ lock' \in [Files -> Processes \cup {Nil}]
        /\ \A f \in Files, q \in Processes \ {p} : lock'[f] = q <=> lock[f] = q
    <3>1. lock["raft-log.db"] = p
      BY <1>0, <1>11 DEF CloseLog, Goto, LocksMatch, HasLog
    <3> QED
      BY <1>0, <1>11, <3>1 DEF CloseLog, TypeOK, Files
  <2>4. /\ to \in HasLog <=> lock'["raft-log.db"] = p
        /\ to \in HasStable <=> lock'["raft-stable.db"] = p
        /\ ~restored => (to \in HasDatabase <=> lock'["scheduler.db"] = p)
    BY <1>0, <1>11 DEF CloseLog, Goto, TypeOK, LocksMatch, Files, HasLog, HasStable, HasDatabase
  <2>5. /\ raftRuns' \subseteq raftRuns \cup {p}
        /\ p \in raftRuns' => to \in HasRaft
        /\ configured' \in BOOLEAN /\ restored' = restored
    BY <1>0, <1>11 DEF CloseLog, Goto, TypeOK, RaftUp, HasRaft
  <2> HIDE DEF to
  <2> QED
    BY <2>1, <2>2, <2>3, <2>4, <2>5, Moves
<1>12. ASSUME NEW p \in Processes, CloseStable(p) \/ Crash(p) PROVE IInv'
  BY <1>12, Exits DEF CloseStable, Crash
<1>13. ASSUME NEW p \in Processes, Joined(p) PROVE IInv'
  BY <1>13 DEF Joined, IInv, TypeOK, LocksMatch, RaftUp
<1>14. ASSUME NEW p \in Processes, Restore(p) PROVE IInv'
  BY <1>14 DEF Restore, IInv, TypeOK, LocksMatch, RaftUp, Files
<1>15. CASE UNCHANGED vars
  BY <1>15 DEF vars, IInv, TypeOK, LocksMatch, RaftUp
<1> QED
  BY <1>1, <1>2, <1>3, <1>4, <1>5, <1>6, <1>7, <1>8, <1>9,
     <1>10, <1>11, <1>12, <1>13, <1>14, <1>15 DEF Next

LEMMA Invariant == Spec => []IInv
BY Initial, Step, PTL DEF Spec

(* Raft runs in one process of the node only, and with both its stores open,       *)
(* whatever processes are started, crash or are still being stopped.           *)
THEOREM StoresBehindRaft == Spec => []RaftHasItsStores
<1>1. IInv => RaftHasItsStores
  BY DEF IInv, TypeOK, LocksMatch, RaftUp, RaftHasItsStores, HasRaft, HasLog, HasStable
<1> QED
  BY <1>1, Invariant, PTL

(* As long as no snapshot was restored nobody waits for a raft store: who opens    *)
(* one has the state machine's database, and so has whoever has a store open.   *)
THEOREM StoresAreFree == Spec => []NobodyWaitsForStores
<1>1. IInv => NobodyWaitsForStores
  <2> SUFFICES ASSUME IInv, ~restored, NEW p \in Processes
               PROVE  /\ pc[p] = "open log" => lock["raft-log.db"] = Nil
                      /\ pc[p] = "open stable" => lock["raft-stable.db"] = Nil
    BY DEF NobodyWaitsForStores
  <2>1. \A q \in Processes :
          (\/ pc[q] \in HasDatabase \/ lock["raft-log.db"] = q \/ lock["raft-stable.db"] = q)
            => lock["scheduler.db"] = q
    BY DEF IInv, LocksMatch, HasDatabase, HasLog, HasStable
  <2>2. \A f \in Files : lock[f] \in Processes \cup {Nil}
    BY DEF IInv, TypeOK
  <2>3. lock["raft-log.db"] \in {p, Nil} \/ pc[p] \notin HasDatabase
    BY <2>1, <2>2 DEF Files
  <2>4. lock["raft-stable.db"] \in {p, Nil} \/ pc[p] \notin HasDatabase
    BY <2>1, <2>2 DEF Files
  <2> QED
    BY <2>3, <2>4 DEF IInv, LocksMatch, HasDatabase, HasLog, HasStable
<1> QED
  BY <1>1, Invariant, PTL
=============================================================================
