------------------------- MODULE Replication_proofs -------------------------
(***************************************************************************)
(* Theorems about the replicas of the state machine, for any workloads, any  *)
(* number of nodes and any number of restarts: what the rows of one pass over  *)
(* the log satisfy, those of a database satisfy that the log is applied to    *)
(* again and again.                                                         *)
(*                                                                           *)
(* A replay breaks what the proofs about the log rest on: that a claim's or    *)
(* an attempt's id is unused when it is applied.  In its place the rows are    *)
(* traced to the log: every row stands for an entry, and only one entry has    *)
(* its id.                                                                   *)
(*                                                                           *)
(* That a restarted node ends up where the pass does rests on a second one:     *)
(* which parts of a database in the middle of a replay are already those of     *)
(* the pass, and which entry still to be replayed will write each other part.   *)
(***************************************************************************)
EXTENDS Replication, Commands_proofs

(* Entries of one workload, whose schedule is cfg. *)
CommandSets(cfg) ==
    [create_tenant   |-> [id : Tenants],
     create_schedule |-> [id : ScheduleIDs, config : {cfg}, maxAttempts : Nat],
     update_schedule |-> [id : ScheduleIDs, maxAttempts : Nat],
     pause_schedule  |-> [id : ScheduleIDs],
     cancel_schedule |-> [id : ScheduleIDs],
     resume_schedule |-> [id : ScheduleIDs],
     claim_execution |-> [id : ExecutionIDs, scheduleID : ScheduleIDs,
                          ownerNodeID : Nodes, scheduledFor : Int],
     adopt_execution |-> [executionID : ExecutionIDs, previousOwner : Nodes,
                          newOwner : Nodes],
     record_attempt  |-> [id : AttemptIDs, executionID : ExecutionIDs, nodeID : Nodes,
                          outcome : Outcomes, retryAt : Nat],
     complete_execution |-> [executionID : ExecutionIDs, finalStatus : TerminalStatuses],
     fail_execution_timeout |-> [executionID : ExecutionIDs]]

Entries(cfg) ==
    {entry \in [type : EntryTypes, proposedAt : Nat,
                cmd : UNION {CommandSets(cfg)[type] : type \in EntryTypes}] :
        entry.cmd \in CommandSets(cfg)[entry.type]}

(* Entry i of lg has the type and is about the row id. *)
Is(lg, i, type, id) == lg[i].type = type /\ lg[i].cmd.id = id

(* Entry i creates s, unless s is there: with no interval its handler panics. *)
Creates(lg, i, s) == Is(lg, i, "create_schedule", s) /\ HasInterval(lg[i].cmd.config)

(* What the log itself satisfies: row ids are ULIDs, and a worker claims an      *)
(* occurrence it has read from the row of a schedule created before.          *)
LogSound(lg, cfg) ==
    /\ lg \in Seq(Entries(cfg))
    /\ \A i, j \in DOMAIN lg :
         /\ lg[i].type \in {"claim_execution", "record_attempt"}
         /\ Is(lg, j, lg[i].type, lg[i].cmd.id)
         => i = j
    /\ \A i \in DOMAIN lg :
         lg[i].type = "claim_execution" =>
            /\ \E j \in 1..(i - 1) : Creates(lg, j, lg[i].cmd.scheduleID)
            /\ cfg.scheduleType = "once" => lg[i].cmd.scheduledFor = cfg.firstRunAt

-----------------------------------------------------------------------------
(* The invariants of one database. *)

OnePerOccurrence(tx) ==
    \A e, f \in Executions(tx) :
        /\ tx.executions[e].scheduleID = tx.executions[f].scheduleID
        /\ tx.executions[e].scheduledFor = tx.executions[f].scheduledFor
        => e = f

Owned(tx) ==
    \A e \in Executions(tx) :
        /\ tx.executions[e].ownerNodeID # Nil <=> tx.executions[e].status = "in_flight"
        /\ tx.schedules[tx.executions[e].scheduleID] # Nil

DueRow(row) ==
    /\ row.nextRunAt # Nil => row.status = "active"
    /\ row.status = "active" =>
         \/ row.nextRunAt # Nil
         \/ row.config.scheduleType # "once" /\ row.config.catchUpPolicy \notin CatchUpPolicies

EndedIn(tx, s) == \E e \in ExecutionsOf(tx, s) : IsTerminal(tx.executions[e].status)

(* The row of a schedule, in a database where it has ended or has not. *)
RowSound(row, ended, cfg) ==
    /\ row.config = cfg
    /\ DueRow(row)
    /\ cfg.scheduleType = "once" =>
         /\ row.nextRunAt \in {Nil, cfg.firstRunAt}
         /\ row.status = "completed" <=> ended

SchedulesSound(tx, lg, cfg) ==
    \A s \in ScheduleIDs :
        tx.schedules[s] # Nil =>
            /\ RowSound(tx.schedules[s], EndedIn(tx, s), cfg)
            /\ \E i \in DOMAIN lg : Creates(lg, i, s)

(* Every execution has been claimed, and every attempt reported, as its row says. *)
RowsAreLogged(tx, lg) ==
    /\ \A e \in Executions(tx) :
         \E i \in DOMAIN lg :
            /\ Is(lg, i, "claim_execution", e)
            /\ lg[i].cmd.scheduleID = tx.executions[e].scheduleID
            /\ lg[i].cmd.scheduledFor = tx.executions[e].scheduledFor
    /\ \A a \in Attempts(tx) :
         \E i \in DOMAIN lg :
            /\ Is(lg, i, "record_attempt", a)
            /\ lg[i].cmd.executionID = tx.attempts[a].executionID

Sound(tx, lg, cfg) ==
    /\ tx \in Database /\ Bounded(tx)
    /\ OnePerOccurrence(tx)
    /\ Owned(tx)
    /\ SchedulesSound(tx, lg, cfg)
    /\ RowsAreLogged(tx, lg)

(* tx has the schedules that the first n entries create. *)
HasCreated(tx, lg, n) ==
    \A j \in 1..n, s \in ScheduleIDs : Creates(lg, j, s) => tx.schedules[s] # Nil

(* The occurrence of an execution that is already there is refused. *)
LEMMA ReplayedClaimIsRefused ==
    ASSUME NEW lg, NEW cfg, LogSound(lg, cfg), NEW tx, RowsAreLogged(tx, lg),
           NEW i \in DOMAIN lg, lg[i].type = "claim_execution",
           ClaimExecutionAccepted(tx, lg[i].cmd)
    PROVE  lg[i].cmd.id \notin Executions(tx)
<1> SUFFICES ASSUME lg[i].cmd.id \in Executions(tx) PROVE FALSE
  OBVIOUS
<1>1. PICK j \in DOMAIN lg :
               /\ Is(lg, j, "claim_execution", lg[i].cmd.id)
               /\ lg[j].cmd.scheduleID = tx.executions[lg[i].cmd.id].scheduleID
               /\ lg[j].cmd.scheduledFor = tx.executions[lg[i].cmd.id].scheduledFor
  BY DEF RowsAreLogged
<1>2. j = i
  BY <1>1 DEF LogSound, Is
<1> QED
  BY <1>1, <1>2 DEF ClaimExecutionAccepted, ExecutionsOf

(* All executions of a one-time schedule stand for its one occurrence. *)
LEMMA OneExecutionOfOnce ==
    ASSUME NEW lg, NEW cfg, LogSound(lg, cfg), cfg.scheduleType = "once",
           NEW tx, RowsAreLogged(tx, lg), OnePerOccurrence(tx), NEW s
    PROVE  \A e, f \in ExecutionsOf(tx, s) : e = f
<1> SUFFICES ASSUME NEW e \in ExecutionsOf(tx, s), NEW f \in ExecutionsOf(tx, s) PROVE e = f
  OBVIOUS
<1>1. \A g \in ExecutionsOf(tx, s) : tx.executions[g].scheduledFor = cfg.firstRunAt
  BY DEF RowsAreLogged, LogSound, Is, ExecutionsOf
<1> QED
  BY <1>1 DEF OnePerOccurrence, ExecutionsOf

(* The invariants of one database, as module StateMachine states them. *)
LEMMA SoundRows ==
    ASSUME LogSound(log, workload.config), NEW r \in Replicas,
           Sound(disk[r], log, workload.config)
    PROVE  /\ On(r)!OneExecutionPerOccurrence
           /\ On(r)!OwnedWhileInFlight
           /\ On(r)!DueWhileActive
           /\ On(r)!OnceRunsOnce
<1>1. On(r)!OneExecutionPerOccurrence
  BY DEF Sound, OnePerOccurrence, Executions, On!OneExecutionPerOccurrence, On!Executions
<1>2. On(r)!OwnedWhileInFlight
  BY DEF Sound, Owned, Executions, On!OwnedWhileInFlight, On!Executions
<1>3. On(r)!DueWhileActive
  BY DEF Sound, SchedulesSound, RowSound, DueRow, On!DueWhileActive, On!Resumable,
     CatchUpPolicies, On!CatchUpPolicies
<1>4. On(r)!OnceRunsOnce
  <2> SUFFICES ASSUME NEW s \in ScheduleIDs, disk[r].schedules[s] # Nil,
                      disk[r].schedules[s].config.scheduleType = "once"
               PROVE  /\ \A e, f \in On(r)!ExecutionsOf(disk[r], s) : e = f
                      /\ disk[r].schedules[s].status = "completed" <=>
                           \E e \in On(r)!ExecutionsOf(disk[r], s) :
                              On(r)!IsTerminal(disk[r].executions[e].status)
    BY DEF On!OnceRunsOnce
  <2>1. On(r)!ExecutionsOf(disk[r], s) = ExecutionsOf(disk[r], s)
    BY DEF On!ExecutionsOf, On!Executions, ExecutionsOf, Executions
  <2>2. \A x : On(r)!IsTerminal(x) <=> IsTerminal(x)
    BY DEF On!IsTerminal, On!TerminalStatuses, IsTerminal, TerminalStatuses
  <2>3. RowSound(disk[r].schedules[s], EndedIn(disk[r], s), workload.config)
    BY DEF Sound, SchedulesSound
  <2>4. \A e, f \in ExecutionsOf(disk[r], s) : e = f
    BY <2>3, OneExecutionOfOnce DEF Sound, RowSound
  <2> QED
    BY <2>1, <2>2, <2>3, <2>4 DEF RowSound, EndedIn
<1> QED
  BY <1>1, <1>2, <1>3, <1>4
-----------------------------------------------------------------------------
(* The rows a handler writes. *)

(* Where a row comes from is where it has come from when the log is longer. *)
LEMMA LongerLog ==
    ASSUME NEW lg, NEW cfg, NEW more, NEW tx, Sound(tx, lg, cfg),
           DOMAIN lg \subseteq DOMAIN more, \A i \in DOMAIN lg : more[i] = lg[i]
    PROVE  Sound(tx, more, cfg)
<1>1. SchedulesSound(tx, more, cfg)
  BY DEF Sound, SchedulesSound, Creates, Is
<1>2. RowsAreLogged(tx, more)
  BY DEF Sound, RowsAreLogged, Is
<1> QED
  BY <1>1, <1>2 DEF Sound

(* A client's entry writes one schedule's row. *)
LEMMA ScheduleWritten ==
    ASSUME NEW lg, NEW cfg, NEW tx, Sound(tx, lg, cfg), NEW s \in ScheduleIDs,
           NEW row \in Schedule, RowSound(row, EndedIn(tx, s), cfg),
           \E i \in DOMAIN lg : Creates(lg, i, s)
    PROVE  Sound([tx EXCEPT !.schedules[s] = row], lg, cfg)
<1> DEFINE ty == [tx EXCEPT !.schedules[s] = row]
<1>0. /\ tx \in Database /\ Nil \notin Schedule
      /\ tx.schedules \in [ScheduleIDs -> Schedule \cup {Nil}]
      /\ tx.executions \in [ExecutionIDs -> Execution \cup {Nil}]
  BY NilAssumption DEF Sound, Database
<1>1. /\ ty.schedules = [tx.schedules EXCEPT ![s] = row]
      /\ ty.executions = tx.executions /\ ty.attempts = tx.attempts
  BY <1>0 DEF Database
<1>2. ty \in Database
  BY <1>0, WritesKeepTypes
<1> HIDE DEF ty
<1>3. Executions(ty) = Executions(tx) /\ Attempts(ty) = Attempts(tx)
  BY <1>1 DEF Executions, Attempts
<1>4. Bounded(ty) /\ OnePerOccurrence(ty) /\ RowsAreLogged(ty, lg)
  BY <1>1, <1>3 DEF Sound, Bounded, OnePerOccurrence, RowsAreLogged
<1>5. Owned(ty)
  BY <1>0, <1>1, <1>3 DEF Sound, Owned
<1>6. SchedulesSound(ty, lg, cfg)
  <2>1. \A z \in ScheduleIDs : EndedIn(ty, z) = EndedIn(tx, z)
    BY <1>1, <1>3, Zenon DEF EndedIn, ExecutionsOf
  <2>2. \A z \in ScheduleIDs : ty.schedules[z] = IF z = s THEN row ELSE tx.schedules[z]
    BY <1>0, <1>1
  <2> QED
    BY <2>1, <2>2 DEF Sound, SchedulesSound
<1> QED
  BY <1>2, <1>4, <1>5, <1>6 DEF Sound, ty

(* An execution is claimed for an occurrence that has none. *)
LEMMA ClaimWritten ==
    ASSUME NEW lg, NEW cfg, LogSound(lg, cfg), NEW tx, Sound(tx, lg, cfg),
           NEW i \in DOMAIN lg, lg[i].type = "claim_execution",
           HasCreated(tx, lg, i - 1), ClaimExecutionAccepted(tx, lg[i].cmd)
    PROVE  /\ Sound(ApplyClaimExecution(tx, lg[i].cmd), lg, cfg)
           /\ \A s \in ScheduleIDs :
                ApplyClaimExecution(tx, lg[i].cmd).schedules[s]
                   = tx.schedules[s]
<1> DEFINE cmd == lg[i].cmd
           row == [scheduleID |-> cmd.scheduleID, scheduledFor |-> cmd.scheduledFor,
                   ownerNodeID |-> cmd.ownerNodeID,
                   status |-> "in_flight", attemptCount |-> 0,
                   lastAttemptID |-> Nil, lastRetryAt |-> Nil]
           ty == [tx EXCEPT !.executions[cmd.id] = row]
<1>0. /\ tx \in Database /\ Nil \notin Execution
      /\ tx.executions \in [ExecutionIDs -> Execution \cup {Nil}]
  BY NilAssumption DEF Sound, Database
<1>1. /\ cmd.id \in ExecutionIDs /\ cmd.scheduleID \in ScheduleIDs
      /\ cmd.ownerNodeID \in Nodes /\ cmd.scheduledFor \in Int
      /\ lg[i].proposedAt \in Nat
  <2>1. lg[i] \in Entries(cfg)
    BY DEF LogSound
  <2>2. cmd \in CommandSets(cfg)["claim_execution"] /\ lg[i].proposedAt \in Nat
    BY <2>1 DEF Entries
  <2> QED
    BY <2>2 DEF CommandSets
<1>2. row \in Execution /\ row # Nil /\ row.ownerNodeID # Nil
  BY <1>0, <1>1, NilAssumption DEF Execution
<1>3. ApplyClaimExecution(tx, lg[i].cmd) = ty
  BY DEF ApplyClaimExecution
<1>r. /\ row.scheduleID = cmd.scheduleID /\ row.scheduledFor = cmd.scheduledFor
      /\ row.status = "in_flight"
  OBVIOUS
<1> HIDE DEF row
<1>4. /\ ty.executions = [tx.executions EXCEPT ![cmd.id] = row]
      /\ ty.schedules = tx.schedules /\ ty.attempts = tx.attempts
  BY <1>0 DEF Database
<1>5. ty \in Database
  BY <1>0, <1>1, <1>2, WritesKeepTypes
<1>6. cmd.id \notin Executions(tx)
  BY ReplayedClaimIsRefused DEF Sound
<1> HIDE DEF ty
<1>7. /\ Executions(ty) = Executions(tx) \cup {cmd.id}
      /\ \A f \in Executions(tx) : ty.executions[f] = tx.executions[f]
      /\ ty.executions[cmd.id] = row
  BY <1>0, <1>1, <1>2, <1>4, <1>6 DEF Executions
<1>8. Bounded(ty)
  <2>1. PICK b \in Int : \A f \in Executions(tx) : tx.executions[f].scheduledFor <= b
    BY DEF Sound, Bounded
  <2>2. \A f \in Executions(tx) : tx.executions[f].scheduledFor \in Int
    BY <1>0 DEF Executions, Execution
  <2>3. PICK c \in Int : b <= c /\ cmd.scheduledFor <= c
    <3>1. (IF b <= cmd.scheduledFor THEN cmd.scheduledFor ELSE b) \in Int
      BY <1>1
    <3> QED
      BY <1>1, <3>1
  <2>4. \A f \in Executions(ty) : ty.executions[f].scheduledFor <= c
    BY <1>r, <1>7, <2>1, <2>2, <2>3
  <2> QED
    BY <2>4 DEF Bounded
<1>9. OnePerOccurrence(ty)
  <2>1. \A f \in Executions(tx) : ~(/\ tx.executions[f].scheduleID = cmd.scheduleID
                                    /\ tx.executions[f].scheduledFor = cmd.scheduledFor)
    BY DEF ClaimExecutionAccepted, ExecutionsOf
  <2> QED
    BY <1>r, <1>7, <2>1 DEF Sound, OnePerOccurrence
<1>10. Owned(ty)
  <2>1. tx.schedules[cmd.scheduleID] # Nil
    <3>1. PICK j \in 1..(i - 1) : Creates(lg, j, cmd.scheduleID)
      BY DEF LogSound
    <3> QED
      BY <1>1, <3>1 DEF HasCreated
  <2> QED
    BY <1>r, <1>2, <1>4, <1>7, <2>1 DEF Sound, Owned
<1>11. SchedulesSound(ty, lg, cfg)
  <2>1. ~IsTerminal(row.status)
    BY <1>r DEF IsTerminal, TerminalStatuses
  <2>2. ASSUME NEW s \in ScheduleIDs PROVE EndedIn(ty, s) <=> EndedIn(tx, s)
    BY <1>6, <1>7, <2>1 DEF EndedIn, ExecutionsOf
  <2>3. \A s \in ScheduleIDs : EndedIn(ty, s) = EndedIn(tx, s)
    BY <2>2 DEF EndedIn
  <2> QED
    BY <1>4, <2>3 DEF Sound, SchedulesSound
<1>12. RowsAreLogged(ty, lg)
  <2>1. Is(lg, i, "claim_execution", cmd.id)
    BY DEF Is
  <2>2. Attempts(ty) = Attempts(tx)
    BY <1>4 DEF Attempts
  <2> QED
    BY <1>r, <1>4, <1>7, <2>1, <2>2 DEF Sound, RowsAreLogged
<1> QED
  BY <1>3, <1>4, <1>5, <1>8, <1>9, <1>10, <1>11, <1>12 DEF Sound
(* An execution's row is written again for the occurrence it stands for. *)
LEMMA ExecutionRewritten ==
    ASSUME NEW lg, NEW cfg, NEW tx, Sound(tx, lg, cfg), NEW e \in Executions(tx),
           NEW row \in Execution,
           row.scheduleID = tx.executions[e].scheduleID,
           row.scheduledFor = tx.executions[e].scheduledFor,
           row.ownerNodeID # Nil <=> row.status = "in_flight",
           NEW ty, ty.executions = [tx.executions EXCEPT ![e] = row],
           \A s \in ScheduleIDs : tx.schedules[s] # Nil => ty.schedules[s] # Nil,
           \A a \in Attempts(ty) :
              \E i \in DOMAIN lg :
                 /\ Is(lg, i, "record_attempt", a)
                 /\ lg[i].cmd.executionID = ty.attempts[a].executionID
    PROVE  /\ Bounded(ty)
           /\ OnePerOccurrence(ty)
           /\ Owned(ty)
           /\ RowsAreLogged(ty, lg)
<1>0. /\ Nil \notin Execution /\ e \in ExecutionIDs
      /\ tx.executions \in [ExecutionIDs -> Execution \cup {Nil}]
  BY NilAssumption DEF Sound, Database, Executions
<1>1. /\ Executions(ty) = Executions(tx)
      /\ \A f \in Executions(tx) : f # e => ty.executions[f] = tx.executions[f]
      /\ ty.executions[e] = row
      /\ \A f \in Executions(tx) : tx.executions[f] \in Execution
  BY <1>0 DEF Executions
<1>2. \A f \in Executions(tx) :
         /\ ty.executions[f].scheduleID = tx.executions[f].scheduleID
         /\ ty.executions[f].scheduledFor = tx.executions[f].scheduledFor
  BY <1>1
<1>3. Bounded(ty) /\ OnePerOccurrence(ty)
  BY <1>1, <1>2 DEF Sound, Bounded, OnePerOccurrence
<1>4. Owned(ty)
  BY <1>1, <1>2 DEF Sound, Owned, Execution
<1>5. RowsAreLogged(ty, lg)
  BY <1>1, <1>2 DEF Sound, RowsAreLogged
<1> QED
  BY <1>3, <1>4, <1>5

(* An execution in flight is adopted, or an attempt of it recorded: it stays in  *)
(* flight, and its schedule is left alone.                                   *)
LEMMA InFlightRewritten ==
    ASSUME NEW lg, NEW cfg, NEW tx, Sound(tx, lg, cfg), NEW e \in Executions(tx),
           tx.executions[e].status = "in_flight",
           NEW row \in Execution,
           row.scheduleID = tx.executions[e].scheduleID,
           row.scheduledFor = tx.executions[e].scheduledFor,
           row.status = "in_flight", row.ownerNodeID # Nil,
           NEW ty \in Database, ty.executions = [tx.executions EXCEPT ![e] = row],
           ty.schedules = tx.schedules,
           \A a \in Attempts(ty) :
              \E i \in DOMAIN lg :
                 /\ Is(lg, i, "record_attempt", a)
                 /\ lg[i].cmd.executionID = ty.attempts[a].executionID
    PROVE  Sound(ty, lg, cfg)
<1>0. /\ Nil \notin Execution /\ e \in ExecutionIDs
      /\ tx.executions \in [ExecutionIDs -> Execution \cup {Nil}]
  BY NilAssumption DEF Sound, Database, Executions
<1>1. /\ Bounded(ty) /\ OnePerOccurrence(ty) /\ Owned(ty) /\ RowsAreLogged(ty, lg)
  BY ExecutionRewritten
<1>2. SchedulesSound(ty, lg, cfg)
  <2>1. Executions(ty) = Executions(tx) /\ ty.executions[e] = row
    BY <1>0 DEF Executions
  <2>2. \A f \in Executions(tx) :
           /\ ty.executions[f].scheduleID = tx.executions[f].scheduleID
           /\ ty.executions[f].status = tx.executions[f].status
    BY <1>0, <2>1 DEF Executions
  <2>3. \A s \in ScheduleIDs : EndedIn(ty, s) = EndedIn(tx, s)
    <3>1. \A s \in ScheduleIDs : EndedIn(ty, s) <=> EndedIn(tx, s)
      BY <2>1, <2>2 DEF EndedIn, ExecutionsOf
    <3> QED
      BY <3>1 DEF EndedIn
  <2> QED
    BY <2>3 DEF Sound, SchedulesSound
<1> QED
  BY <1>1, <1>2 DEF Sound

LEMMA AdoptionWritten ==
    ASSUME NEW lg, NEW cfg, NEW tx, Sound(tx, lg, cfg),
           NEW cmd \in [executionID : ExecutionIDs, previousOwner : Nodes, newOwner : Nodes],
           AdoptExecutionAccepted(tx, cmd)
    PROVE  /\ Sound(ApplyAdoptExecution(tx, cmd), lg, cfg)
           /\ ApplyAdoptExecution(tx, cmd).schedules = tx.schedules
<1> DEFINE e == cmd.executionID
           row == [tx.executions[e] EXCEPT !.ownerNodeID = cmd.newOwner]
           ty == [tx EXCEPT !.executions[e] = row]
<1>0. /\ tx \in Database /\ e \in ExecutionIDs /\ cmd.newOwner \in Nodes
      /\ tx.executions \in [ExecutionIDs -> Execution \cup {Nil}]
  BY DEF Sound, Database
<1>1. e \in Executions(tx) /\ tx.executions[e] \in Execution /\ tx.executions[e].status = "in_flight"
  BY <1>0 DEF AdoptExecutionAccepted, Executions
<1>2. /\ row \in Execution /\ row.status = "in_flight" /\ row.ownerNodeID # Nil
      /\ row.scheduleID = tx.executions[e].scheduleID
      /\ row.scheduledFor = tx.executions[e].scheduledFor
  BY <1>0, <1>1, NilAssumption DEF Execution
<1>3. ApplyAdoptExecution(tx, cmd) = ty
  BY DEF ApplyAdoptExecution
<1> HIDE DEF row
<1>4. /\ ty.executions = [tx.executions EXCEPT ![e] = row]
      /\ ty.schedules = tx.schedules /\ ty.attempts = tx.attempts
  BY <1>0 DEF Database
<1>5. ty \in Database
  BY <1>0, <1>2, WritesKeepTypes
<1> HIDE DEF ty, e
<1>6. \A a \in Attempts(ty) :
         \E i \in DOMAIN lg :
            /\ Is(lg, i, "record_attempt", a)
            /\ lg[i].cmd.executionID = ty.attempts[a].executionID
  BY <1>4 DEF Sound, RowsAreLogged, Attempts
<1>7. Sound(ty, lg, cfg)
  BY <1>1, <1>2, <1>4, <1>5, <1>6, InFlightRewritten
<1> QED
  BY <1>3, <1>4, <1>7

LEMMA AttemptWritten ==
    ASSUME NEW lg, NEW cfg, LogSound(lg, cfg), NEW tx, Sound(tx, lg, cfg),
           NEW i \in DOMAIN lg, lg[i].type = "record_attempt",
           RecordAttemptAccepted(tx, lg[i].cmd)
    PROVE  /\ Sound(ApplyRecordAttempt(tx, lg[i].cmd), lg, cfg)
           /\ ApplyRecordAttempt(tx, lg[i].cmd).schedules = tx.schedules
<1> DEFINE cmd == lg[i].cmd
           e == cmd.executionID
           number == tx.executions[e].attemptCount + 1
           new == [executionID |-> e, nodeID |-> cmd.nodeID, attemptNumber |-> number,
                   outcome |-> cmd.outcome, retryAt |-> cmd.retryAt]
           row == [tx.executions[e] EXCEPT !.attemptCount = number, !.lastAttemptID = cmd.id,
                                           !.lastRetryAt = cmd.retryAt]
           ty == [tx EXCEPT !.attempts[cmd.id] = new, !.executions[e] = row]
<1>0. /\ tx \in Database
      /\ tx.executions \in [ExecutionIDs -> Execution \cup {Nil}]
      /\ tx.attempts \in [AttemptIDs -> Attempt \cup {Nil}]
  BY DEF Sound, Database
<1>1. /\ cmd.id \in AttemptIDs /\ e \in ExecutionIDs /\ cmd.nodeID \in Nodes
      /\ cmd.outcome \in Outcomes /\ cmd.retryAt \in Nat
  <2>1. lg[i] \in Entries(cfg)
    BY DEF LogSound
  <2>2. cmd \in CommandSets(cfg)["record_attempt"]
    BY <2>1 DEF Entries
  <2> QED
    BY <2>2 DEF CommandSets
<1>2. /\ e \in Executions(tx) /\ tx.executions[e] \in Execution
      /\ tx.executions[e].status = "in_flight" /\ tx.executions[e].ownerNodeID = cmd.nodeID
  BY <1>0, <1>1 DEF RecordAttemptAccepted, Executions
<1>3. number \in Nat
  BY <1>2 DEF Execution
<1>4. new \in Attempt /\ new.executionID = e
  BY <1>1, <1>3 DEF Attempt
<1>5. /\ row \in Execution /\ row.status = "in_flight" /\ row.ownerNodeID # Nil
      /\ row.scheduleID = tx.executions[e].scheduleID
      /\ row.scheduledFor = tx.executions[e].scheduledFor
  BY <1>1, <1>2, <1>3, NilAssumption DEF Execution
<1>6. ApplyRecordAttempt(tx, cmd) = ty
  BY DEF ApplyRecordAttempt
<1> HIDE DEF row, new
<1>7. /\ ty.executions = [tx.executions EXCEPT ![e] = row]
      /\ ty.attempts = [tx.attempts EXCEPT ![cmd.id] = new]
      /\ ty.schedules = tx.schedules
  BY <1>0 DEF Database
<1>8. ty \in Database
  BY <1>0, <1>1, <1>4, <1>5, WritesKeepTypes
<1> HIDE DEF ty
<1>9. \A a \in Attempts(ty) :
         \E j \in DOMAIN lg :
            /\ Is(lg, j, "record_attempt", a)
            /\ lg[j].cmd.executionID = ty.attempts[a].executionID
  <2> SUFFICES ASSUME NEW a \in Attempts(ty)
               PROVE  \E j \in DOMAIN lg :
                         /\ Is(lg, j, "record_attempt", a)
                         /\ lg[j].cmd.executionID = ty.attempts[a].executionID
    OBVIOUS
  <2>1. CASE a = cmd.id
    BY <1>0, <1>1, <1>4, <1>7, <2>1 DEF Is
  <2>2. CASE a # cmd.id
    <3>1. a \in Attempts(tx) /\ ty.attempts[a] = tx.attempts[a]
      BY <1>0, <1>7, <2>2 DEF Attempts
    <3> QED
      BY <3>1 DEF Sound, RowsAreLogged
  <2> QED
    BY <2>1, <2>2
<1> HIDE DEF e, cmd
<1>10. Sound(ty, lg, cfg)
  <2>1. /\ e \in Executions(tx) /\ tx.executions[e].status = "in_flight"
        /\ row \in Execution /\ row.status = "in_flight" /\ row.ownerNodeID # Nil
        /\ row.scheduleID = tx.executions[e].scheduleID
        /\ row.scheduledFor = tx.executions[e].scheduledFor
    BY <1>2, <1>5
  <2>2. /\ ty \in Database /\ ty.executions = [tx.executions EXCEPT ![e] = row]
        /\ ty.schedules = tx.schedules
    BY <1>7, <1>8
  <2> QED
    BY <1>9, <2>1, <2>2, InFlightRewritten, Zenon
<1> QED
  BY <1>6, <1>7, <1>10 DEF cmd

(* An execution that is in flight ends, and its schedule is written with it. *)
LEMMA EndWritten ==
    ASSUME NEW lg, NEW cfg, NEW tx, Sound(tx, lg, cfg), NEW e \in ExecutionIDs,
           NEW status \in TerminalStatuses, EndExecutionAccepted(tx, e)
    PROVE  /\ Sound(EndExecution(tx, e, status), lg, cfg)
           /\ \A s \in ScheduleIDs :
                tx.schedules[s] # Nil => EndExecution(tx, e, status).schedules[s] # Nil
<1> DEFINE ex == tx.executions[e]
           s == ex.scheduleID
           row == [ex EXCEPT !.status = status, !.ownerNodeID = Nil]
           sched == AfterExecution(tx.schedules[s], ex.scheduledFor)
           ty == [tx EXCEPT !.executions[e] = row, !.schedules[s] = sched]
<1>0. /\ tx \in Database /\ Nil \notin Schedule /\ Nil \notin Execution
      /\ tx.executions \in [ExecutionIDs -> Execution \cup {Nil}]
      /\ tx.schedules \in [ScheduleIDs -> Schedule \cup {Nil}]
  BY NilAssumption DEF Sound, Database
<1>1. e \in Executions(tx) /\ ex \in Execution
  BY <1>0 DEF EndExecutionAccepted, Executions
<1>2. s \in ScheduleIDs /\ tx.schedules[s] \in Schedule /\ ex.scheduledFor \in Int
  BY <1>0, <1>1 DEF Execution, EndExecutionAccepted
<1>3. /\ row \in Execution /\ row.status = status /\ row.ownerNodeID = Nil
      /\ row.scheduleID = ex.scheduleID /\ row.scheduledFor = ex.scheduledFor
  BY <1>1 DEF Execution
<1>4. sched \in Schedule /\ sched.config = tx.schedules[s].config
  BY <1>2, AfterExecutionType
<1>5. EndExecution(tx, e, status) = ty
  BY DEF EndExecution
<1>6. RowSound(tx.schedules[s], EndedIn(tx, s), cfg) /\ \E i \in DOMAIN lg : Creates(lg, i, s)
  BY <1>0, <1>2 DEF Sound, SchedulesSound
<1>7. RowSound(sched, TRUE, cfg)
  <2>1. CASE cfg.scheduleType = "once"
    BY <1>2, <1>4, <1>6, <2>1 DEF RowSound, DueRow, AfterExecution, Schedule
  <2>2. CASE cfg.scheduleType # "once"
    <3>1. computeIntervalAfter(tx.schedules[s].config.firstRunAt,
                               tx.schedules[s].config.seconds, ex.scheduledFor) \in Int
      BY <1>2, <1>6, <2>2, AfterIsInstant DEF RowSound, Schedule, ScheduleConfig, HasInterval
    <3> QED
      BY <1>2, <1>4, <1>6, <2>2, <3>1, NilAssumption
         DEF RowSound, DueRow, AfterExecution, Schedule
  <2> QED
    BY <2>1, <2>2
<1> HIDE DEF row, sched
<1>8. /\ ty.executions = [tx.executions EXCEPT ![e] = row]
      /\ ty.schedules = [tx.schedules EXCEPT ![s] = sched]
      /\ ty.attempts = tx.attempts
  BY <1>0 DEF Database
<1>9. ty \in Database
  BY <1>0, <1>2, <1>3, <1>4, WritesKeepTypes
<1> HIDE DEF ty
<1>10. \A z \in ScheduleIDs :
          /\ tx.schedules[z] # Nil => ty.schedules[z] # Nil
          /\ z # s => ty.schedules[z] = tx.schedules[z]
  BY <1>0, <1>4, <1>8
<1>11. ty.schedules[s] = sched
  BY <1>0, <1>2, <1>8
<1>12. /\ Bounded(ty) /\ OnePerOccurrence(ty) /\ Owned(ty) /\ RowsAreLogged(ty, lg)
  <2>1. \A a \in Attempts(ty) :
           \E i \in DOMAIN lg :
              /\ Is(lg, i, "record_attempt", a)
              /\ lg[i].cmd.executionID = ty.attempts[a].executionID
    BY <1>8 DEF Sound, RowsAreLogged, Attempts
  <2>2. row.ownerNodeID # Nil <=> row.status = "in_flight"
    BY <1>3 DEF TerminalStatuses
  <2> HIDE DEF ex
  <2>3. /\ row \in Execution
        /\ row.scheduleID = tx.executions[e].scheduleID
        /\ row.scheduledFor = tx.executions[e].scheduledFor
    BY <1>3 DEF ex
  <2>4. /\ e \in Executions(tx) /\ ty.executions = [tx.executions EXCEPT ![e] = row]
        /\ \A z \in ScheduleIDs : tx.schedules[z] # Nil => ty.schedules[z] # Nil
    BY <1>1, <1>8, <1>10
  <2> HIDE DEF s
  <2> QED
    BY <2>1, <2>2, <2>3, <2>4, ExecutionRewritten
<1>13. SchedulesSound(ty, lg, cfg)
  <2>1. /\ Executions(ty) = Executions(tx) /\ ty.executions[e] = row
        /\ \A f \in Executions(tx) : f # e => ty.executions[f] = tx.executions[f]
    BY <1>0, <1>1, <1>3, <1>8 DEF Executions
  <2>2. EndedIn(ty, s)
    BY <1>1, <1>3, <2>1 DEF EndedIn, ExecutionsOf, IsTerminal
  <2>3. ASSUME NEW z \in ScheduleIDs, z # s PROVE EndedIn(ty, z) <=> EndedIn(tx, z)
    <3>1. ExecutionsOf(ty, z) = ExecutionsOf(tx, z) /\ e \notin ExecutionsOf(tx, z)
      BY <1>3, <2>1, <2>3 DEF ExecutionsOf
    <3> QED
      BY <2>1, <3>1 DEF EndedIn, ExecutionsOf
  <2>4. \A z \in ScheduleIDs : z # s => EndedIn(ty, z) = EndedIn(tx, z)
    BY <2>3 DEF EndedIn
  <2>5. EndedIn(ty, s) = TRUE
    BY <2>2 DEF EndedIn
  <2> HIDE DEF s
  <2> QED
    BY <1>6, <1>7, <1>10, <1>11, <2>4, <2>5 DEF Sound, SchedulesSound
<1>14. Sound(ty, lg, cfg)
  BY <1>9, <1>12, <1>13 DEF Sound
<1> QED
  BY <1>5, <1>10, <1>14
-----------------------------------------------------------------------------
(* An entry, applied to a sound database whatever was applied to it before. *)

(* The database after an entry: the handler's, or the same. *)
AppliedIf(accepted, after, tx, ty) == ty = IF accepted THEN after ELSE tx

LEMMA DispatchCases ==
    ASSUME NEW tx, NEW entry, entry.type \in EntryTypes
    PROVE  LET cmd == entry.cmd
               ty == Dispatch(tx, entry)
           IN  /\ entry.type = "create_tenant" =>
                    AppliedIf(CreateTenantAccepted(tx, cmd.id),
                              ApplyCreateTenant(tx, cmd.id), tx, ty)
               /\ entry.type = "create_schedule" =>
                    AppliedIf(CreateScheduleAccepted(tx, cmd),
                              ApplyCreateSchedule(tx, cmd), tx, ty)
               /\ entry.type = "update_schedule" =>
                    AppliedIf(UpdateScheduleAccepted(tx, cmd),
                              ApplyUpdateSchedule(tx, cmd), tx, ty)
               /\ entry.type = "pause_schedule" =>
                    AppliedIf(PauseScheduleAccepted(tx, cmd),
                              ApplyPauseSchedule(tx, cmd), tx, ty)
               /\ entry.type = "cancel_schedule" =>
                    AppliedIf(CancelScheduleAccepted(tx, cmd),
                              ApplyCancelSchedule(tx, cmd), tx, ty)
               /\ entry.type = "resume_schedule" =>
                    AppliedIf(ResumeScheduleAccepted(tx, cmd),
                              ApplyResumeSchedule(tx, cmd, entry.proposedAt), tx, ty)
               /\ entry.type = "claim_execution" =>
                    AppliedIf(ClaimExecutionAccepted(tx, cmd),
                              ApplyClaimExecution(tx, cmd), tx, ty)
               /\ entry.type = "adopt_execution" =>
                    AppliedIf(AdoptExecutionAccepted(tx, cmd),
                              ApplyAdoptExecution(tx, cmd), tx, ty)
               /\ entry.type = "record_attempt" =>
                    AppliedIf(RecordAttemptAccepted(tx, cmd),
                              ApplyRecordAttempt(tx, cmd), tx, ty)
               /\ entry.type = "complete_execution" =>
                    AppliedIf(CompleteExecutionAccepted(tx, cmd),
                              ApplyCompleteExecution(tx, cmd), tx, ty)
               /\ entry.type = "fail_execution_timeout" =>
                    AppliedIf(FailExecutionTimeoutAccepted(tx, cmd),
                              ApplyFailExecutionTimeout(tx, cmd), tx, ty)
BY Zenon DEF Dispatch, AppliedIf
(* The entries of clients. *)
LEMMA ClientEntrySound ==
    ASSUME NEW lg, NEW cfg \in ScheduleConfig, LogSound(lg, cfg),
           NEW tx, Sound(tx, lg, cfg), NEW i \in DOMAIN lg,
           lg[i].type \in {"create_schedule", "update_schedule", "pause_schedule",
                           "cancel_schedule", "resume_schedule"}
    PROVE  LET ty == Dispatch(tx, lg[i])
           IN  \/ ty = tx /\ (Creates(lg, i, lg[i].cmd.id) =>
                                 tx.schedules[lg[i].cmd.id] # Nil)
               \/ \E row \in Schedule :
                    /\ lg[i].cmd.id \in ScheduleIDs
                    /\ ty = [tx EXCEPT !.schedules[lg[i].cmd.id] = row]
                    /\ Sound(ty, lg, cfg)
<1> DEFINE cmd == lg[i].cmd
           s == cmd.id
           old == tx.schedules[s]
           ty == Dispatch(tx, lg[i])
           Written(row) == /\ row \in Schedule
                           /\ ty = [tx EXCEPT !.schedules[s] = row]
                           /\ RowSound(row, EndedIn(tx, s), cfg)
                           /\ \E j \in DOMAIN lg : Creates(lg, j, s)
<1>0. /\ tx \in Database /\ Bounded(tx) /\ Nil \notin Schedule /\ Nil \notin Int
      /\ tx.schedules \in [ScheduleIDs -> Schedule \cup {Nil}]
  BY NilAssumption DEF Sound, Database
<1>1. cmd \in CommandSets(cfg)[lg[i].type] /\ lg[i].proposedAt \in Nat
  <2>1. lg[i] \in Entries(cfg)
    BY DEF LogSound
  <2> QED
    BY <2>1 DEF Entries
<1>2. s \in ScheduleIDs
  <2>1. CASE lg[i].type = "create_schedule"
    BY <1>1, <2>1 DEF CommandSets
  <2>2. CASE lg[i].type = "update_schedule"
    BY <1>1, <2>2 DEF CommandSets
  <2>3. CASE lg[i].type = "pause_schedule"
    BY <1>1, <2>3 DEF CommandSets
  <2>4. CASE lg[i].type = "cancel_schedule"
    BY <1>1, <2>4 DEF CommandSets
  <2>5. CASE lg[i].type = "resume_schedule"
    BY <1>1, <2>5 DEF CommandSets
  <2> QED
    BY <2>1, <2>2, <2>3, <2>4, <2>5
<1>3. cfg.firstRunAt \in Nat
  BY DEF ScheduleConfig
<1>4. old # Nil => /\ old \in Schedule /\ RowSound(old, EndedIn(tx, s), cfg)
                   /\ \E j \in DOMAIN lg : Creates(lg, j, s)
  BY <1>0, <1>2 DEF Sound, SchedulesSound
<1>5. SUFFICES \/ ty = tx /\ (Creates(lg, i, s) => old # Nil)
               \/ \E row : Written(row)
  <2>1. ASSUME NEW row, Written(row) PROVE Sound(ty, lg, cfg)
    BY <1>2, <2>1, ScheduleWritten
  <2> QED
    BY <1>2, <2>1
<1> HIDE DEF ty
<1>6. CASE lg[i].type = "create_schedule"
  <2>1. AppliedIf(CreateScheduleAccepted(tx, cmd), ApplyCreateSchedule(tx, cmd), tx, ty)
    BY <1>6, DispatchCases DEF ty, EntryTypes
  <2> DEFINE nextRun == IF cfg.scheduleType = "once" THEN cfg.firstRunAt
                        ELSE computeIntervalOnOrAfter(cfg.firstRunAt, cfg.seconds,
                                                      cfg.firstRunAt)
             row == [config |-> cfg, maxAttempts |-> cmd.maxAttempts,
                     status |-> "active", nextRunAt |-> nextRun]
  <2>2. cmd.config = cfg /\ cmd.maxAttempts \in Nat
    BY <1>1, <1>6 DEF CommandSets
  <2>3. nextRun \in Nat /\ nextRun \in Int
    BY <1>3, OnOrAfterFirst
  <2>4. HasInterval(cfg) => row \in Schedule
    BY <2>2, <2>3 DEF Schedule, ScheduleStatuses
  <2>5. old = Nil => ~EndedIn(tx, s)
    BY DEF Sound, Owned, EndedIn, ExecutionsOf
  <2>6. old = Nil => RowSound(row, EndedIn(tx, s), cfg)
    BY <1>0, <2>3, <2>5 DEF RowSound, DueRow
  <2>7. ApplyCreateSchedule(tx, cmd) = [tx EXCEPT !.schedules[s] = row]
    BY <2>2 DEF ApplyCreateSchedule
  <2>8. HasInterval(cfg) => Creates(lg, i, s)
    BY <1>6, <2>2 DEF Creates, Is
  <2> HIDE DEF row
  <2>9. CASE old = Nil /\ HasInterval(cfg)
    <3>1. Written(row)
      BY <2>1, <2>2, <2>4, <2>6, <2>7, <2>8, <2>9 DEF AppliedIf, CreateScheduleAccepted
    <3> QED
      BY <3>1
  <2>10. CASE old # Nil \/ ~HasInterval(cfg)
    BY <2>1, <2>2, <2>10 DEF AppliedIf, CreateScheduleAccepted, Creates
  <2> QED
    BY <2>9, <2>10
<1>7. CASE lg[i].type = "update_schedule"
  <2>1. AppliedIf(UpdateScheduleAccepted(tx, cmd), ApplyUpdateSchedule(tx, cmd), tx, ty)
    BY <1>7, DispatchCases DEF ty, EntryTypes
  <2> DEFINE row == [old EXCEPT !.maxAttempts = cmd.maxAttempts]
  <2>2. cmd.maxAttempts \in Nat
    BY <1>1, <1>7 DEF CommandSets
  <2>3. old # Nil => row \in Schedule /\ RowSound(row, EndedIn(tx, s), cfg)
    BY <1>4, <2>2 DEF RowSound, DueRow, Schedule
  <2>4. ApplyUpdateSchedule(tx, cmd) = [tx EXCEPT !.schedules[s] = row]
    BY DEF ApplyUpdateSchedule
  <2> HIDE DEF row
  <2>5. CASE UpdateScheduleAccepted(tx, cmd)
    <3>1. Written(row)
      BY <1>4, <2>1, <2>3, <2>4, <2>5 DEF AppliedIf, UpdateScheduleAccepted
    <3> QED
      BY <3>1
  <2> QED
    BY <1>7, <2>1, <2>5 DEF AppliedIf, Creates, Is
<1>8. CASE lg[i].type = "pause_schedule"
  <2>1. AppliedIf(PauseScheduleAccepted(tx, cmd), ApplyPauseSchedule(tx, cmd), tx, ty)
    BY <1>8, DispatchCases DEF ty, EntryTypes
  <2> DEFINE row == IF old.status = "paused" THEN old
                    ELSE [old EXCEPT !.status = "paused", !.nextRunAt = Nil]
  <2>2. PauseScheduleAccepted(tx, cmd) =>
           row \in Schedule /\ RowSound(row, EndedIn(tx, s), cfg)
    BY <1>4 DEF PauseScheduleAccepted, RowSound, DueRow, Schedule, ScheduleStatuses
  <2>3. ApplyPauseSchedule(tx, cmd) = [tx EXCEPT !.schedules[s] = row]
    BY DEF ApplyPauseSchedule
  <2> HIDE DEF row
  <2>4. CASE PauseScheduleAccepted(tx, cmd)
    <3>1. Written(row)
      BY <1>4, <2>1, <2>2, <2>3, <2>4 DEF AppliedIf, PauseScheduleAccepted
    <3> QED
      BY <3>1
  <2> QED
    BY <1>8, <2>1, <2>4 DEF AppliedIf, Creates, Is
<1>9. CASE lg[i].type = "cancel_schedule"
  <2>1. AppliedIf(CancelScheduleAccepted(tx, cmd), ApplyCancelSchedule(tx, cmd), tx, ty)
    BY <1>9, DispatchCases DEF ty, EntryTypes
  <2> DEFINE row == IF old.status \in {"canceled", "completed"} THEN old
                    ELSE [old EXCEPT !.status = "canceled", !.nextRunAt = Nil]
  <2>2. CancelScheduleAccepted(tx, cmd) =>
           row \in Schedule /\ RowSound(row, EndedIn(tx, s), cfg)
    BY <1>4 DEF CancelScheduleAccepted, RowSound, DueRow, Schedule, ScheduleStatuses
  <2>3. ApplyCancelSchedule(tx, cmd) = [tx EXCEPT !.schedules[s] = row]
    BY DEF ApplyCancelSchedule
  <2> HIDE DEF row
  <2>4. CASE CancelScheduleAccepted(tx, cmd)
    <3>1. Written(row)
      BY <1>4, <2>1, <2>2, <2>3, <2>4 DEF AppliedIf, CancelScheduleAccepted
    <3> QED
      BY <3>1
  <2> QED
    BY <1>9, <2>1, <2>4 DEF AppliedIf, Creates, Is
<1>10. CASE lg[i].type = "resume_schedule"
  <2>1. AppliedIf(ResumeScheduleAccepted(tx, cmd),
                  ApplyResumeSchedule(tx, cmd, lg[i].proposedAt), tx, ty)
    BY <1>10, DispatchCases DEF ty, EntryTypes
  <2> DEFINE next == ResumedNextRun(tx, s, lg[i].proposedAt)
             row == IF old.status = "active" THEN old
                    ELSE [old EXCEPT !.status = "active", !.nextRunAt = next]
  <2>2. ASSUME ResumeScheduleAccepted(tx, cmd)
        PROVE  row \in Schedule /\ RowSound(row, EndedIn(tx, s), cfg)
    <3>1. old # Nil /\ old.status \in {"active", "paused"}
      BY <2>2 DEF ResumeScheduleAccepted
    <3>2. IF cfg.scheduleType = "once" \/ cfg.catchUpPolicy \in CatchUpPolicies
          THEN next \in Int ELSE next = Nil
      BY <1>0, <1>1, <1>2, <1>4, <3>1, ResumedNextRunType DEF RowSound
    <3>3. cfg.scheduleType = "once" => next = cfg.firstRunAt
      BY <1>4, <3>1 DEF RowSound, ResumedNextRun
    <3> HIDE DEF next
    <3> QED
      BY <1>0, <1>4, <3>1, <3>2, <3>3 DEF RowSound, DueRow, Schedule, ScheduleStatuses
  <2>3. ApplyResumeSchedule(tx, cmd, lg[i].proposedAt) = [tx EXCEPT !.schedules[s] = row]
    BY DEF ApplyResumeSchedule
  <2> HIDE DEF row
  <2>4. CASE ResumeScheduleAccepted(tx, cmd)
    <3>1. Written(row)
      BY <1>4, <2>1, <2>2, <2>3, <2>4 DEF AppliedIf, ResumeScheduleAccepted
    <3> QED
      BY <3>1
  <2> QED
    BY <1>10, <2>1, <2>4 DEF AppliedIf, Creates, Is
<1> QED
  BY <1>6, <1>7, <1>8, <1>9, <1>10
(* Every entry: the rows stay sound, no schedule vanishes, and what a create asks *)
(* for is there.                                                             *)
LEMMA DispatchSound ==
    ASSUME NEW lg, NEW cfg \in ScheduleConfig, LogSound(lg, cfg),
           NEW tx, Sound(tx, lg, cfg), NEW i \in DOMAIN lg, HasCreated(tx, lg, i - 1)
    PROVE  LET ty == Dispatch(tx, lg[i])
           IN  /\ Sound(ty, lg, cfg)
               /\ \A s \in ScheduleIDs :
                    tx.schedules[s] # Nil \/ Creates(lg, i, s) => ty.schedules[s] # Nil
<1> DEFINE cmd == lg[i].cmd
           ty == Dispatch(tx, lg[i])
           Goal == /\ Sound(ty, lg, cfg)
                   /\ \A s \in ScheduleIDs :
                        tx.schedules[s] # Nil \/ Creates(lg, i, s) => ty.schedules[s] # Nil
<1>0. /\ tx \in Database /\ Nil \notin Schedule
      /\ tx.schedules \in [ScheduleIDs -> Schedule \cup {Nil}]
  BY NilAssumption DEF Sound, Database
<1>1. /\ lg[i].type \in EntryTypes
      /\ cmd \in CommandSets(cfg)[lg[i].type]
  <2>1. lg[i] \in Entries(cfg)
    BY DEF LogSound
  <2> QED
    BY <2>1 DEF Entries
<1> SUFFICES Goal
  OBVIOUS
<1>2. CASE lg[i].type \in {"create_schedule", "update_schedule", "pause_schedule",
                           "cancel_schedule", "resume_schedule"}
  <2>1. CASE ty = tx /\ (Creates(lg, i, cmd.id) => tx.schedules[cmd.id] # Nil)
    BY <2>1 DEF Creates, Is
  <2>2. ASSUME NEW row \in Schedule, cmd.id \in ScheduleIDs,
               ty = [tx EXCEPT !.schedules[cmd.id] = row], Sound(ty, lg, cfg)
        PROVE  Goal
    <3> HIDE DEF ty
    <3>1. ty.schedules = [tx.schedules EXCEPT ![cmd.id] = row]
      BY <1>0, <2>2 DEF Database
    <3> QED
      BY <1>0, <2>2, <3>1 DEF Creates, Is
  <2> QED
    BY <1>2, <2>1, <2>2, ClientEntrySound
<1>3. ASSUME lg[i].type # "create_schedule", Sound(ty, lg, cfg),
             \A s \in ScheduleIDs : tx.schedules[s] # Nil => ty.schedules[s] # Nil
      PROVE  Goal
  BY <1>3 DEF Creates, Is
<1>4. CASE lg[i].type = "create_tenant"
  <2>1. AppliedIf(CreateTenantAccepted(tx, cmd.id), ApplyCreateTenant(tx, cmd.id), tx, ty)
    BY <1>1, <1>4, DispatchCases
  <2>2. cmd.id \in Tenants
    BY <1>1, <1>4 DEF CommandSets
  <2> HIDE DEF ty
  <2>3. /\ ty \in Database /\ ty.schedules = tx.schedules
        /\ ty.executions = tx.executions /\ ty.attempts = tx.attempts
    BY <1>0, <2>1, <2>2 DEF AppliedIf, ApplyCreateTenant, Database
  <2>4. Executions(ty) = Executions(tx) /\ Attempts(ty) = Attempts(tx)
    BY <2>3 DEF Executions, Attempts
  <2>5. Bounded(ty) /\ OnePerOccurrence(ty) /\ Owned(ty) /\ RowsAreLogged(ty, lg)
    BY <2>3, <2>4 DEF Sound, Bounded, OnePerOccurrence, Owned, RowsAreLogged
  <2>6. \A s \in ScheduleIDs : EndedIn(ty, s) = EndedIn(tx, s)
    BY <2>3, <2>4, Zenon DEF EndedIn, ExecutionsOf
  <2>7. SchedulesSound(ty, lg, cfg)
    BY <2>3, <2>6 DEF Sound, SchedulesSound
  <2>8. Sound(ty, lg, cfg)
    BY <2>3, <2>5, <2>7 DEF Sound
  <2> QED
    BY <1>3, <1>4, <2>3, <2>8
<1>5. CASE lg[i].type = "claim_execution"
  <2>1. AppliedIf(ClaimExecutionAccepted(tx, cmd),
                  ApplyClaimExecution(tx, cmd), tx, ty)
    BY <1>1, <1>5, DispatchCases
  <2> HIDE DEF ty
  <2>2. Sound(ty, lg, cfg) /\ \A s \in ScheduleIDs : ty.schedules[s] = tx.schedules[s]
    BY <1>5, <2>1, ClaimWritten DEF AppliedIf
  <2> QED
    BY <1>3, <1>5, <2>2
<1>6. CASE lg[i].type = "adopt_execution"
  <2>1. AppliedIf(AdoptExecutionAccepted(tx, cmd), ApplyAdoptExecution(tx, cmd), tx, ty)
    BY <1>1, <1>6, DispatchCases
  <2>2. cmd \in [executionID : ExecutionIDs, previousOwner : Nodes, newOwner : Nodes]
    BY <1>1, <1>6 DEF CommandSets
  <2> HIDE DEF ty
  <2>3. Sound(ty, lg, cfg) /\ ty.schedules = tx.schedules
    BY <2>1, <2>2, AdoptionWritten DEF AppliedIf
  <2> QED
    BY <1>3, <1>6, <2>3
<1>7. CASE lg[i].type = "record_attempt"
  <2>1. AppliedIf(RecordAttemptAccepted(tx, cmd), ApplyRecordAttempt(tx, cmd), tx, ty)
    BY <1>1, <1>7, DispatchCases
  <2> HIDE DEF ty
  <2>2. Sound(ty, lg, cfg) /\ ty.schedules = tx.schedules
    BY <1>7, <2>1, AttemptWritten DEF AppliedIf
  <2> QED
    BY <1>3, <1>7, <2>2
<1>8. CASE lg[i].type = "complete_execution"
  <2>1. AppliedIf(CompleteExecutionAccepted(tx, cmd), ApplyCompleteExecution(tx, cmd), tx, ty)
    BY <1>1, <1>8, DispatchCases
  <2>2. cmd.executionID \in ExecutionIDs /\ cmd.finalStatus \in TerminalStatuses
    BY <1>1, <1>8 DEF CommandSets
  <2> HIDE DEF ty
  <2>3. Sound(ty, lg, cfg) /\ \A s \in ScheduleIDs : tx.schedules[s] # Nil => ty.schedules[s] # Nil
    BY <2>1, <2>2, EndWritten DEF AppliedIf, CompleteExecutionAccepted, ApplyCompleteExecution
  <2> QED
    BY <1>3, <1>8, <2>3
<1>9. CASE lg[i].type = "fail_execution_timeout"
  <2>1. AppliedIf(FailExecutionTimeoutAccepted(tx, cmd),
                  ApplyFailExecutionTimeout(tx, cmd), tx, ty)
    BY <1>1, <1>9, DispatchCases
  <2>2. cmd.executionID \in ExecutionIDs /\ "failed_max_retries" \in TerminalStatuses
    BY <1>1, <1>9 DEF CommandSets, TerminalStatuses
  <2> HIDE DEF ty
  <2>3. Sound(ty, lg, cfg) /\ \A s \in ScheduleIDs : tx.schedules[s] # Nil => ty.schedules[s] # Nil
    BY <2>1, <2>2, EndWritten
       DEF AppliedIf, FailExecutionTimeoutAccepted, ApplyFailExecutionTimeout
  <2> QED
    BY <1>3, <1>9, <2>3
<1> QED
  BY <1>1, <1>2, <1>4, <1>5, <1>6, <1>7, <1>8, <1>9 DEF EntryTypes
-----------------------------------------------------------------------------
(* What is proposed. *)

Config == workload.config

LEMMA WorkloadType ==
    ASSUME workload \in Workloads
    PROVE  /\ Config \in ScheduleConfig /\ Config.firstRunAt \in Nat
           /\ workload.maxAttempts \subseteq Nat
           /\ workload.maxLog \in Nat
BY ReplicationAssumption DEF Workload, Config, ScheduleConfig

LEMMA IsEntry ==
    ASSUME NEW cfg, NEW type \in EntryTypes, NEW cmd \in CommandSets(cfg)[type],
           NEW at \in ProposedTimes
    PROVE  [type |-> type, cmd |-> cmd, proposedAt |-> at] \in Entries(cfg)
<1>1. at \in Nat
  BY ReplicationAssumption
<1> HIDE DEF CommandSets
<1> QED
  BY <1>1 DEF Entries

LEMMA ClientEntries ==
    ASSUME workload \in Workloads, NEW type \in DOMAIN ClientCommands,
           NEW cmd \in ClientCommands[type]
    PROVE  /\ type \in EntryTypes /\ type \notin {"claim_execution", "record_attempt"}
           /\ cmd \in CommandSets(Config)[type]
<1>1. type \in {"create_tenant", "create_schedule", "update_schedule", "pause_schedule",
                "cancel_schedule", "resume_schedule"}
  BY DEF ClientCommands
<1>2. workload.maxAttempts \subseteq Nat
  BY WorkloadType
<1>3. CASE type = "create_schedule"
  BY <1>2, <1>3 DEF ClientCommands, CommandSets, Config, EntryTypes
<1>4. CASE type = "update_schedule"
  BY <1>2, <1>4 DEF ClientCommands, CommandSets, EntryTypes
<1>5. CASE type = "create_tenant"
  BY <1>5 DEF ClientCommands, CommandSets, EntryTypes
<1>6. CASE type = "pause_schedule"
  BY <1>6 DEF ClientCommands, CommandSets, EntryTypes
<1>7. CASE type = "cancel_schedule"
  BY <1>7 DEF ClientCommands, CommandSets, EntryTypes
<1>8. CASE type = "resume_schedule"
  BY <1>8 DEF ClientCommands, CommandSets, EntryTypes
<1> QED
  BY <1>1, <1>3, <1>4, <1>5, <1>6, <1>7, <1>8

(* A worker that has read a sound database. *)
LEMMA WorkerEntries ==
    ASSUME workload \in Workloads, NEW tx, Sound(tx, log, Config),
           NEW type \in DOMAIN WorkerCommands(tx), NEW cmd \in WorkerCommands(tx)[type]
    PROVE  /\ type \in EntryTypes /\ cmd \in CommandSets(Config)[type]
           /\ type \in {"claim_execution", "record_attempt"} => Unused(type, cmd.id)
           /\ type = "claim_execution" =>
                /\ \E j \in DOMAIN log : Creates(log, j, cmd.scheduleID)
                /\ Config.scheduleType = "once" => cmd.scheduledFor = Config.firstRunAt
<1> DEFINE inFlight == {e \in Executions(tx) : tx.executions[e].status = "in_flight"}
           owner(e) == tx.executions[e].ownerNodeID
           due == {s \in ScheduleIDs : /\ tx.schedules[s] # Nil
                                       /\ tx.schedules[s].nextRunAt # Nil}
<1>0. /\ tx.schedules \in [ScheduleIDs -> Schedule \cup {Nil}]
      /\ tx.executions \in [ExecutionIDs -> Execution \cup {Nil}]
  BY DEF Sound, Database
<1>1. \A e \in inFlight : e \in ExecutionIDs /\ owner(e) \in Nodes
  BY <1>0 DEF Sound, Owned, Executions, Execution
<1>2. \A s \in due : /\ s \in ScheduleIDs /\ tx.schedules[s].nextRunAt \in Int
                     /\ RowSound(tx.schedules[s], EndedIn(tx, s), Config)
                     /\ \E j \in DOMAIN log : Creates(log, j, s)
  BY <1>0 DEF Sound, SchedulesSound, Schedule
<1>3. type \in {"claim_execution", "adopt_execution", "record_attempt",
                "complete_execution", "fail_execution_timeout"}
  BY DEF WorkerCommands
<1> HIDE DEF inFlight, due
<1>4. CASE type = "claim_execution"
  <2>1. PICK e \in {f \in ExecutionIDs : Unused("claim_execution", f)}, s \in due, n \in Nodes :
            cmd = [id |-> e, scheduleID |-> s, ownerNodeID |-> n,
                   scheduledFor |-> tx.schedules[s].nextRunAt]
    BY <1>4 DEF WorkerCommands, due
  <2>2. tx.schedules[s].nextRunAt # Nil
    BY DEF due
  <2>3. cmd \in CommandSets(Config)["claim_execution"]
    BY <1>2, <2>1 DEF CommandSets
  <2>4. Unused("claim_execution", cmd.id)
    BY <2>1
  <2>5. Config.scheduleType = "once" => cmd.scheduledFor = Config.firstRunAt
    BY <1>2, <2>1, <2>2 DEF RowSound
  <2>6. \E j \in DOMAIN log : Creates(log, j, cmd.scheduleID)
    BY <1>2, <2>1
  <2> QED
    BY <1>4, <2>3, <2>4, <2>5, <2>6 DEF EntryTypes
<1>5. CASE type = "adopt_execution"
  <2>1. PICK e \in inFlight, n \in Nodes :
            cmd = [executionID |-> e, previousOwner |-> owner(e), newOwner |-> n]
    BY <1>5 DEF WorkerCommands, inFlight
  <2>2. cmd \in CommandSets(Config)["adopt_execution"]
    BY <1>1, <2>1 DEF CommandSets
  <2> QED
    BY <1>5, <2>2 DEF EntryTypes
<1>6. CASE type = "record_attempt"
  <2>1. PICK a \in {b \in AttemptIDs : Unused("record_attempt", b)}, e \in inFlight :
            cmd = [id |-> a, executionID |-> e, nodeID |-> owner(e), outcome |-> "retry",
                   retryAt |-> 1]
    BY <1>6 DEF WorkerCommands, inFlight
  <2>2. cmd \in CommandSets(Config)["record_attempt"]
    BY <1>1, <2>1 DEF CommandSets, Outcomes
  <2>3. Unused("record_attempt", cmd.id)
    BY <2>1
  <2> QED
    BY <1>6, <2>2, <2>3 DEF EntryTypes
<1>7. CASE type = "complete_execution"
  <2>1. PICK e \in inFlight : cmd = [executionID |-> e, finalStatus |-> "failed_terminal"]
    BY <1>7 DEF WorkerCommands, inFlight
  <2>2. cmd \in CommandSets(Config)["complete_execution"]
    BY <1>1, <2>1 DEF CommandSets, TerminalStatuses
  <2> QED
    BY <1>7, <2>2 DEF EntryTypes
<1>8. CASE type = "fail_execution_timeout"
  <2>1. PICK e \in inFlight : cmd = [executionID |-> e]
    BY <1>8 DEF WorkerCommands, inFlight
  <2>2. cmd \in CommandSets(Config)["fail_execution_timeout"]
    BY <1>1, <2>1 DEF CommandSets
  <2> QED
    BY <1>8, <2>2 DEF EntryTypes
<1> QED
  BY <1>3, <1>4, <1>5, <1>6, <1>7, <1>8

(* One more entry. *)
LEMMA LogGrows ==
    ASSUME NEW lg, NEW cfg, LogSound(lg, cfg), NEW entry \in Entries(cfg),
           entry.type \in {"claim_execution", "record_attempt"} =>
              \A j \in DOMAIN lg : ~Is(lg, j, entry.type, entry.cmd.id),
           entry.type = "claim_execution" =>
              /\ \E j \in DOMAIN lg : Creates(lg, j, entry.cmd.scheduleID)
              /\ cfg.scheduleType = "once" => entry.cmd.scheduledFor = cfg.firstRunAt
    PROVE  LogSound(Append(lg, entry), cfg)
<1> DEFINE more == Append(lg, entry)
<1>1. /\ lg \in Seq(Entries(cfg)) /\ Len(lg) \in Nat /\ DOMAIN lg = 1..Len(lg)
      /\ more \in Seq(Entries(cfg)) /\ DOMAIN more = 1..(Len(lg) + 1)
      /\ \A i \in DOMAIN lg : more[i] = lg[i]
      /\ more[Len(lg) + 1] = entry
  BY DEF LogSound
<1> HIDE DEF more
<1>2. ASSUME NEW i \in DOMAIN more, NEW j \in DOMAIN more,
             more[i].type \in {"claim_execution", "record_attempt"},
             Is(more, j, more[i].type, more[i].cmd.id)
      PROVE  i = j
  <2>1. CASE i \in DOMAIN lg /\ j \in DOMAIN lg
    BY <1>1, <1>2, <2>1 DEF LogSound, Is
  <2>2. CASE i \in DOMAIN lg /\ j = Len(lg) + 1
    BY <1>1, <1>2, <2>2 DEF Is
  <2>3. CASE i = Len(lg) + 1 /\ j \in DOMAIN lg
    BY <1>1, <1>2, <2>3 DEF Is
  <2> QED
    BY <1>1, <2>1, <2>2, <2>3
<1>3. ASSUME NEW i \in DOMAIN more, more[i].type = "claim_execution"
      PROVE  /\ \E j \in 1..(i - 1) : Creates(more, j, more[i].cmd.scheduleID)
             /\ cfg.scheduleType = "once" => more[i].cmd.scheduledFor = cfg.firstRunAt
  <2>1. CASE i \in DOMAIN lg
    <3>1. PICK j \in 1..(i - 1) : Creates(lg, j, lg[i].cmd.scheduleID)
      BY <1>1, <1>3, <2>1 DEF LogSound
    <3>2. j \in DOMAIN lg
      BY <1>1, <2>1
    <3> QED
      BY <1>1, <1>3, <2>1, <3>1, <3>2 DEF LogSound, Creates, Is
  <2>2. CASE i = Len(lg) + 1
    BY <1>1, <1>3, <2>2 DEF Creates, Is
  <2> QED
    BY <1>1, <2>1, <2>2
<1> QED
  BY <1>1, <1>2, <1>3 DEF LogSound, more

-----------------------------------------------------------------------------
(* The invariant. *)

(* The databases of the nodes and of one pass over the log are sound.  An entry  *)
(* is applied to a database to which all entries before it have been, sometime. *)
DatabasesSound ==
    /\ reference \in Seq(Database) /\ Len(reference) = Len(log) + 1
    /\ \A k \in DOMAIN reference : Sound(reference[k], log, Config)
    /\ HasCreated(reference[Len(reference)], log, Len(log))
    /\ disk \in [Replicas -> Database]
    /\ \A r \in Replicas : /\ Sound(disk[r], log, Config)
                           /\ HasCreated(disk[r], log, node[r].reached)

Positions ==
    /\ Len(log) <= workload.maxLog
    /\ node \in [Replicas -> NodeState]
    /\ \A r \in Replicas : /\ node[r].open => Applied(r) <= node[r].reached
                           /\ node[r].reached <= Len(log)

IInv ==
    /\ workload \in Workloads
    /\ LogSound(log, Config)
    /\ DatabasesSound
    /\ Positions

LEMMA EmptySound ==
    ASSUME NEW cfg
    PROVE  LogSound(<<>>, cfg) /\ Sound(EmptyDatabase, <<>>, cfg)
<1>1. EmptyDatabase \in Database
  BY DEF EmptyDatabase, Database
<1>2. Executions(EmptyDatabase) = {} /\ Attempts(EmptyDatabase) = {}
  BY DEF EmptyDatabase, Executions, Attempts
<1>3. Bounded(EmptyDatabase) /\ OnePerOccurrence(EmptyDatabase) /\ Owned(EmptyDatabase)
      /\ RowsAreLogged(EmptyDatabase, <<>>)
  BY <1>2 DEF Bounded, OnePerOccurrence, Owned, RowsAreLogged
<1>4. SchedulesSound(EmptyDatabase, <<>>, cfg)
  BY DEF SchedulesSound, EmptyDatabase
<1> QED
  BY <1>1, <1>3, <1>4 DEF Sound, LogSound

LEMMA Initial == Init => IInv
<1> SUFFICES ASSUME Init PROVE IInv
  OBVIOUS
<1>1. LogSound(log, Config) /\ Sound(EmptyDatabase, log, Config) /\ EmptyDatabase \in Database
  BY EmptySound DEF Init, Sound
<1>2. \A tx : HasCreated(tx, log, 0) /\ HasCreated(tx, log, Len(log))
  BY DEF Init, HasCreated
<1>3. reference \in Seq(Database) /\ Len(reference) = 1 /\ Len(log) = 0
      /\ \A k \in DOMAIN reference : reference[k] = EmptyDatabase
  BY <1>1 DEF Init
<1>4. node \in [Replicas -> NodeState]
      /\ \A r \in Replicas : node[r].reached = 0 /\ node[r].applied = 0
  BY DEF Init, NodeState
<1>5. DatabasesSound
  BY <1>1, <1>2, <1>3, <1>4 DEF Init, DatabasesSound
<1>6. Positions
  BY <1>3, <1>4, WorkloadType DEF Init, Positions, Applied
<1> QED
  BY <1>1, <1>5, <1>6 DEF Init, IInv

(* An entry is committed. *)
LEMMA ProposedStep ==
    ASSUME IInv, Len(log) < workload.maxLog, NEW type, NEW cmd, Proposed(type, cmd),
           type \in EntryTypes, cmd \in CommandSets(Config)[type],
           type \in {"claim_execution", "record_attempt"} => Unused(type, cmd.id),
           type = "claim_execution" =>
              /\ \E j \in DOMAIN log : Creates(log, j, cmd.scheduleID)
              /\ Config.scheduleType = "once" => cmd.scheduledFor = Config.firstRunAt
    PROVE  IInv'
<1> PICK at \in ProposedTimes :
        LET entry == [type |-> type, cmd |-> cmd, proposedAt |-> at]
        IN  /\ log' = Append(log, entry)
            /\ reference' = Append(reference,
                                   Dispatch(reference[Len(reference)], entry))
            /\ UNCHANGED <<workload, disk, node>>
  BY DEF Proposed
<1> DEFINE entry == [type |-> type, cmd |-> cmd, proposedAt |-> at]
           n == Len(log)
           last == reference[Len(reference)]
<1>1. /\ workload \in Workloads /\ LogSound(log, Config)
      /\ Config \in ScheduleConfig /\ workload' = workload /\ Config' = Config
  BY WorkloadType DEF IInv, Config
<1>2. entry \in Entries(Config) /\ entry.type = type /\ entry.cmd = cmd
  BY IsEntry
<1>3. PICK more : more = log'
  OBVIOUS
<1>4. more = Append(log, entry)
  BY <1>3
<1>0. type \in {"claim_execution", "record_attempt"} =>
         \A j \in DOMAIN log : ~Is(log, j, entry.type, entry.cmd.id)
  BY <1>2 DEF Unused, Is
<1> HIDE DEF entry
<1>5. LogSound(more, Config)
  BY <1>1, <1>2, <1>4, <1>0, LogGrows
<1>6. /\ n \in Nat /\ DOMAIN log = 1..n /\ DOMAIN more = 1..(n + 1)
      /\ \A i \in DOMAIN log : more[i] = log[i]
      /\ more[n + 1] = entry /\ Len(more) = n + 1
  BY <1>1, <1>2, <1>4 DEF LogSound
<1>7. \A tx : Sound(tx, log, Config) => Sound(tx, more, Config)
  BY <1>6, LongerLog
<1>8. ASSUME NEW tx, NEW k \in 0..n, HasCreated(tx, log, k)
      PROVE  HasCreated(tx, more, k)
  <2>1. \A j \in 1..k : j \in DOMAIN log /\ more[j] = log[j]
    BY <1>6
  <2> QED
    BY <1>8, <2>1 DEF HasCreated, Creates, Is
<1>9. PICK new : new = Dispatch(last, entry)
  OBVIOUS
<1>10. /\ reference \in Seq(Database) /\ Len(reference) = n + 1
       /\ last \in Database /\ Sound(last, more, Config) /\ HasCreated(last, more, n)
  <2>1. /\ reference \in Seq(Database) /\ Len(reference) = n + 1
        /\ Len(reference) \in DOMAIN reference
        /\ Sound(last, log, Config) /\ HasCreated(last, log, n)
    BY <1>6 DEF IInv, DatabasesSound
  <2> HIDE DEF last, n
  <2>2. n \in 0..n
    BY <1>6
  <2> QED
    BY <1>7, <1>8, <2>1, <2>2 DEF Sound
<1>11. /\ Sound(new, more, Config)
       /\ \A s \in ScheduleIDs :
            last.schedules[s] # Nil \/ Creates(more, n + 1, s) => new.schedules[s] # Nil
  <2>1. /\ n + 1 \in DOMAIN more /\ HasCreated(last, more, (n + 1) - 1)
        /\ new = Dispatch(last, more[n + 1])
    BY <1>6, <1>9, <1>10
  <2> HIDE DEF last, n
  <2> QED
    BY <1>1, <1>5, <1>10, <2>1, DispatchSound
<1>12. HasCreated(new, more, n + 1)
  <2> SUFFICES ASSUME NEW j \in 1..(n + 1), NEW s \in ScheduleIDs, Creates(more, j, s)
               PROVE  new.schedules[s] # Nil
    BY DEF HasCreated
  <2>1. CASE j \in 1..n
    BY <1>10, <1>11, <2>1 DEF HasCreated
  <2>2. CASE j = n + 1
    BY <1>11, <2>2
  <2> QED
    BY <1>6, <2>1, <2>2
<1>13. PICK longer : longer = reference'
  OBVIOUS
<1>14. /\ longer \in Seq(Database) /\ Len(longer) = n + 2
       /\ longer[Len(longer)] = new
       /\ \A k \in DOMAIN longer : longer[k] = new \/ \E m \in DOMAIN reference : longer[k] = reference[m]
  <2>1. longer = Append(reference, new)
    BY <1>9, <1>13 DEF entry
  <2>2. new \in Database
    BY <1>11 DEF Sound
  <2> HIDE DEF last
  <2> QED
    BY <1>6, <1>10, <2>1, <2>2
<1>15. \A k \in DOMAIN longer : Sound(longer[k], more, Config)
  BY <1>7, <1>11, <1>14 DEF IInv, DatabasesSound
<1>16. \A r \in Replicas : /\ Sound(disk[r], more, Config)
                           /\ HasCreated(disk[r], more, node[r].reached)
  <2> SUFFICES ASSUME NEW r \in Replicas
               PROVE  Sound(disk[r], more, Config) /\ HasCreated(disk[r], more, node[r].reached)
    OBVIOUS
  <2>1. node[r].reached \in 0..n
    BY <1>6 DEF IInv, Positions, NodeState
  <2> QED
    BY <1>7, <1>8, <2>1 DEF IInv, DatabasesSound
<1>17. Replicas' = Replicas /\ disk' = disk /\ node' = node /\ Config' = Config
  BY DEF Replicas, Config
<1>18. DatabasesSound'
  <2>1. /\ longer \in Seq(Database) /\ Len(longer) = Len(more) + 1
        /\ \A k \in DOMAIN longer : Sound(longer[k], more, Config)
        /\ HasCreated(longer[Len(longer)], more, Len(more))
    BY <1>6, <1>12, <1>14, <1>15
  <2> QED
    BY <1>3, <1>13, <1>16, <1>17, <2>1 DEF IInv, DatabasesSound
<1>19. Positions'
  <2>1. Len(more) <= workload.maxLog
    BY <1>1, <1>6, WorkloadType
  <2>2. \A r \in Replicas : node[r].reached <= Len(more)
    BY <1>6 DEF IInv, Positions, NodeState
  <2> QED
    BY <1>1, <1>3, <1>17, <2>1, <2>2 DEF IInv, Positions, Applied
<1> QED
  BY <1>1, <1>3, <1>5, <1>18, <1>19 DEF IInv

(* The next entry is applied on a node. *)
LEMMA ApplyStep ==
    ASSUME IInv, NEW r \in Replicas, Apply(r)
    PROVE  /\ IInv'
           /\ \A z \in Replicas : z # r => disk'[z] = disk[z]
<1> DEFINE k == Applied(r)
           new == Dispatch(disk[r], log[k + 1])
           reached == IF k + 1 > node[r].reached THEN k + 1 ELSE node[r].reached
<1>1. /\ workload' = workload /\ log' = log /\ reference' = reference
      /\ Replicas' = Replicas /\ Config' = Config
      /\ disk' = [disk EXCEPT ![r] = new]
      /\ k < Len(log) /\ node[r].open
  BY DEF Apply, EntryPanics, Replicas, Config
<1>2. /\ Config \in ScheduleConfig /\ LogSound(log, Config)
      /\ Len(log) \in Nat /\ DOMAIN log = 1..Len(log)
      /\ disk \in [Replicas -> Database] /\ node \in [Replicas -> NodeState]
  BY WorkloadType DEF IInv, LogSound, DatabasesSound, Positions
<1>3. /\ k \in Nat /\ node[r] \in NodeState /\ node[r].reached \in Nat
      /\ k <= node[r].reached /\ node[r].reached <= Len(log) /\ k + 1 \in DOMAIN log
  BY <1>1, <1>2 DEF IInv, Positions, NodeState, Applied
<1> DEFINE row == [node[r] EXCEPT !.applied = k + 1, !.reached = reached]
<1>4. node' = [node EXCEPT ![r] = row]
  BY DEF Apply
<1>5. /\ node' \in [Replicas -> NodeState]
      /\ node'[r].applied = k + 1 /\ node'[r].reached = reached
      /\ \A z \in Replicas : z # r => node'[z] = node[z]
  <2>1. reached \in Nat /\ k + 1 \in Nat
    BY <1>3
  <2>2. row \in NodeState /\ row.applied = k + 1 /\ row.reached = reached
    <3>1. node[r] \in NodeState
      BY <1>3
    <3>2. PICK state, position, furthest :
             state = node[r] /\ position = k + 1 /\ furthest = reached
      OBVIOUS
    <3>3. row = [state EXCEPT !.applied = position, !.reached = furthest]
      BY <3>2
    <3>4. state \in NodeState /\ position \in Nat /\ furthest \in Nat
      BY <2>1, <3>1, <3>2
    <3> HIDE DEF row
    <3>5. row \in NodeState /\ row.applied = position /\ row.reached = furthest
      BY <3>3, <3>4 DEF NodeState
    <3> QED
      BY <3>2, <3>5
  <2> HIDE DEF row
  <2> QED
    BY <1>2, <1>4, <2>2
<1>6. /\ Sound(disk[r], log, Config) /\ HasCreated(disk[r], log, node[r].reached)
      /\ HasCreated(disk[r], log, (k + 1) - 1)
  BY <1>3 DEF IInv, DatabasesSound, HasCreated
<1>7. /\ Sound(new, log, Config)
      /\ \A s \in ScheduleIDs :
           disk[r].schedules[s] # Nil \/ Creates(log, k + 1, s) => new.schedules[s] # Nil
  <2> HIDE DEF k
  <2> QED
    BY <1>2, <1>3, <1>6, DispatchSound
<1> HIDE DEF new
<1>8. HasCreated(new, log, reached)
  <2> SUFFICES ASSUME NEW j \in 1..reached, NEW s \in ScheduleIDs, Creates(log, j, s)
               PROVE  new.schedules[s] # Nil
    BY DEF HasCreated
  <2>1. CASE j \in 1..node[r].reached
    BY <1>6, <1>7, <2>1 DEF HasCreated
  <2>2. CASE j = k + 1
    BY <1>7, <2>2
  <2> QED
    BY <1>3, <2>1, <2>2
<1>9. /\ disk' \in [Replicas -> Database] /\ disk'[r] = new
      /\ \A z \in Replicas : z # r => disk'[z] = disk[z]
  BY <1>1, <1>2, <1>7 DEF Sound
<1>10. DatabasesSound'
  <2>1. ASSUME NEW z \in Replicas
        PROVE  Sound(disk'[z], log, Config) /\ HasCreated(disk'[z], log, node'[z].reached)
    <3>1. CASE z = r
      BY <1>5, <1>7, <1>8, <1>9, <3>1
    <3>2. CASE z # r
      BY <1>5, <1>9, <3>2 DEF IInv, DatabasesSound
    <3> QED
      BY <3>1, <3>2
  <2> QED
    BY <1>1, <1>9, <2>1 DEF IInv, DatabasesSound
<1>11. Positions'
  <2>1. ASSUME NEW z \in Replicas
        PROVE  /\ node'[z].open => node'[z].applied <= node'[z].reached
               /\ node'[z].reached <= Len(log)
    <3>1. CASE z = r
      BY <1>1, <1>2, <1>3, <1>5, <3>1
    <3>2. CASE z # r
      BY <1>5, <3>2 DEF IInv, Positions, Applied
    <3> QED
      BY <3>1, <3>2
  <2> QED
    BY <1>1, <1>5, <2>1 DEF IInv, Positions, Applied
<1> QED
  BY <1>1, <1>2, <1>9, <1>10, <1>11 DEF IInv

(* What a node's process goes through leaves its database alone. *)
LEMMA ProcessStep ==
    ASSUME IInv, UNCHANGED <<workload, log, reference, disk>>,
           node' \in [Replicas -> NodeState],
           \A r \in Replicas : /\ node'[r].open => node'[r].applied <= node'[r].reached
                               /\ node'[r].reached = node[r].reached
    PROVE  IInv'
<1>1. Replicas' = Replicas /\ Config' = Config
  BY DEF Replicas, Config
<1>2. DatabasesSound'
  BY <1>1 DEF IInv, DatabasesSound
<1>3. Positions'
  BY <1>1 DEF IInv, Positions, Applied
<1> QED
  BY <1>1, <1>2, <1>3 DEF IInv
LEMMA Step == IInv /\ [Next]_vars => IInv'
<1> SUFFICES ASSUME IInv, [Next]_vars PROVE IInv'
  OBVIOUS
<1>1. /\ workload \in Workloads /\ Len(log) \in Nat /\ DOMAIN log = 1..Len(log)
      /\ \A tx \in Readable : Sound(tx, log, Config)
      /\ node \in [Replicas -> NodeState]
      /\ \A r \in Replicas : node[r].open => node[r].applied <= node[r].reached
  BY DEF IInv, LogSound, DatabasesSound, Positions, Readable, Applied
<1>2. CASE ProposeByClient
  <2>1. PICK type \in DOMAIN ClientCommands : \E cmd \in ClientCommands[type] : Proposed(type, cmd)
    BY <1>2 DEF ProposeByClient
  <2>2. PICK cmd \in ClientCommands[type] : Proposed(type, cmd)
    BY <2>1
  <2>3. /\ type \in EntryTypes /\ type \notin {"claim_execution", "record_attempt"}
        /\ cmd \in CommandSets(Config)[type]
    BY <1>1, ClientEntries
  <2>4. Len(log) < workload.maxLog
    BY <1>2 DEF ProposeByClient
  <2> QED
    BY <2>2, <2>3, <2>4, ProposedStep
<1>3. CASE ProposeByWorker
  <2>1. PICK tx \in Readable : \E type \in DOMAIN WorkerCommands(tx) :
                \E cmd \in WorkerCommands(tx)[type] : Proposed(type, cmd)
    BY <1>3, Zenon DEF ProposeByWorker
  <2>2. PICK type \in DOMAIN WorkerCommands(tx) :
                \E cmd \in WorkerCommands(tx)[type] : Proposed(type, cmd)
    BY <2>1
  <2>3. PICK cmd \in WorkerCommands(tx)[type] : Proposed(type, cmd)
    BY <2>2
  <2>4. /\ type \in EntryTypes /\ cmd \in CommandSets(Config)[type]
        /\ type \in {"claim_execution", "record_attempt"} => Unused(type, cmd.id)
        /\ type = "claim_execution" =>
             /\ \E j \in DOMAIN log : Creates(log, j, cmd.scheduleID)
             /\ Config.scheduleType = "once" => cmd.scheduledFor = Config.firstRunAt
    BY <1>1, WorkerEntries
  <2>5. Len(log) < workload.maxLog
    BY <1>3 DEF ProposeByWorker
  <2> QED
    BY <2>3, <2>4, <2>5, ProposedStep
<1>4. ASSUME NEW r \in Replicas, Apply(r) PROVE IInv'
  BY <1>4, ApplyStep
<1>5. ASSUME NEW r \in Replicas, PanicInApply(r) PROVE IInv'
  <2>1. node' = [node EXCEPT ![r].panicked = TRUE]
    BY <1>5 DEF PanicInApply
  <2>2. /\ node' \in [Replicas -> NodeState]
        /\ \A z \in Replicas : /\ node'[z].open => node'[z].applied <= node'[z].reached
                               /\ node'[z].reached = node[z].reached
    BY <1>1, <2>1 DEF NodeState
  <2> QED
    BY <1>5, <2>2, ProcessStep DEF PanicInApply
<1>6. ASSUME NEW r \in Replicas, Snapshot(r) PROVE IInv'
  <2>1. node' = [node EXCEPT ![r].snapshot = Applied(r)]
    BY <1>6 DEF Snapshot
  <2>2. /\ node' \in [Replicas -> NodeState]
        /\ \A z \in Replicas : /\ node'[z].open => node'[z].applied <= node'[z].reached
                               /\ node'[z].reached = node[z].reached
    BY <1>1, <2>1 DEF NodeState, Applied
  <2> QED
    BY <1>6, <2>2, ProcessStep DEF Snapshot
<1>7. ASSUME NEW r \in Replicas, Restart(r) PROVE IInv'
  <2>1. PICK state, index, open, times :
             /\ state = node[r] /\ index = state.snapshot /\ open = (index = 0)
             /\ times = state.restarts + 1
             /\ node' = [node EXCEPT ![r] =
                          [state EXCEPT !.applied = index, !.open = open,
                                        !.panicked = FALSE, !.restarts = times]]
    BY <1>7 DEF Restart
  <2>2. /\ state \in NodeState /\ state.reached \in Nat
        /\ index \in Nat /\ open \in BOOLEAN /\ times \in Nat
    BY <1>1, <2>1 DEF NodeState
  <2> DEFINE row == [state EXCEPT !.applied = index, !.open = open,
                                  !.panicked = FALSE, !.restarts = times]
  <2>3. row \in NodeState /\ row.reached = state.reached /\ row.applied = index /\ row.open = open
    BY <2>2 DEF NodeState
  <2>4. node' = [node EXCEPT ![r] = row]
    BY <2>1
  <2> HIDE DEF row
  <2>5. /\ node' \in [Replicas -> NodeState]
        /\ \A z \in Replicas : node'[z] = IF z = r THEN row ELSE node[z]
    BY <1>1, <2>3, <2>4
  <2> QED
    <3>1. row.open => row.applied <= row.reached
      <4>1. row.open => index = 0
        BY <2>1, <2>3, Zenon
      <4> QED
        BY <2>2, <2>3, <4>1
    <3>2. \A z \in Replicas : /\ node'[z].open => node'[z].applied <= node'[z].reached
                              /\ node'[z].reached = node[z].reached
      BY <1>1, <2>1, <2>3, <2>5, <3>1
    <3> QED
      BY <1>7, <2>5, <3>2, ProcessStep DEF Restart
<1>8. ASSUME NEW r \in Replicas, NEW s \in Replicas, InstallSnapshot(r, s) PROVE IInv'
  <2>1. PICK state, index : /\ state = node[r] /\ index = node[s].snapshot
                            /\ node' = [node EXCEPT ![r] =
                                         [state EXCEPT !.applied = index,
                                                       !.snapshot = index, !.open = FALSE]]
    BY <1>8 DEF InstallSnapshot
  <2>2. state \in NodeState /\ index \in Nat
    BY <1>1, <2>1 DEF NodeState
  <2> DEFINE row == [state EXCEPT !.applied = index, !.snapshot = index, !.open = FALSE]
  <2>3. row \in NodeState /\ row.reached = state.reached /\ ~row.open
    BY <2>2 DEF NodeState
  <2>4. node' = [node EXCEPT ![r] = row]
    BY <2>1
  <2> HIDE DEF row
  <2>5. /\ node' \in [Replicas -> NodeState]
        /\ \A z \in Replicas : node'[z] = IF z = r THEN row ELSE node[z]
    BY <1>1, <2>3, <2>4
  <2> QED
    BY <1>1, <1>8, <2>1, <2>3, <2>5, ProcessStep DEF InstallSnapshot
<1>9. CASE UNCHANGED vars
  BY <1>1, <1>9, ProcessStep DEF vars
<1> QED
  BY <1>2, <1>3, <1>4, <1>5, <1>6, <1>7, <1>8, <1>9 DEF Next

LEMMA Invariant == Spec => []IInv
BY Initial, Step, PTL DEF Spec

-----------------------------------------------------------------------------
(* The types of the log's positions and of every database (Replication). *)
THEOREM ReplicasAreTyped == Spec => []TypeOK
<1>1. IInv => TypeOK
  BY WorkloadType DEF IInv, LogSound, DatabasesSound, Positions, TypeOK, Applied
<1> QED
  BY <1>1, Invariant, PTL

(* Whatever a node's database has gone through, an occurrence has one execution, *)
(* an execution an owner while it is in flight, a schedule a due instant while    *)
(* it is active, and a one-time schedule one execution, which completes it.       *)
THEOREM ReplayedRowsAreSound == Spec => []ReplayKeepsRowsSound
<1>1. IInv => ReplayKeepsRowsSound
  BY SoundRows DEF IInv, DatabasesSound, ReplayKeepsRowsSound, Config
<1> QED
  BY <1>1, Invariant, PTL
-----------------------------------------------------------------------------
(* What has ended stays as it is. *)

KeepsEnded(tx, ty) ==
    \A e \in Executions(tx) :
        IsTerminal(tx.executions[e].status) =>
            /\ ty.executions[e] = tx.executions[e]
            /\ \A a \in AttemptIDs :
                 tx.attempts[a] # Nil /\ tx.attempts[a].executionID = e
                    => ty.attempts[a] = tx.attempts[a]

(* A handler that writes the row of an execution that has not ended, and at most *)
(* attempts of that one.                                                     *)
LEMMA OtherRowsWritten ==
    ASSUME NEW tx \in Database, NEW ty, NEW f, NEW row,
           ty.executions = [tx.executions EXCEPT ![f] = row],
           f \in Executions(tx) => ~IsTerminal(tx.executions[f].status),
           \A a \in Attempts(tx) : \/ ty.attempts[a] = tx.attempts[a]
                                  \/ tx.attempts[a].executionID = f
    PROVE  KeepsEnded(tx, ty)
<1>1. tx.executions \in [ExecutionIDs -> Execution \cup {Nil}]
  BY DEF Database
<1> SUFFICES ASSUME NEW e \in Executions(tx), IsTerminal(tx.executions[e].status)
             PROVE  /\ ty.executions[e] = tx.executions[e]
                    /\ \A a \in AttemptIDs :
                         tx.attempts[a] # Nil /\ tx.attempts[a].executionID = e
                            => ty.attempts[a] = tx.attempts[a]
  BY DEF KeepsEnded
<1>2. e # f
  OBVIOUS
<1> QED
  BY <1>1, <1>2 DEF Executions, Attempts

(* Every entry, applied to a sound database: a claim of an occurrence that has   *)
(* an execution is refused, and so is what names an ended execution; an attempt   *)
(* is reported by one entry, and that entry names its execution.                *)
LEMMA EndedUntouched ==
    ASSUME NEW lg, NEW cfg \in ScheduleConfig, LogSound(lg, cfg),
           NEW tx, Sound(tx, lg, cfg), NEW i \in DOMAIN lg
    PROVE  KeepsEnded(tx, Dispatch(tx, lg[i]))
<1> DEFINE cmd == lg[i].cmd
           ty == Dispatch(tx, lg[i])
<1>0. /\ tx \in Database
      /\ tx.executions \in [ExecutionIDs -> Execution \cup {Nil}]
      /\ tx.attempts \in [AttemptIDs -> Attempt \cup {Nil}]
  BY DEF Sound, Database
<1>1. /\ lg[i].type \in EntryTypes
      /\ cmd \in CommandSets(cfg)[lg[i].type]
  <2>1. lg[i] \in Entries(cfg)
    BY DEF LogSound
  <2> QED
    BY <2>1 DEF Entries
<1> SUFFICES KeepsEnded(tx, ty)
  OBVIOUS
<1>2. KeepsEnded(tx, tx)
  BY DEF KeepsEnded
<1>3. CASE lg[i].type \in {"create_schedule", "update_schedule", "pause_schedule",
                           "cancel_schedule", "resume_schedule"}
  <2>1. ASSUME NEW row \in Schedule, ty = [tx EXCEPT !.schedules[cmd.id] = row]
        PROVE  KeepsEnded(tx, ty)
    <3> HIDE DEF ty
    <3>1. ty.executions = tx.executions /\ ty.attempts = tx.attempts
      BY <1>0, <2>1 DEF Database
    <3> QED
      BY <3>1 DEF KeepsEnded
  <2>2. ty = tx \/ \E row \in Schedule : ty = [tx EXCEPT !.schedules[cmd.id] = row]
    BY <1>3, ClientEntrySound
  <2> QED
    BY <1>2, <2>1, <2>2
<1>4. CASE lg[i].type = "create_tenant"
  <2>1. AppliedIf(CreateTenantAccepted(tx, cmd.id), ApplyCreateTenant(tx, cmd.id), tx, ty)
    BY <1>1, <1>4, DispatchCases
  <2> HIDE DEF ty
  <2>2. ty.executions = tx.executions /\ ty.attempts = tx.attempts
    BY <1>0, <2>1 DEF AppliedIf, ApplyCreateTenant, Database
  <2> QED
    BY <2>2 DEF KeepsEnded
<1>5. CASE lg[i].type = "claim_execution"
  <2>1. AppliedIf(ClaimExecutionAccepted(tx, cmd),
                  ApplyClaimExecution(tx, cmd), tx, ty)
    BY <1>1, <1>5, DispatchCases
  <2>2. CASE ~ClaimExecutionAccepted(tx, cmd)
    BY <1>2, <2>1, <2>2 DEF AppliedIf
  <2>3. CASE ClaimExecutionAccepted(tx, cmd)
    <3> DEFINE row == [scheduleID |-> cmd.scheduleID, scheduledFor |-> cmd.scheduledFor,
                       ownerNodeID |-> cmd.ownerNodeID,
                       status |-> "in_flight", attemptCount |-> 0,
                       lastAttemptID |-> Nil, lastRetryAt |-> Nil]
    <3>1. cmd.id \notin Executions(tx)
      BY <1>5, <2>3, ReplayedClaimIsRefused DEF Sound
    <3>2. ty = [tx EXCEPT !.executions[cmd.id] = row]
      BY <2>1, <2>3 DEF AppliedIf, ApplyClaimExecution
    <3> HIDE DEF ty, row
    <3>3. ty.executions = [tx.executions EXCEPT ![cmd.id] = row] /\ ty.attempts = tx.attempts
      BY <1>0, <3>2 DEF Database
    <3> QED
      <4>1. \A a \in Attempts(tx) : ty.attempts[a] = tx.attempts[a]
        BY <3>3
      <4> HIDE DEF cmd
      <4> QED
        BY <1>0, <3>1, <3>3, <4>1, OtherRowsWritten
  <2> QED
    BY <2>2, <2>3
<1>6. CASE lg[i].type = "adopt_execution"
  <2>1. AppliedIf(AdoptExecutionAccepted(tx, cmd), ApplyAdoptExecution(tx, cmd), tx, ty)
    BY <1>1, <1>6, DispatchCases
  <2>2. CASE ~AdoptExecutionAccepted(tx, cmd)
    BY <1>2, <2>1, <2>2 DEF AppliedIf
  <2>3. CASE AdoptExecutionAccepted(tx, cmd)
    <3> DEFINE row == [tx.executions[cmd.executionID] EXCEPT !.ownerNodeID = cmd.newOwner]
    <3>1. ~IsTerminal(tx.executions[cmd.executionID].status)
      BY <2>3 DEF AdoptExecutionAccepted, IsTerminal, TerminalStatuses
    <3>2. ty = [tx EXCEPT !.executions[cmd.executionID] = row]
      BY <2>1, <2>3 DEF AppliedIf, ApplyAdoptExecution
    <3> HIDE DEF ty, row
    <3>3. /\ ty.executions = [tx.executions EXCEPT ![cmd.executionID] = row]
          /\ ty.attempts = tx.attempts
      BY <1>0, <3>2 DEF Database
    <3> QED
      BY <1>0, <3>1, <3>3, OtherRowsWritten
  <2> QED
    BY <2>2, <2>3
<1>7. CASE lg[i].type = "record_attempt"
  <2>1. AppliedIf(RecordAttemptAccepted(tx, cmd), ApplyRecordAttempt(tx, cmd), tx, ty)
    BY <1>1, <1>7, DispatchCases
  <2>2. CASE ~RecordAttemptAccepted(tx, cmd)
    BY <1>2, <2>1, <2>2 DEF AppliedIf
  <2>3. CASE RecordAttemptAccepted(tx, cmd)
    <3> DEFINE number == tx.executions[cmd.executionID].attemptCount + 1
               new == [executionID |-> cmd.executionID, nodeID |-> cmd.nodeID,
                       attemptNumber |-> number, outcome |-> cmd.outcome,
                       retryAt |-> cmd.retryAt]
               row == [tx.executions[cmd.executionID] EXCEPT
                          !.attemptCount = number, !.lastAttemptID = cmd.id,
                          !.lastRetryAt = cmd.retryAt]
    <3>1. ~IsTerminal(tx.executions[cmd.executionID].status)
      BY <2>3 DEF RecordAttemptAccepted, IsTerminal, TerminalStatuses
    <3>2. ty = [tx EXCEPT !.attempts[cmd.id] = new, !.executions[cmd.executionID] = row]
      BY <2>1, <2>3 DEF AppliedIf, ApplyRecordAttempt
    <3>3. cmd.id \in Attempts(tx) => tx.attempts[cmd.id].executionID = cmd.executionID
      <4> SUFFICES ASSUME cmd.id \in Attempts(tx)
                   PROVE  tx.attempts[cmd.id].executionID = cmd.executionID
        OBVIOUS
      <4>1. PICK j \in DOMAIN lg : /\ Is(lg, j, "record_attempt", cmd.id)
                                   /\ lg[j].cmd.executionID = tx.attempts[cmd.id].executionID
        BY DEF Sound, RowsAreLogged
      <4>2. j = i
        BY <1>7, <4>1 DEF LogSound, Is
      <4> QED
        BY <4>1, <4>2
    <3> HIDE DEF ty, row, new
    <3>4. /\ ty.executions = [tx.executions EXCEPT ![cmd.executionID] = row]
          /\ ty.attempts = [tx.attempts EXCEPT ![cmd.id] = new]
      BY <1>0, <3>2 DEF Database
    <3>5. \A a \in Attempts(tx) : \/ ty.attempts[a] = tx.attempts[a]
                                 \/ tx.attempts[a].executionID = cmd.executionID
      BY <1>0, <3>3, <3>4 DEF Attempts
    <3>6. PICK f, written :
             /\ f = cmd.executionID /\ written = row
             /\ ty.executions = [tx.executions EXCEPT ![f] = written]
      BY <3>4
    <3>7. f \in Executions(tx) => ~IsTerminal(tx.executions[f].status)
      BY <3>1, <3>6
    <3>8. \A a \in Attempts(tx) : \/ ty.attempts[a] = tx.attempts[a]
                                 \/ tx.attempts[a].executionID = f
      BY <3>5, <3>6
    <3> HIDE DEF cmd
    <3> QED
      BY <1>0, <3>6, <3>7, <3>8, OtherRowsWritten
  <2> QED
    BY <2>2, <2>3
<1>8. ASSUME NEW e, NEW status, EndExecutionAccepted(tx, e), ty = EndExecution(tx, e, status)
      PROVE  KeepsEnded(tx, ty)
  <2> DEFINE row == [tx.executions[e] EXCEPT !.status = status, !.ownerNodeID = Nil]
             s == tx.executions[e].scheduleID
             sched == AfterExecution(tx.schedules[s], tx.executions[e].scheduledFor)
  <2>1. ~IsTerminal(tx.executions[e].status)
    BY <1>8 DEF EndExecutionAccepted
  <2>2. ty = [tx EXCEPT !.executions[e] = row, !.schedules[s] = sched]
    BY <1>8 DEF EndExecution
  <2> HIDE DEF ty, row, s, sched
  <2>3. ty.executions = [tx.executions EXCEPT ![e] = row] /\ ty.attempts = tx.attempts
    BY <1>0, <2>2 DEF Database
  <2> QED
    BY <1>0, <2>1, <2>3, OtherRowsWritten
<1>9. CASE lg[i].type = "complete_execution"
  <2>1. AppliedIf(CompleteExecutionAccepted(tx, cmd), ApplyCompleteExecution(tx, cmd), tx, ty)
    BY <1>1, <1>9, DispatchCases
  <2>2. CASE ~CompleteExecutionAccepted(tx, cmd)
    BY <1>2, <2>1, <2>2 DEF AppliedIf
  <2>3. CASE CompleteExecutionAccepted(tx, cmd)
    <3>1. EndExecutionAccepted(tx, cmd.executionID)
          /\ ty = EndExecution(tx, cmd.executionID, cmd.finalStatus)
      BY <2>1, <2>3 DEF AppliedIf, CompleteExecutionAccepted, ApplyCompleteExecution
    <3> QED
      BY <1>8, <3>1
  <2> QED
    BY <2>2, <2>3
<1>10. CASE lg[i].type = "fail_execution_timeout"
  <2>1. AppliedIf(FailExecutionTimeoutAccepted(tx, cmd),
                  ApplyFailExecutionTimeout(tx, cmd), tx, ty)
    BY <1>1, <1>10, DispatchCases
  <2>2. CASE ~FailExecutionTimeoutAccepted(tx, cmd)
    BY <1>2, <2>1, <2>2 DEF AppliedIf
  <2>3. CASE FailExecutionTimeoutAccepted(tx, cmd)
    <3>1. EndExecutionAccepted(tx, cmd.executionID)
          /\ ty = EndExecution(tx, cmd.executionID, "failed_max_retries")
      BY <2>1, <2>3 DEF AppliedIf, FailExecutionTimeoutAccepted, ApplyFailExecutionTimeout
    <3> QED
      BY <1>8, <3>1
  <2> QED
    BY <2>2, <2>3
<1> QED
  BY <1>1, <1>3, <1>4, <1>5, <1>6, <1>7, <1>9, <1>10 DEF EntryTypes

(* Neither the log, however often it is applied again, nor what else happens to a *)
(* node changes the row of an execution that has ended, or an attempt of it.      *)
THEOREM ReplayLeavesEndedAlone == Spec => ReplayKeepsEnded
<1> DEFINE Kept == \A r \in Replicas : KeepsEnded(disk[r], disk'[r])
<1>1. ASSUME IInv, [Next]_vars
      PROVE  Kept
  <2>1. CASE disk' = disk
    BY <2>1 DEF KeepsEnded
  <2>2. ASSUME NEW r \in Replicas, Apply(r)
        PROVE  Kept
    <3>1. \A z \in Replicas : z # r => disk'[z] = disk[z]
      BY <1>1, <2>2, ApplyStep
    <3>2. disk'[r] = Dispatch(disk[r], log[Applied(r) + 1])
      BY <1>1, <2>2 DEF Apply, IInv, DatabasesSound
    <3>3. /\ Config \in ScheduleConfig /\ LogSound(log, Config)
          /\ Sound(disk[r], log, Config) /\ Applied(r) + 1 \in DOMAIN log
      BY <1>1, <2>2, WorkloadType
         DEF Apply, IInv, DatabasesSound, Positions, LogSound, NodeState, Applied
    <3>4. KeepsEnded(disk[r], disk'[r])
      BY <3>2, <3>3, EndedUntouched
    <3>5. \A z \in Replicas : z # r => KeepsEnded(disk[z], disk'[z])
      BY <3>1 DEF KeepsEnded
    <3> QED
      BY <3>4, <3>5
  <2>3. ProposeByClient \/ ProposeByWorker => disk' = disk
    BY DEF ProposeByClient, ProposeByWorker, Proposed
  <2>4. \A r \in Replicas : PanicInApply(r) \/ Snapshot(r) \/ Restart(r) => disk' = disk
    BY DEF PanicInApply, Snapshot, Restart
  <2>5. \A r, s \in Replicas : InstallSnapshot(r, s) => disk' = disk
    BY DEF InstallSnapshot
  <2> HIDE DEF Kept
  <2> QED
    BY <1>1, <2>1, <2>2, <2>3, <2>4, <2>5 DEF Next, vars
<1>2. Kept =>
        \A r \in Replicas : \A e \in Executions(disk[r]) :
          IsTerminal(disk[r].executions[e].status) =>
            /\ disk'[r].executions[e] = disk[r].executions[e]
            /\ \A a \in AttemptIDs :
                 disk[r].attempts[a] # Nil /\ disk[r].attempts[a].executionID = e
                    => disk'[r].attempts[a] = disk[r].attempts[a]
  BY DEF KeepsEnded
<1> QED
  BY <1>1, <1>2, Invariant, PTL DEF Spec, ReplayKeepsEnded
-----------------------------------------------------------------------------
(* What an entry does to the executions and the schedules, row by row. *)

InFlight(tx, e) == e \in Executions(tx) /\ tx.executions[e].status = "in_flight"

(* Entry x is of the type and about the schedule; ends e; takes e from its owner. *)
About(x, type, s) == x.type = type /\ x.cmd.id = s

Toggles(x, s) == About(x, "pause_schedule", s) \/ About(x, "resume_schedule", s)

Ends(x, e) ==
    /\ x.type \in {"complete_execution", "fail_execution_timeout"}
    /\ x.cmd.executionID = e

Adopts(x, e, owner) ==
    /\ x.type = "adopt_execution"
    /\ x.cmd.executionID = e
    /\ x.cmd.previousOwner = owner

FinalStatus(x) ==
    IF x.type = "complete_execution" THEN x.cmd.finalStatus ELSE "failed_max_retries"

EndsOne(tx, x, s) == \E e \in ExecutionsOf(tx, s) : InFlight(tx, e) /\ Ends(x, e)

SameOccurrence(ex, fx) ==
    ex.scheduleID = fx.scheduleID /\ ex.scheduledFor = fx.scheduledFor

ExecutionsAfter(tx, x, ty) ==
    /\ \A e \in Executions(tx) :
         LET old == tx.executions[e]
             new == ty.executions[e]
             ends == InFlight(tx, e) /\ Ends(x, e)
         IN  /\ e \in Executions(ty)
             /\ SameOccurrence(new, old)
             /\ new.status = IF ends THEN FinalStatus(x) ELSE old.status
             /\ new.ownerNodeID =
                  IF ends THEN Nil
                  ELSE IF InFlight(tx, e) /\ Adopts(x, e, old.ownerNodeID)
                  THEN x.cmd.newOwner ELSE old.ownerNodeID
    /\ \A e \in ExecutionIDs :
         e \in Executions(ty) \ Executions(tx) <=>
            /\ About(x, "claim_execution", e)
            /\ ClaimExecutionAccepted(tx, x.cmd)
    /\ \A e \in Executions(ty) \ Executions(tx) :
         /\ SameOccurrence(ty.executions[e], x.cmd)
         /\ ty.executions[e].status = "in_flight"
         /\ ty.executions[e].ownerNodeID = x.cmd.ownerNodeID

(* The occurrence a schedule of catch_up_all is due for when it is active. *)
Due(tx, s, cfg) ==
    LET anchor == findMostRecentTerminalExecution(tx, s)
    IN  IF anchor = Nil THEN cfg.firstRunAt
        ELSE computeIntervalAfter(cfg.firstRunAt, cfg.seconds, anchor)

(* The row of s, which is old in tx, after the entry x. *)
RowAfter(tx, x, cfg, s, old, new) ==
    IF old = Nil
    THEN /\ new # Nil <=> About(x, "create_schedule", s) /\ HasInterval(cfg)
         /\ new # Nil => /\ new.status = "active"
                         /\ new.maxAttempts = x.cmd.maxAttempts
                         /\ new.nextRunAt = cfg.firstRunAt
    ELSE /\ new # Nil
         /\ new.maxAttempts =
              IF About(x, "update_schedule", s) /\ old.status # "canceled"
              THEN x.cmd.maxAttempts ELSE old.maxAttempts
         /\ new.status =
              IF EndsOne(tx, x, s) /\ cfg.scheduleType # "recurring" THEN "completed"
              ELSE IF About(x, "pause_schedule", s) /\ old.status = "active" THEN "paused"
              ELSE IF About(x, "resume_schedule", s) /\ old.status = "paused" THEN "active"
              ELSE IF About(x, "cancel_schedule", s) /\ old.status \in {"active", "paused"}
              THEN "canceled"
              ELSE old.status
         /\ CatchesUp(cfg) /\ new.status = "active" =>
              IF old.status # "active" THEN new.nextRunAt = Due(tx, s, cfg)
              ELSE /\ ~EndsOne(tx, x, s) => new.nextRunAt = old.nextRunAt
                   /\ \A e \in ExecutionsOf(tx, s) :
                        InFlight(tx, e) /\ Ends(x, e) =>
                           new.nextRunAt =
                             computeIntervalAfter(cfg.firstRunAt, cfg.seconds,
                                                  tx.executions[e].scheduledFor)

SchedulesAfter(tx, x, ty, cfg) ==
    \A s \in ScheduleIDs :
        RowAfter(tx, x, cfg, s, tx.schedules[s], ty.schedules[s])

-----------------------------------------------------------------------------
(* The log and the pass over it. *)

(* rf are the databases of one pass over lg. *)
OnePass(lg, rf, cfg) ==
    /\ LogSound(lg, cfg)
    /\ rf \in Seq(Database) /\ Len(rf) = Len(lg) + 1
    /\ \A k \in DOMAIN rf : Sound(rf[k], lg, cfg)
    /\ \A i \in DOMAIN lg : rf[i + 1] = Dispatch(rf[i], lg[i])

(* Entry i is proposed from what has been there before it: the execution it ends,  *)
(* the owner it takes one from, the instant a schedule was due.                *)
Proposable(x, rf, i, cfg) ==
    /\ \A e \in ExecutionIDs : Ends(x, e) => e \in Executions(rf[i])
    /\ \A e \in ExecutionIDs, m \in Nodes :
         Adopts(x, e, m) =>
            \E k \in 1..i : /\ e \in Executions(rf[k])
                            /\ rf[k].executions[e].ownerNodeID = m
    /\ x.type = "claim_execution" /\ CatchesUp(cfg) =>
         \E k \in 1..i : x.cmd.scheduledFor = Due(rf[k], x.cmd.scheduleID, cfg)

ProposedFrom(lg, rf, cfg) == \A i \in DOMAIN lg : Proposable(lg[i], rf, i, cfg)

(* Every execution in flight stands for the occurrence that is due, and an       *)
(* active schedule is due for it.                                            *)
RunsDue(tx, cfg) ==
    CatchesUp(cfg) =>
        \A e \in Executions(tx) :
            InFlight(tx, e) =>
                tx.executions[e].scheduledFor = Due(tx, tx.executions[e].scheduleID, cfg)

ActiveIsDue(tx, cfg) ==
    CatchesUp(cfg) =>
        \A s \in ScheduleIDs :
            tx.schedules[s] # Nil /\ tx.schedules[s].status = "active" =>
                tx.schedules[s].nextRunAt = Due(tx, s, cfg)

-----------------------------------------------------------------------------
(* A database in the middle of a replay. *)

(* tx has been through lg as far as q and is being taken through it again; the   *)
(* first p entries have been.  Its executions are those of the pass after q       *)
(* entries; the owner of one in flight is the one that the pass had after k,       *)
(* and up to k no entry takes the execution from it.                           *)
OwnerAhead(tx, lg, rf, e, p, q) ==
    \E k \in p..q :
        /\ e \in Executions(rf[k + 1])
        /\ rf[k + 1].executions[e].ownerNodeID = tx.executions[e].ownerNodeID
        /\ \A i \in (p + 1)..k : ~Adopts(lg[i], e, tx.executions[e].ownerNodeID)

ExecutionsReplayed(tx, lg, rf, p, q) ==
    /\ Executions(tx) = Executions(rf[q + 1])
    /\ \A e \in Executions(tx) :
         /\ SameOccurrence(tx.executions[e], rf[q + 1].executions[e])
         /\ tx.executions[e].status = rf[q + 1].executions[e].status
         /\ InFlight(tx, e) => OwnerAhead(tx, lg, rf, e, p, q)

(* Its schedules differ from those of the pass only where an entry yet to be       *)
(* replayed writes them again.                                                 *)
SchedulesReplayed(tx, lg, rf, p, q) ==
    \A s \in ScheduleIDs :
        LET row == tx.schedules[s]
            last == rf[q + 1].schedules[s]
        IN  /\ row = Nil <=> last = Nil
            /\ row # Nil =>
                 /\ \/ row.status = last.status
                    \/ /\ {row.status, last.status} \subseteq {"active", "paused"}
                       /\ \E i \in (p + 1)..q : Toggles(lg[i], s)
                 /\ \/ last.status = "completed"
                    \/ row.maxAttempts = last.maxAttempts
                    \/ /\ last.status # "canceled"
                       /\ \E i \in (p + 1)..q : About(lg[i], "update_schedule", s)

NoneEarly(lg, rf) ==
    \A i \in DOMAIN lg :
        lg[i].type \in {"update_schedule", "pause_schedule", "cancel_schedule",
                        "resume_schedule"} => rf[i].schedules[lg[i].cmd.id] # Nil

Replayed(tx, lg, rf, cfg, p, q) ==
    /\ p <= q /\ q <= Len(lg)
    /\ ExecutionsReplayed(tx, lg, rf, p, q)
    /\ NoneEarly(lg, rf) => SchedulesReplayed(tx, lg, rf, p, q)

-----------------------------------------------------------------------------
(* The entry at a position of the log. *)
LEMMA EntryAt ==
    ASSUME NEW lg, NEW cfg, LogSound(lg, cfg), NEW i \in DOMAIN lg
    PROVE  /\ lg[i].type \in EntryTypes
           /\ lg[i].cmd \in CommandSets(cfg)[lg[i].type]
<1>1. lg[i] \in Entries(cfg)
  BY DEF LogSound
<1> QED
  BY <1>1 DEF Entries

(* The rows of executions, as a handler leaves them that writes one of them. *)
LEMMA RowRewritten ==
    ASSUME NEW tx \in Database, NEW x, NEW ty, x.type # "claim_execution",
           NEW e \in Executions(tx), NEW row \in Execution,
           SameOccurrence(row, tx.executions[e]),
           ty.executions = [tx.executions EXCEPT ![e] = row],
           row.status = IF InFlight(tx, e) /\ Ends(x, e) THEN FinalStatus(x)
                        ELSE tx.executions[e].status,
           row.ownerNodeID =
              IF InFlight(tx, e) /\ Ends(x, e) THEN Nil
              ELSE IF InFlight(tx, e) /\ Adopts(x, e, tx.executions[e].ownerNodeID)
              THEN x.cmd.newOwner ELSE tx.executions[e].ownerNodeID,
           \A f : f # e => ~Ends(x, f) /\ ~Adopts(x, f, tx.executions[f].ownerNodeID)
    PROVE  ExecutionsAfter(tx, x, ty)
<1>1. /\ tx.executions \in [ExecutionIDs -> Execution \cup {Nil}] /\ Nil \notin Execution
      /\ e \in ExecutionIDs
  BY NilAssumption DEF Database, Executions
<1>2. /\ Executions(ty) = Executions(tx) /\ ty.executions[e] = row
      /\ \A f \in Executions(tx) : f # e => ty.executions[f] = tx.executions[f]
  BY <1>1 DEF Executions
<1>3. \A f \in ExecutionIDs : ~About(x, "claim_execution", f)
  BY DEF About
<1>4. ASSUME NEW f \in Executions(tx)
      PROVE  LET old == tx.executions[f]
                 new == ty.executions[f]
                 ends == InFlight(tx, f) /\ Ends(x, f)
             IN  /\ f \in Executions(ty)
                 /\ SameOccurrence(new, old)
                 /\ new.status = IF ends THEN FinalStatus(x) ELSE old.status
                 /\ new.ownerNodeID =
                      IF ends THEN Nil
                      ELSE IF InFlight(tx, f) /\ Adopts(x, f, old.ownerNodeID)
                      THEN x.cmd.newOwner ELSE old.ownerNodeID
  <2>1. CASE f = e
    BY <1>2, <2>1
  <2>2. CASE f # e
    BY <1>2, <2>2 DEF SameOccurrence
  <2> QED
    BY <2>1, <2>2
<1> QED
  BY <1>2, <1>3, <1>4 DEF ExecutionsAfter

LEMMA RowsUntouched ==
    ASSUME NEW tx, NEW x, NEW ty, ty.executions = tx.executions,
           \A e \in Executions(tx) : /\ InFlight(tx, e) => ~Ends(x, e)
                                     /\ InFlight(tx, e)
                                          /\ Adopts(x, e, tx.executions[e].ownerNodeID)
                                          => x.cmd.newOwner = tx.executions[e].ownerNodeID,
           x.type = "claim_execution" => ~ClaimExecutionAccepted(tx, x.cmd)
    PROVE  ExecutionsAfter(tx, x, ty)
<1>1. Executions(ty) = Executions(tx)
  BY DEF Executions
<1> QED
  BY <1>1 DEF ExecutionsAfter, SameOccurrence, About

(* An entry that ends an execution ends the one in flight it names. *)
LEMMA EndsApplied ==
    ASSUME NEW lg, NEW cfg, LogSound(lg, cfg), NEW tx, Sound(tx, lg, cfg),
           NEW i \in DOMAIN lg,
           lg[i].type \in {"complete_execution", "fail_execution_timeout"}
    PROVE  LET e == lg[i].cmd.executionID
           IN  /\ e \in ExecutionIDs /\ FinalStatus(lg[i]) \in TerminalStatuses
               /\ EndExecutionAccepted(tx, e) <=> InFlight(tx, e)
               /\ AppliedIf(EndExecutionAccepted(tx, e),
                            EndExecution(tx, e, FinalStatus(lg[i])), tx, Dispatch(tx, lg[i]))
<1> DEFINE x == lg[i]
           cmd == x.cmd
           e == cmd.executionID
           ended == FinalStatus(x)
           ty == Dispatch(tx, x)
<1>1. x.type \in EntryTypes /\ cmd \in CommandSets(cfg)[x.type]
  BY EntryAt
<1>2. /\ e \in ExecutionIDs /\ ended \in TerminalStatuses
      /\ AppliedIf(EndExecutionAccepted(tx, e), EndExecution(tx, e, ended), tx, ty)
  <2>1. CASE x.type = "complete_execution"
    <3>1. AppliedIf(CompleteExecutionAccepted(tx, cmd), ApplyCompleteExecution(tx, cmd), tx, ty)
      BY <1>1, <2>1, DispatchCases
    <3>2. /\ e \in ExecutionIDs /\ ended \in TerminalStatuses
          /\ ended = cmd.finalStatus
      BY <1>1, <2>1 DEF CommandSets, FinalStatus
    <3> QED
      BY <3>1, <3>2
         DEF AppliedIf, CompleteExecutionAccepted, ApplyCompleteExecution, IsTerminal
  <2>2. CASE x.type = "fail_execution_timeout"
    <3>1. AppliedIf(FailExecutionTimeoutAccepted(tx, cmd),
                    ApplyFailExecutionTimeout(tx, cmd), tx, ty)
      BY <1>1, <2>2, DispatchCases
    <3>2. /\ e \in ExecutionIDs /\ ended \in TerminalStatuses
          /\ ended = "failed_max_retries"
      BY <1>1, <2>2 DEF CommandSets, FinalStatus, TerminalStatuses
    <3> QED
      BY <3>1, <3>2 DEF AppliedIf, FailExecutionTimeoutAccepted, ApplyFailExecutionTimeout
  <2> QED
    BY <2>1, <2>2
<1>3. EndExecutionAccepted(tx, e) <=> InFlight(tx, e)
  <2>1. /\ tx.executions \in [ExecutionIDs -> Execution \cup {Nil}]
        /\ tx.executions[e] # Nil =>
             /\ tx.executions[e] \in Execution
             /\ tx.schedules[tx.executions[e].scheduleID] # Nil
    BY <1>2 DEF Sound, Owned, Database, Executions
  <2> HIDE DEF e
  <2> QED
    BY <1>2, <2>1
       DEF EndExecutionAccepted, InFlight, Executions, Execution, IsTerminal, TerminalStatuses
<1> QED
  BY <1>2, <1>3

LEMMA ExecutionsWritten ==
    ASSUME NEW lg, NEW cfg \in ScheduleConfig, LogSound(lg, cfg),
           NEW tx, Sound(tx, lg, cfg), NEW i \in DOMAIN lg
    PROVE  ExecutionsAfter(tx, lg[i], Dispatch(tx, lg[i]))
<1> DEFINE x == lg[i]
           cmd == x.cmd
           ty == Dispatch(tx, x)
<1>0. /\ tx \in Database /\ Nil \notin Execution /\ Nil \notin Nodes
      /\ tx.executions \in [ExecutionIDs -> Execution \cup {Nil}]
      /\ \A e \in Executions(tx) : e \in ExecutionIDs /\ tx.executions[e] \in Execution
  BY NilAssumption DEF Sound, Database, Executions
<1>1. x.type \in EntryTypes /\ cmd \in CommandSets(cfg)[x.type]
  BY EntryAt
<1> SUFFICES ExecutionsAfter(tx, x, ty)
  OBVIOUS
<1>2. CASE x.type \in {"create_schedule", "update_schedule", "pause_schedule",
                       "cancel_schedule", "resume_schedule"}
  <2>1. ty = tx \/ \E row \in Schedule : ty = [tx EXCEPT !.schedules[cmd.id] = row]
    BY <1>2, ClientEntrySound
  <2> HIDE DEF ty, x
  <2>2. ty.executions = tx.executions
    BY <1>0, <2>1 DEF Database
  <2> QED
    BY <1>2, <2>2, RowsUntouched DEF Ends, Adopts
<1>3. CASE x.type = "create_tenant"
  <2>1. AppliedIf(CreateTenantAccepted(tx, cmd.id), ApplyCreateTenant(tx, cmd.id), tx, ty)
    BY <1>1, <1>3, DispatchCases
  <2> HIDE DEF ty, x
  <2>2. ty.executions = tx.executions
    BY <1>0, <2>1 DEF AppliedIf, ApplyCreateTenant, Database
  <2> QED
    BY <1>3, <2>2, RowsUntouched DEF Ends, Adopts
<1>4. CASE x.type = "claim_execution"
  <2>1. AppliedIf(ClaimExecutionAccepted(tx, cmd),
                  ApplyClaimExecution(tx, cmd), tx, ty)
    BY <1>1, <1>4, DispatchCases
  <2>2. CASE ~ClaimExecutionAccepted(tx, cmd)
    <3>1. ty = tx
      BY <2>1, <2>2 DEF AppliedIf
    <3> HIDE DEF ty, x
    <3> QED
      BY <1>4, <2>2, <3>1, RowsUntouched DEF Ends, Adopts
  <2>3. CASE ClaimExecutionAccepted(tx, cmd)
    <3>1. cmd.id \notin Executions(tx)
      BY <1>4, <2>3, ReplayedClaimIsRefused DEF Sound
    <3>2. cmd.id \in ExecutionIDs /\ cmd.ownerNodeID \in Nodes
      BY <1>1, <1>4 DEF CommandSets
    <3> DEFINE row == [scheduleID |-> cmd.scheduleID, scheduledFor |-> cmd.scheduledFor,
                       ownerNodeID |-> cmd.ownerNodeID,
                       status |-> "in_flight", attemptCount |-> 0,
                       lastAttemptID |-> Nil, lastRetryAt |-> Nil]
    <3>3. ty = [tx EXCEPT !.executions[cmd.id] = row]
      BY <2>1, <2>3 DEF AppliedIf, ApplyClaimExecution
    <3>4. /\ SameOccurrence(row, cmd) /\ row.status = "in_flight"
          /\ row.ownerNodeID = cmd.ownerNodeID
      BY DEF SameOccurrence
    <3>5. row # Nil
      <4>1. row \in Execution
        <5>1. lg[i] \in Entries(cfg)
          BY DEF LogSound
        <5>2. x.proposedAt \in Nat /\ cmd.scheduleID \in ScheduleIDs /\ cmd.scheduledFor \in Int
          BY <1>1, <1>4, <5>1 DEF Entries, CommandSets
        <5> QED
          BY <3>2, <5>2 DEF Execution
      <4> QED
        BY <1>0, <4>1
    <3> HIDE DEF ty, x, row
    <3>6. ty.executions = [tx.executions EXCEPT ![cmd.id] = row]
      BY <1>0, <3>3 DEF Database
    <3>7. /\ Executions(ty) = Executions(tx) \cup {cmd.id}
          /\ \A f \in Executions(tx) : ty.executions[f] = tx.executions[f]
          /\ ty.executions[cmd.id] = row
      BY <1>0, <3>1, <3>2, <3>5, <3>6 DEF Executions
    <3>8. \A e \in ExecutionIDs : e \in Executions(ty) \ Executions(tx) <=>
             About(x, "claim_execution", e) /\ ClaimExecutionAccepted(tx, x.cmd)
      BY <1>4, <2>3, <3>1, <3>7 DEF About
    <3>9. \A e \in Executions(ty) \ Executions(tx) : ty.executions[e] = row
      BY <3>7
    <3>10. \A e, m : ~Ends(x, e) /\ ~Adopts(x, e, m)
      BY <1>4 DEF Ends, Adopts
    <3> QED
      BY <3>4, <3>7, <3>8, <3>9, <3>10 DEF ExecutionsAfter, SameOccurrence
  <2> QED
    BY <2>2, <2>3
<1>5. CASE x.type = "adopt_execution"
  <2>1. AppliedIf(AdoptExecutionAccepted(tx, cmd), ApplyAdoptExecution(tx, cmd), tx, ty)
    BY <1>1, <1>5, DispatchCases
  <2>2. /\ cmd.executionID \in ExecutionIDs /\ cmd.previousOwner \in Nodes
        /\ cmd.newOwner \in Nodes
    BY <1>1, <1>5 DEF CommandSets
  <2>3. \A f : ~Ends(x, f) /\ \A m : Adopts(x, f, m) => f = cmd.executionID
    BY <1>5 DEF Ends, Adopts
  <2> HIDE DEF ty, x
  <2>4. CASE ~AdoptExecutionAccepted(tx, cmd)
    <3>1. ty.executions = tx.executions
      BY <2>1, <2>4 DEF AppliedIf
    <3>2. \A e \in Executions(tx) :
             InFlight(tx, e) /\ Adopts(x, e, tx.executions[e].ownerNodeID)
                => cmd.newOwner = tx.executions[e].ownerNodeID
      BY <1>0, <2>2, <2>4 DEF AdoptExecutionAccepted, InFlight, Adopts, Executions
    <3> QED
      BY <1>5, <2>3, <3>1, <3>2, RowsUntouched
  <2>5. CASE AdoptExecutionAccepted(tx, cmd)
    <3> DEFINE e == cmd.executionID
               row == [tx.executions[e] EXCEPT !.ownerNodeID = cmd.newOwner]
    <3>1. /\ e \in Executions(tx) /\ tx.executions[e].status = "in_flight"
          /\ tx.executions[e].ownerNodeID = cmd.previousOwner
      BY <2>2, <2>5 DEF AdoptExecutionAccepted, Executions
    <3>2. /\ row \in Execution /\ SameOccurrence(row, tx.executions[e])
          /\ row.status = tx.executions[e].status /\ row.ownerNodeID = cmd.newOwner
      BY <1>0, <2>2, <3>1 DEF Execution, SameOccurrence
    <3>3. ty = [tx EXCEPT !.executions[e] = row]
      BY <2>1, <2>5 DEF AppliedIf, ApplyAdoptExecution
    <3>4. InFlight(tx, e) /\ Adopts(x, e, tx.executions[e].ownerNodeID)
      BY <1>5, <3>1 DEF InFlight, Adopts
    <3> HIDE DEF row, e
    <3>5. ty.executions = [tx.executions EXCEPT ![e] = row]
      BY <1>0, <3>3 DEF Database
    <3> QED
      BY <1>0, <1>5, <2>3, <3>1, <3>2, <3>4, <3>5, RowRewritten DEF e
  <2> QED
    BY <2>4, <2>5
<1>6. CASE x.type = "record_attempt"
  <2>1. AppliedIf(RecordAttemptAccepted(tx, cmd), ApplyRecordAttempt(tx, cmd), tx, ty)
    BY <1>1, <1>6, DispatchCases
  <2>2. \A f, m : ~Ends(x, f) /\ ~Adopts(x, f, m)
    BY <1>6 DEF Ends, Adopts
  <2>3. cmd.executionID \in ExecutionIDs /\ cmd.id \in AttemptIDs /\ cmd.retryAt \in Nat
    BY <1>1, <1>6 DEF CommandSets
  <2> HIDE DEF ty, x
  <2>4. CASE ~RecordAttemptAccepted(tx, cmd)
    <3>1. ty.executions = tx.executions
      BY <2>1, <2>4 DEF AppliedIf
    <3> QED
      BY <1>6, <2>2, <3>1, RowsUntouched
  <2>5. CASE RecordAttemptAccepted(tx, cmd)
    <3> DEFINE e == cmd.executionID
               number == tx.executions[e].attemptCount + 1
               new == [executionID |-> e, nodeID |-> cmd.nodeID, attemptNumber |-> number,
                       outcome |-> cmd.outcome, retryAt |-> cmd.retryAt]
               row == [tx.executions[e] EXCEPT !.attemptCount = number,
                                               !.lastAttemptID = cmd.id,
                                               !.lastRetryAt = cmd.retryAt]
    <3>1. e \in Executions(tx)
      BY <2>3, <2>5 DEF RecordAttemptAccepted, Executions
    <3>2. /\ row \in Execution /\ SameOccurrence(row, tx.executions[e])
          /\ row.status = tx.executions[e].status
          /\ row.ownerNodeID = tx.executions[e].ownerNodeID
      <4>1. number \in Nat
        BY <1>0, <3>1 DEF Execution
      <4> HIDE DEF number
      <4> QED
        BY <1>0, <2>3, <3>1, <4>1 DEF Execution, SameOccurrence
    <3>3. ty = [tx EXCEPT !.attempts[cmd.id] = new, !.executions[e] = row]
      BY <2>1, <2>5 DEF AppliedIf, ApplyRecordAttempt
    <3> HIDE DEF row, new, e
    <3>4. ty.executions = [tx.executions EXCEPT ![e] = row]
      BY <1>0, <3>3 DEF Database
    <3> QED
      BY <1>0, <1>6, <2>2, <3>1, <3>2, <3>4, RowRewritten
  <2> QED
    BY <2>4, <2>5
<1>7. CASE x.type \in {"complete_execution", "fail_execution_timeout"}
  <2> DEFINE e == cmd.executionID
             ended == FinalStatus(x)
  <2>1. e \in ExecutionIDs /\ ended \in TerminalStatuses
    BY <1>7, EndsApplied
  <2>2. /\ AppliedIf(EndExecutionAccepted(tx, e), EndExecution(tx, e, ended), tx, ty)
        /\ EndExecutionAccepted(tx, e) <=> InFlight(tx, e)
    BY <1>7, EndsApplied
  <2>3. \A f, m : (Ends(x, f) <=> f = e) /\ ~Adopts(x, f, m)
    BY <1>7 DEF Ends, Adopts
  <2> HIDE DEF ty, x, ended
  <2>4. CASE ~EndExecutionAccepted(tx, e)
    <3>1. ty.executions = tx.executions
      BY <2>2, <2>4 DEF AppliedIf
    <3> QED
      BY <1>7, <2>2, <2>3, <2>4, <3>1, RowsUntouched
  <2>5. CASE EndExecutionAccepted(tx, e)
    <3> DEFINE row == [tx.executions[e] EXCEPT !.status = ended, !.ownerNodeID = Nil]
               s == tx.executions[e].scheduleID
               sched == AfterExecution(tx.schedules[s], tx.executions[e].scheduledFor)
    <3>1. e \in Executions(tx) /\ InFlight(tx, e)
      BY <2>2, <2>5 DEF InFlight
    <3>2. /\ row \in Execution /\ SameOccurrence(row, tx.executions[e])
          /\ row.status = ended /\ row.ownerNodeID = Nil
      BY <1>0, <2>1, <3>1 DEF Execution, SameOccurrence
    <3>3. ty = [tx EXCEPT !.executions[e] = row, !.schedules[s] = sched]
      BY <2>2, <2>5 DEF AppliedIf, EndExecution
    <3> HIDE DEF row, sched
    <3>4. ty.executions = [tx.executions EXCEPT ![e] = row]
      BY <1>0, <3>3 DEF Database
    <3> HIDE DEF e
    <3> QED
      BY <1>0, <1>7, <2>3, <3>1, <3>2, <3>4, RowRewritten DEF ended
  <2> QED
    BY <2>4, <2>5
<1> QED
  BY <1>1, <1>2, <1>3, <1>4, <1>5, <1>6, <1>7 DEF EntryTypes

ScheduleEntries ==
    {"create_schedule", "update_schedule", "pause_schedule", "cancel_schedule",
     "resume_schedule"}

(* A row no entry is about. *)
LEMMA RowKept ==
    ASSUME NEW tx, NEW x, NEW cfg, NEW s, NEW old,
           \A type \in ScheduleEntries : ~About(x, type, s),
           \A e \in ExecutionsOf(tx, s) : ~(InFlight(tx, e) /\ Ends(x, e))
    PROVE  RowAfter(tx, x, cfg, s, old, old)
BY DEF RowAfter, ScheduleEntries, EndsOne

(* An entry about schedule s writes its row, if it writes one. *)
LEMMA RowWritten ==
    ASSUME NEW tx \in Database, NEW x, NEW cfg, NEW s \in ScheduleIDs, NEW row, NEW ty,
           ty.schedules = [tx.schedules EXCEPT ![s] = row],
           x.type \in ScheduleEntries, x.cmd.id = s,
           RowAfter(tx, x, cfg, s, tx.schedules[s], row)
    PROVE  SchedulesAfter(tx, x, ty, cfg)
<1>1. \A z \in ScheduleIDs : ty.schedules[z] = IF z = s THEN row ELSE tx.schedules[z]
  BY DEF Database
<1>2. ASSUME NEW z \in ScheduleIDs, z # s
      PROVE  RowAfter(tx, x, cfg, z, tx.schedules[z], ty.schedules[z])
  <2>1. \A e : ~Ends(x, e)
    BY DEF Ends, ScheduleEntries
  <2>2. \A type \in ScheduleEntries : ~About(x, type, z)
    BY <1>2 DEF About
  <2>3. ty.schedules[z] = tx.schedules[z]
    BY <1>1, <1>2
  <2> QED
    BY <2>1, <2>2, <2>3, RowKept
<1> QED
  BY <1>1, <1>2 DEF SchedulesAfter

LEMMA SchedulesWritten ==
    ASSUME NEW lg, NEW cfg \in ScheduleConfig, LogSound(lg, cfg),
           NEW tx, Sound(tx, lg, cfg), NEW i \in DOMAIN lg
    PROVE  SchedulesAfter(tx, lg[i], Dispatch(tx, lg[i]), cfg)
<1> DEFINE x == lg[i]
           cmd == x.cmd
           s == cmd.id
           old == tx.schedules[s]
           ty == Dispatch(tx, x)
<1>0. /\ tx \in Database /\ Nil \notin Schedule /\ Nil \notin Int
      /\ tx.schedules \in [ScheduleIDs -> Schedule \cup {Nil}]
  BY NilAssumption DEF Sound, Database
<1>1. x.type \in EntryTypes /\ cmd \in CommandSets(cfg)[x.type]
  BY EntryAt
<1>2. \A z \in ScheduleIDs : tx.schedules[z] # Nil =>
         tx.schedules[z] \in Schedule /\ tx.schedules[z].config = cfg
  BY <1>0 DEF Sound, SchedulesSound, RowSound
<1> SUFFICES SchedulesAfter(tx, x, ty, cfg)
  OBVIOUS
<1>3. CASE x.type \in ScheduleEntries
  <2>1. s \in ScheduleIDs
    <3>1. CASE x.type = "create_schedule"
      BY <1>1, <3>1 DEF CommandSets
    <3>2. CASE x.type = "update_schedule"
      BY <1>1, <3>2 DEF CommandSets
    <3>3. CASE x.type = "pause_schedule"
      BY <1>1, <3>3 DEF CommandSets
    <3>4. CASE x.type = "cancel_schedule"
      BY <1>1, <3>4 DEF CommandSets
    <3>5. CASE x.type = "resume_schedule"
      BY <1>1, <3>5 DEF CommandSets
    <3> QED
      BY <1>3, <3>1, <3>2, <3>3, <3>4, <3>5 DEF ScheduleEntries
  <2>2. \A e : ~Ends(x, e)
    BY <1>3 DEF Ends, ScheduleEntries
  <2>3. old # Nil => old \in Schedule /\ old.config = cfg
    BY <1>2, <2>1
  <2>4. ASSUME NEW row, ty = [tx EXCEPT !.schedules[s] = row],
               RowAfter(tx, x, cfg, s, old, row)
        PROVE  SchedulesAfter(tx, x, ty, cfg)
    <3>1. ty.schedules = [tx.schedules EXCEPT ![s] = row]
      BY <1>0, <2>4 DEF Database
    <3> HIDE DEF x, ty
    <3> QED
      BY <1>0, <1>3, <2>1, <2>4, <3>1, RowWritten
  <2>5. ASSUME ty = tx, RowAfter(tx, x, cfg, s, old, old)
        PROVE  SchedulesAfter(tx, x, ty, cfg)
    <3>1. ty.schedules = [tx.schedules EXCEPT ![s] = old]
      BY <1>0, <2>5
    <3> HIDE DEF x, ty
    <3> QED
      BY <1>0, <1>3, <2>1, <2>5, <3>1, RowWritten
  <2>6. CASE x.type = "create_schedule"
    <3>1. AppliedIf(CreateScheduleAccepted(tx, cmd), ApplyCreateSchedule(tx, cmd), tx, ty)
      BY <1>1, <2>6, DispatchCases
    <3>2. cmd.config = cfg /\ cfg.firstRunAt \in Nat
      BY <1>1, <2>6 DEF CommandSets, ScheduleConfig
    <3> DEFINE row == [config |-> cfg, maxAttempts |-> cmd.maxAttempts,
                       status |-> "active", nextRunAt |-> cfg.firstRunAt]
    <3>3. ApplyCreateSchedule(tx, cmd) = [tx EXCEPT !.schedules[s] = row]
      <4>1. computeIntervalOnOrAfter(cfg.firstRunAt, cfg.seconds, cfg.firstRunAt)
              = cfg.firstRunAt
        BY <3>2, OnOrAfterFirst
      <4> QED
        BY <3>2, <4>1 DEF ApplyCreateSchedule
    <3>4. CASE old = Nil /\ HasInterval(cfg)
      <4>1. ty = [tx EXCEPT !.schedules[s] = row]
        BY <3>1, <3>2, <3>3, <3>4 DEF AppliedIf, CreateScheduleAccepted
      <4>2. row \in Schedule /\ row # Nil
        <5>1. cmd.maxAttempts \in Nat
          BY <1>1, <2>6 DEF CommandSets
        <5> QED
          BY <1>0, <3>2, <3>4, <5>1 DEF Schedule, ScheduleStatuses
      <4>3. RowAfter(tx, x, cfg, s, old, row)
        BY <2>6, <3>4, <4>2 DEF RowAfter, About
      <4> QED
        BY <2>4, <4>1, <4>3
    <3>5. CASE old # Nil \/ ~HasInterval(cfg)
      <4>1. ty = tx
        BY <3>1, <3>2, <3>5 DEF AppliedIf, CreateScheduleAccepted
      <4>2. RowAfter(tx, x, cfg, s, old, old)
        BY <2>2, <2>6, <3>5 DEF RowAfter, About, EndsOne
      <4> QED
        BY <2>5, <4>1, <4>2
    <3> QED
      BY <3>4, <3>5
  <2>7. CASE x.type = "update_schedule"
    <3>1. AppliedIf(UpdateScheduleAccepted(tx, cmd), ApplyUpdateSchedule(tx, cmd), tx, ty)
      BY <1>1, <2>7, DispatchCases
    <3> DEFINE row == [old EXCEPT !.maxAttempts = cmd.maxAttempts]
    <3>2. CASE UpdateScheduleAccepted(tx, cmd)
      <4>1. ty = [tx EXCEPT !.schedules[s] = row]
        BY <3>1, <3>2 DEF AppliedIf, ApplyUpdateSchedule
      <4>2. old # Nil /\ old.status # "canceled" /\ old \in Schedule
        BY <2>3, <3>2 DEF UpdateScheduleAccepted
      <4>3. /\ row \in Schedule /\ row.maxAttempts = cmd.maxAttempts
            /\ row.status = old.status /\ row.nextRunAt = old.nextRunAt
        <5>1. cmd.maxAttempts \in Nat
          BY <1>1, <2>7 DEF CommandSets
        <5> QED
          BY <4>2, <5>1 DEF Schedule
      <4> HIDE DEF row
      <4>4. RowAfter(tx, x, cfg, s, old, row)
        BY <1>0, <2>2, <2>7, <4>2, <4>3 DEF RowAfter, About, EndsOne
      <4> QED
        BY <2>4, <4>1, <4>4
    <3>3. CASE ~UpdateScheduleAccepted(tx, cmd)
      <4>1. ty = tx
        BY <3>1, <3>3 DEF AppliedIf
      <4>2. RowAfter(tx, x, cfg, s, old, old)
        BY <2>2, <2>7, <3>3 DEF RowAfter, About, EndsOne, UpdateScheduleAccepted
      <4> QED
        BY <2>5, <4>1, <4>2
    <3> QED
      BY <3>2, <3>3
  <2>8. CASE x.type = "pause_schedule"
    <3>1. AppliedIf(PauseScheduleAccepted(tx, cmd), ApplyPauseSchedule(tx, cmd), tx, ty)
      BY <1>1, <2>8, DispatchCases
    <3> DEFINE row == IF old.status = "paused" THEN old
                      ELSE [old EXCEPT !.status = "paused", !.nextRunAt = Nil]
    <3>2. CASE PauseScheduleAccepted(tx, cmd)
      <4>1. ty = [tx EXCEPT !.schedules[s] = row]
        BY <3>1, <3>2 DEF AppliedIf, ApplyPauseSchedule
      <4>2. old # Nil /\ old.status \in {"active", "paused"} /\ old \in Schedule
        BY <2>3, <3>2 DEF PauseScheduleAccepted
      <4>3. /\ row \in Schedule /\ row.maxAttempts = old.maxAttempts
            /\ row.status = "paused"
        BY <4>2 DEF Schedule, ScheduleStatuses
      <4> HIDE DEF row
      <4>4. RowAfter(tx, x, cfg, s, old, row)
        BY <1>0, <2>2, <2>8, <4>2, <4>3 DEF RowAfter, About, EndsOne
      <4> QED
        BY <2>4, <4>1, <4>4
    <3>3. CASE ~PauseScheduleAccepted(tx, cmd)
      <4>1. ty = tx
        BY <3>1, <3>3 DEF AppliedIf
      <4>2. RowAfter(tx, x, cfg, s, old, old)
        BY <2>2, <2>8, <3>3 DEF RowAfter, About, EndsOne, PauseScheduleAccepted
      <4> QED
        BY <2>5, <4>1, <4>2
    <3> QED
      BY <3>2, <3>3
  <2>9. CASE x.type = "cancel_schedule"
    <3>1. AppliedIf(CancelScheduleAccepted(tx, cmd), ApplyCancelSchedule(tx, cmd), tx, ty)
      BY <1>1, <2>9, DispatchCases
    <3> DEFINE row == IF old.status \in {"canceled", "completed"} THEN old
                      ELSE [old EXCEPT !.status = "canceled", !.nextRunAt = Nil]
    <3>2. CASE CancelScheduleAccepted(tx, cmd)
      <4>1. ty = [tx EXCEPT !.schedules[s] = row]
        BY <3>1, <3>2 DEF AppliedIf, ApplyCancelSchedule
      <4>2. old # Nil /\ old \in Schedule
        BY <2>3, <3>2 DEF CancelScheduleAccepted
      <4>3. /\ row \in Schedule /\ row.maxAttempts = old.maxAttempts
            /\ row.status = IF old.status \in {"active", "paused"} THEN "canceled"
                            ELSE old.status
            /\ row.status # "active"
        BY <4>2 DEF Schedule, ScheduleStatuses
      <4> HIDE DEF row
      <4>4. RowAfter(tx, x, cfg, s, old, row)
        BY <1>0, <2>2, <2>9, <4>2, <4>3 DEF RowAfter, About, EndsOne
      <4> QED
        BY <2>4, <4>1, <4>4
    <3>3. CASE ~CancelScheduleAccepted(tx, cmd)
      <4>1. ty = tx
        BY <3>1, <3>3 DEF AppliedIf
      <4>2. RowAfter(tx, x, cfg, s, old, old)
        BY <2>2, <2>9, <3>3 DEF RowAfter, About, EndsOne, CancelScheduleAccepted
      <4> QED
        BY <2>5, <4>1, <4>2
    <3> QED
      BY <3>2, <3>3
  <2>10. CASE x.type = "resume_schedule"
    <3>1. AppliedIf(ResumeScheduleAccepted(tx, cmd),
                    ApplyResumeSchedule(tx, cmd, x.proposedAt), tx, ty)
      BY <1>1, <2>10, DispatchCases
    <3> DEFINE next == ResumedNextRun(tx, s, x.proposedAt)
               row == IF old.status = "active" THEN old
                      ELSE [old EXCEPT !.status = "active", !.nextRunAt = next]
    <3>2. CASE ResumeScheduleAccepted(tx, cmd)
      <4>1. ty = [tx EXCEPT !.schedules[s] = row]
        BY <3>1, <3>2 DEF AppliedIf, ApplyResumeSchedule
      <4>2. old # Nil /\ old.status \in {"active", "paused"} /\ old \in Schedule
        BY <2>3, <3>2 DEF ResumeScheduleAccepted
      <4>3. CatchesUp(cfg) => next = Due(tx, s, cfg)
        <5>1. computeIntervalOnOrAfter(cfg.firstRunAt, cfg.seconds, cfg.firstRunAt)
                = cfg.firstRunAt
          BY OnOrAfterFirst DEF ScheduleConfig
        <5>2. old.config = cfg
          BY <2>3, <4>2
        <5>3. ASSUME CatchesUp(cfg)
              PROVE  next = IF findMostRecentTerminalExecution(tx, s) = Nil
                            THEN computeIntervalOnOrAfter(cfg.firstRunAt, cfg.seconds,
                                                          cfg.firstRunAt)
                            ELSE computeIntervalAfter(cfg.firstRunAt, cfg.seconds,
                                        findMostRecentTerminalExecution(tx, s))
          <6>1. cfg.scheduleType # "once" /\ cfg.catchUpPolicy = "catch_up_all"
            BY <5>3 DEF CatchesUp
          <6> QED
            BY <5>2, <6>1, CatchUpAllNextRun
        <5> QED
          BY <5>1, <5>3 DEF Due
      <4> HIDE DEF next
      <4>4. /\ row.maxAttempts = old.maxAttempts /\ row.status = "active"
            /\ row.nextRunAt = IF old.status = "active" THEN old.nextRunAt ELSE next
        BY <4>2 DEF Schedule
      <4>5. row # Nil
        <5>1. next \in Int \cup {Nil}
          <6>1. lg[i] \in Entries(cfg)
            BY DEF LogSound
          <6>2. x.proposedAt \in Nat
            BY <6>1 DEF Entries
          <6> QED
            BY <1>0, <2>1, <4>2, <6>2, ResumedNextRunType DEF next, Sound
        <5>2. row \in Schedule
          BY <4>2, <5>1 DEF Schedule, ScheduleStatuses
        <5> QED
          BY <1>0, <5>2
      <4> HIDE DEF row
      <4>6. RowAfter(tx, x, cfg, s, old, row)
        BY <2>2, <2>10, <4>2, <4>3, <4>4, <4>5 DEF RowAfter, About, EndsOne
      <4> QED
        BY <2>4, <4>1, <4>6
    <3>3. CASE ~ResumeScheduleAccepted(tx, cmd)
      <4>1. ty = tx
        BY <3>1, <3>3 DEF AppliedIf
      <4>2. RowAfter(tx, x, cfg, s, old, old)
        BY <2>2, <2>10, <3>3 DEF RowAfter, About, EndsOne, ResumeScheduleAccepted
      <4> QED
        BY <2>5, <4>1, <4>2
    <3> QED
      BY <3>2, <3>3
  <2> QED
    BY <1>3, <2>6, <2>7, <2>8, <2>9, <2>10 DEF ScheduleEntries
<1>4. ASSUME x.type \notin ScheduleEntries, ty.schedules = tx.schedules,
             \A e \in Executions(tx) : ~(InFlight(tx, e) /\ Ends(x, e))
      PROVE  SchedulesAfter(tx, x, ty, cfg)
  <2>1. \A z : \A type \in ScheduleEntries : ~About(x, type, z)
    BY <1>4 DEF About
  <2>2. \A z : \A e \in ExecutionsOf(tx, z) : ~(InFlight(tx, e) /\ Ends(x, e))
    BY <1>4 DEF ExecutionsOf
  <2> HIDE DEF ty, x
  <2> QED
    BY <1>4, <2>1, <2>2, RowKept DEF SchedulesAfter
<1>5. CASE x.type \in {"create_tenant", "claim_execution", "adopt_execution",
                       "record_attempt"}
  <2>1. ty.schedules = tx.schedules
    <3>1. CASE x.type = "create_tenant"
      <4>1. AppliedIf(CreateTenantAccepted(tx, cmd.id), ApplyCreateTenant(tx, cmd.id), tx, ty)
        BY <1>1, <3>1, DispatchCases
      <4> HIDE DEF ty, x
      <4> QED
        BY <1>0, <4>1 DEF AppliedIf, ApplyCreateTenant, Database
    <3>2. CASE x.type = "claim_execution"
      <4>1. AppliedIf(ClaimExecutionAccepted(tx, cmd),
                      ApplyClaimExecution(tx, cmd), tx, ty)
        BY <1>1, <3>2, DispatchCases
      <4> HIDE DEF ty, x
      <4> QED
        BY <1>0, <4>1 DEF AppliedIf, ApplyClaimExecution, Database
    <3>3. CASE x.type = "adopt_execution"
      <4>1. AppliedIf(AdoptExecutionAccepted(tx, cmd), ApplyAdoptExecution(tx, cmd), tx, ty)
        BY <1>1, <3>3, DispatchCases
      <4> HIDE DEF ty, x
      <4> QED
        BY <1>0, <4>1 DEF AppliedIf, ApplyAdoptExecution, Database
    <3>4. CASE x.type = "record_attempt"
      <4>1. AppliedIf(RecordAttemptAccepted(tx, cmd), ApplyRecordAttempt(tx, cmd), tx, ty)
        BY <1>1, <3>4, DispatchCases
      <4> HIDE DEF ty, x
      <4> QED
        BY <1>0, <4>1 DEF AppliedIf, ApplyRecordAttempt, Database
    <3> QED
      BY <1>5, <3>1, <3>2, <3>3, <3>4
  <2>2. x.type \notin ScheduleEntries /\ \A e : ~Ends(x, e)
    BY <1>5 DEF ScheduleEntries, Ends
  <2> QED
    BY <1>4, <2>1, <2>2
<1>6. CASE x.type \in {"complete_execution", "fail_execution_timeout"}
  <2> DEFINE e == cmd.executionID
             ended == FinalStatus(x)
             ex == tx.executions[e]
  <2>1. AppliedIf(EndExecutionAccepted(tx, e), EndExecution(tx, e, ended), tx, ty)
    BY <1>6, EndsApplied
  <2>2. (\A f : Ends(x, f) <=> f = e) /\ x.type \notin ScheduleEntries
    BY <1>6 DEF Ends, ScheduleEntries
  <2>3. EndExecutionAccepted(tx, e) <=> InFlight(tx, e)
    BY <1>6, EndsApplied
  <2> HIDE DEF ended
  <2>4. CASE ~EndExecutionAccepted(tx, e)
    <3>1. ty.schedules = tx.schedules
      BY <2>1, <2>4 DEF AppliedIf
    <3> QED
      BY <1>4, <2>2, <2>3, <2>4, <3>1
  <2>5. CASE EndExecutionAccepted(tx, e)
    <3> DEFINE z0 == ex.scheduleID
               row == AfterExecution(tx.schedules[z0], ex.scheduledFor)
               exrow == [ex EXCEPT !.status = ended, !.ownerNodeID = Nil]
    <3>1. ty = [tx EXCEPT !.executions[e] = exrow, !.schedules[z0] = row]
      BY <2>1, <2>5 DEF AppliedIf, EndExecution
    <3>2. /\ InFlight(tx, e) /\ e \in ExecutionsOf(tx, z0) /\ z0 \in ScheduleIDs
          /\ tx.schedules[z0] # Nil
      BY <1>0, <2>3, <2>5
         DEF InFlight, ExecutionsOf, Executions, Database, Execution, EndExecutionAccepted
    <3>3. tx.schedules[z0] \in Schedule /\ tx.schedules[z0].config = cfg
      BY <1>2, <3>2
    <3>4. /\ row.maxAttempts = tx.schedules[z0].maxAttempts
          /\ row.status = IF cfg.scheduleType # "recurring" THEN "completed"
                          ELSE tx.schedules[z0].status
          /\ cfg.scheduleType = "recurring" /\ tx.schedules[z0].status = "active" =>
               row.nextRunAt = computeIntervalAfter(cfg.firstRunAt, cfg.seconds, ex.scheduledFor)
      BY <3>3 DEF AfterExecution, Schedule
    <3>5. row \in Schedule /\ row # Nil
      <4>1. ex.scheduledFor \in Int
        BY <1>0, <3>2 DEF ExecutionsOf, Executions, Database, Execution
      <4> QED
        BY <1>0, <3>3, <4>1, AfterExecutionType
    <3> HIDE DEF row, exrow, ty, x
    <3>6. ty.schedules = [tx.schedules EXCEPT ![z0] = row]
      BY <1>0, <3>1 DEF Database
    <3>7. \A z \in ScheduleIDs :
             /\ \A type \in ScheduleEntries : ~About(x, type, z)
             /\ \A f \in ExecutionsOf(tx, z) : InFlight(tx, f) /\ Ends(x, f) => z = z0 /\ f = e
      BY <2>2 DEF About, ExecutionsOf
    <3>8. EndsOne(tx, x, z0)
      BY <2>2, <3>2 DEF EndsOne
    <3>9. RowAfter(tx, x, cfg, z0, tx.schedules[z0], row)
      <4>1. \A type \in ScheduleEntries : ~About(x, type, z0)
        BY <3>2, <3>7
      <4>2. ~About(x, "update_schedule", z0) /\ ~About(x, "pause_schedule", z0)
            /\ ~About(x, "resume_schedule", z0) /\ ~About(x, "cancel_schedule", z0)
        BY <4>1 DEF ScheduleEntries
      <4>3. \A f \in ExecutionsOf(tx, z0) : InFlight(tx, f) /\ Ends(x, f) => f = e
        BY <3>2, <3>7
      <4>4. CatchesUp(cfg) => cfg.scheduleType = "recurring"
        BY DEF CatchesUp
      <4> HIDE DEF z0, e
      <4> QED
        BY <3>2, <3>4, <3>5, <3>8, <4>2, <4>3, <4>4 DEF RowAfter
    <3>10. \A z \in ScheduleIDs : ty.schedules[z] = IF z = z0 THEN row ELSE tx.schedules[z]
      BY <1>0, <3>6
    <3>11. ASSUME NEW z \in ScheduleIDs, z # z0
           PROVE  RowAfter(tx, x, cfg, z, tx.schedules[z], ty.schedules[z])
      BY <3>7, <3>10, <3>11, RowKept
    <3> QED
      BY <3>9, <3>10, <3>11 DEF SchedulesAfter
  <2> QED
    BY <2>4, <2>5
<1> QED
  BY <1>1, <1>3, <1>5, <1>6 DEF EntryTypes, ScheduleEntries
-----------------------------------------------------------------------------
(* The databases of one pass. *)

(* A set of natural numbers has a least one. *)
LEMMA HasLeast ==
    ASSUME NEW S, S \subseteq Nat, S # {}
    PROVE  \E m \in S : \A k \in S : m <= k
<1> DEFINE R == OpToRel(<, Nat)
<1>1. IsWellFoundedOn(R, Nat)
  BY NatLessThanWellFounded
<1>2. \A x, y \in Nat : y < x => <<y, x>> \in R
  BY DEF OpToRel
<1> HIDE DEF R
<1>3. PICK m \in S : \A k \in S : ~(<<k, m>> \in R)
  BY <1>1, WFMin
<1>4. \A k \in S : k \in Nat /\ m \in Nat /\ ~(k < m)
  BY <1>2, <1>3, Zenon
<1> QED
  BY <1>4

(* What holds at i and is handed on from each number to the next holds at j. *)
LEMMA Onwards ==
    ASSUME NEW S, NEW i \in Nat, NEW j \in Nat, i <= j, i \in S,
           \A k \in i..(j - 1) : k \in S => k + 1 \in S
    PROVE  j \in S
<1> DEFINE Out == {k \in Nat : k >= i /\ k <= j /\ k \notin S}
<1> SUFFICES ASSUME j \notin S PROVE FALSE
  OBVIOUS
<1>1. j \in Out /\ Out \subseteq Nat
  OBVIOUS
<1>2. PICK m \in Out : \A k \in Out : m <= k
  <2> HIDE DEF Out
  <2> QED
    BY <1>1, HasLeast
<1>3. m # i /\ m - 1 \in i..(j - 1)
  BY <1>2
<1>4. m - 1 \in S
  BY <1>2, <1>3
<1> QED
  BY <1>2, <1>3, <1>4

LEMMA PassStep ==
    ASSUME NEW lg, NEW rf, NEW cfg \in ScheduleConfig, OnePass(lg, rf, cfg),
           NEW i \in DOMAIN lg
    PROVE  /\ i \in Nat /\ i \in DOMAIN rf /\ i + 1 \in DOMAIN rf
           /\ Sound(rf[i], lg, cfg) /\ Sound(rf[i + 1], lg, cfg)
           /\ ExecutionsAfter(rf[i], lg[i], rf[i + 1])
           /\ SchedulesAfter(rf[i], lg[i], rf[i + 1], cfg)
<1>1. i \in 1..Len(lg) /\ Len(lg) \in Nat /\ DOMAIN rf = 1..(Len(lg) + 1)
  BY DEF OnePass, LogSound
<1>2. i \in DOMAIN rf /\ i + 1 \in DOMAIN rf
  BY <1>1
<1>3. Sound(rf[i], lg, cfg) /\ Sound(rf[i + 1], lg, cfg) /\ LogSound(lg, cfg)
      /\ rf[i + 1] = Dispatch(rf[i], lg[i])
  BY <1>2 DEF OnePass
<1> QED
  BY <1>1, <1>2, <1>3, ExecutionsWritten, SchedulesWritten

(* Between two positions of a pass, every position is one of an entry. *)
LEMMA Positioned ==
    ASSUME NEW lg, NEW rf, NEW cfg, OnePass(lg, rf, cfg), NEW j \in DOMAIN rf
    PROVE  /\ j \in Nat /\ Len(lg) \in Nat /\ DOMAIN lg = 1..Len(lg)
           /\ DOMAIN rf = 1..(Len(lg) + 1)
           /\ \A i \in DOMAIN rf : i \in Nat
           /\ \A i \in DOMAIN rf : \A k \in i..(j - 1) : k \in DOMAIN lg
BY DEF OnePass, LogSound

LEMMA EndIsFinal ==
    ASSUME NEW lg, NEW cfg, LogSound(lg, cfg), NEW i \in DOMAIN lg, NEW e, Ends(lg[i], e)
    PROVE  FinalStatus(lg[i]) \in TerminalStatuses /\ FinalStatus(lg[i]) # "in_flight"
<1>1. lg[i].cmd \in CommandSets(cfg)[lg[i].type]
  BY EntryAt
<1>2. CASE lg[i].type = "complete_execution"
  BY <1>1, <1>2 DEF CommandSets, FinalStatus, TerminalStatuses
<1>3. CASE lg[i].type # "complete_execution"
  BY <1>3 DEF FinalStatus, TerminalStatuses
<1> QED
  BY <1>2, <1>3

(* An execution stays, for its occurrence, and once it has ended it has. *)
LEMMA ExecutionStays ==
    ASSUME NEW lg, NEW rf, NEW cfg \in ScheduleConfig, OnePass(lg, rf, cfg),
           NEW i \in DOMAIN rf, NEW j \in DOMAIN rf, i <= j, NEW e \in Executions(rf[i])
    PROVE  /\ e \in Executions(rf[j])
           /\ SameOccurrence(rf[j].executions[e], rf[i].executions[e])
           /\ ~InFlight(rf[i], e) => /\ ~InFlight(rf[j], e)
                                     /\ rf[j].executions[e].status = rf[i].executions[e].status
<1> DEFINE Kept(k) ==
              /\ e \in Executions(rf[k])
              /\ SameOccurrence(rf[k].executions[e], rf[i].executions[e])
              /\ ~InFlight(rf[i], e) => rf[k].executions[e].status = rf[i].executions[e].status
           S == {k \in Nat : Kept(k)}
<1>0. i \in Nat /\ j \in Nat /\ \A k \in i..(j - 1) : k \in DOMAIN lg
  BY Positioned
<1>1. i \in S
  BY <1>0 DEF SameOccurrence
<1>2. ASSUME NEW k \in i..(j - 1), Kept(k) PROVE Kept(k + 1)
  <2>1. ExecutionsAfter(rf[k], lg[k], rf[k + 1])
    BY <1>0, PassStep
  <2> QED
    BY <1>2, <2>1 DEF ExecutionsAfter, SameOccurrence, InFlight
<1>3. \A k \in i..(j - 1) : k \in S => k + 1 \in S
  BY <1>0, <1>2
<1> HIDE DEF S
<1>4. j \in S
  BY <1>0, <1>1, <1>3, Onwards
<1> QED
  BY <1>4 DEF S, InFlight

(* A schedule stays, and so does that it is canceled or completed. *)
LEMMA ScheduleStays ==
    ASSUME NEW lg, NEW rf, NEW cfg \in ScheduleConfig, OnePass(lg, rf, cfg),
           NEW i \in DOMAIN rf, NEW j \in DOMAIN rf, i <= j,
           NEW s \in ScheduleIDs, rf[i].schedules[s] # Nil
    PROVE  LET old == rf[i].schedules[s].status
               new == rf[j].schedules[s].status
           IN  /\ rf[j].schedules[s] # Nil
               /\ old \in {"canceled", "completed"} => new \in {"canceled", "completed"}
               /\ old = "completed" => new = "completed"
<1> DEFINE old == rf[i].schedules[s].status
           Kept(k) == LET new == rf[k].schedules[s].status
                      IN  /\ rf[k].schedules[s] # Nil
                          /\ old \in {"canceled", "completed"}
                               => new \in {"canceled", "completed"}
                          /\ old = "completed" => new = "completed"
           S == {k \in Nat : Kept(k)}
<1>0. i \in Nat /\ j \in Nat /\ \A k \in i..(j - 1) : k \in DOMAIN lg
  BY Positioned
<1>1. i \in S
  BY <1>0
<1>2. ASSUME NEW k \in i..(j - 1), Kept(k) PROVE Kept(k + 1)
  <2>1. RowAfter(rf[k], lg[k], cfg, s, rf[k].schedules[s], rf[k + 1].schedules[s])
    BY <1>0, PassStep DEF SchedulesAfter
  <2> QED
    BY <1>2, <2>1 DEF RowAfter
<1>3. \A k \in i..(j - 1) : k \in S => k + 1 \in S
  BY <1>0, <1>2
<1> HIDE DEF S
<1>4. j \in S
  BY <1>0, <1>1, <1>3, Onwards
<1> QED
  BY <1>4 DEF S

(* The status of a schedule that is neither canceled nor completed only changes   *)
(* when it is paused or resumed, *)
LEMMA StatusStays ==
    ASSUME NEW lg, NEW rf, NEW cfg \in ScheduleConfig, OnePass(lg, rf, cfg),
           NEW i \in DOMAIN rf, NEW j \in DOMAIN rf, i <= j,
           NEW s \in ScheduleIDs, rf[i].schedules[s] # Nil,
           rf[j].schedules[s].status \notin {"canceled", "completed"},
           \A k \in i..(j - 1) : ~Toggles(lg[k], s)
    PROVE  rf[j].schedules[s].status = rf[i].schedules[s].status
<1> DEFINE S == {k \in Nat : rf[k].schedules[s].status = rf[i].schedules[s].status}
<1>0. i \in Nat /\ j \in Nat /\ DOMAIN lg = 1..Len(lg) /\ DOMAIN rf = 1..(Len(lg) + 1)
      /\ Len(lg) \in Nat /\ \A k \in i..(j - 1) : k \in DOMAIN lg
  BY Positioned
<1>1. ASSUME NEW k \in i..(j - 1), k \in S PROVE k + 1 \in S
  <2>1. k \in DOMAIN rf /\ k + 1 \in DOMAIN rf /\ i <= k /\ k + 1 <= j
    BY <1>0
  <2>2. RowAfter(rf[k], lg[k], cfg, s, rf[k].schedules[s], rf[k + 1].schedules[s])
    BY <1>0, PassStep DEF SchedulesAfter
  <2>3. rf[k].schedules[s] # Nil
    BY <2>1, ScheduleStays
  <2>4. /\ rf[k + 1].schedules[s] # Nil
        /\ rf[k + 1].schedules[s].status \notin {"canceled", "completed"}
    <3>1. rf[k + 1].schedules[s] # Nil
      BY <2>2, <2>3 DEF RowAfter
    <3> QED
      BY <2>1, <3>1, ScheduleStays
  <2>5. ~About(lg[k], "pause_schedule", s) /\ ~About(lg[k], "resume_schedule", s)
    BY DEF Toggles
  <2>6. rf[k + 1].schedules[s].status = rf[k].schedules[s].status
    BY <2>2, <2>3, <2>4, <2>5 DEF RowAfter
  <2> QED
    BY <1>0, <1>1, <2>1, <2>6
<1>2. i \in S
  BY <1>0
<1> HIDE DEF S
<1>3. j \in S
  BY <1>0, <1>1, <1>2, Onwards
<1> QED
  BY <1>3 DEF S

(* and its attempt limit only when it is updated. *)
LEMMA LimitStays ==
    ASSUME NEW lg, NEW rf, NEW cfg \in ScheduleConfig, OnePass(lg, rf, cfg),
           NEW i \in DOMAIN rf, NEW j \in DOMAIN rf, i <= j,
           NEW s \in ScheduleIDs, rf[i].schedules[s] # Nil,
           \A k \in i..(j - 1) : ~About(lg[k], "update_schedule", s)
    PROVE  rf[j].schedules[s].maxAttempts = rf[i].schedules[s].maxAttempts
<1> DEFINE S == {k \in Nat : /\ rf[k].schedules[s] # Nil
                             /\ rf[k].schedules[s].maxAttempts = rf[i].schedules[s].maxAttempts}
<1>0. i \in Nat /\ j \in Nat /\ \A k \in i..(j - 1) : k \in DOMAIN lg
  BY Positioned
<1>1. ASSUME NEW k \in i..(j - 1), k \in S PROVE k + 1 \in S
  <2>1. RowAfter(rf[k], lg[k], cfg, s, rf[k].schedules[s], rf[k + 1].schedules[s])
    BY <1>0, PassStep DEF SchedulesAfter
  <2> QED
    BY <1>0, <1>1, <2>1 DEF RowAfter
<1>2. i \in S
  BY <1>0
<1> HIDE DEF S
<1>3. j \in S
  BY <1>0, <1>1, <1>2, Onwards
<1> QED
  BY <1>3 DEF S

(* Once a claim has been applied, its occurrence has an execution: its own, or    *)
(* the one it was refused for.                                                *)
LEMMA ClaimedAfter ==
    ASSUME NEW tx, NEW x, NEW ty, ExecutionsAfter(tx, x, ty),
           x.type = "claim_execution", x.cmd.id \in ExecutionIDs
    PROVE  \E f \in Executions(ty) : SameOccurrence(ty.executions[f], x.cmd)
<1>1. CASE ClaimExecutionAccepted(tx, x.cmd)
  <2>1. x.cmd.id \in Executions(ty) \ Executions(tx)
    BY <1>1 DEF ExecutionsAfter, About
  <2> QED
    BY <2>1 DEF ExecutionsAfter
<1>2. CASE ~ClaimExecutionAccepted(tx, x.cmd)
  <2>1. PICK f \in Executions(tx) : SameOccurrence(tx.executions[f], x.cmd)
    BY <1>2 DEF ClaimExecutionAccepted, ExecutionsOf, SameOccurrence
  <2>2. f \in Executions(ty) /\ SameOccurrence(ty.executions[f], tx.executions[f])
    BY DEF ExecutionsAfter
  <2> QED
    BY <2>1, <2>2 DEF SameOccurrence
<1> QED
  BY <1>1, <1>2

(* One entry of a replay: nothing is claimed and nothing ends, and the owners are  *)
(* on their way to those of the pass.                                         *)
LEMMA ExecutionsReplayStep ==
    ASSUME NEW lg, NEW rf, NEW cfg \in ScheduleConfig, OnePass(lg, rf, cfg),
           ProposedFrom(lg, rf, cfg), NEW tx, Sound(tx, lg, cfg),
           NEW p \in Nat, NEW q \in Nat, p < q, q <= Len(lg),
           ExecutionsReplayed(tx, lg, rf, p, q)
    PROVE  LET ty == Dispatch(tx, lg[p + 1])
           IN  /\ ExecutionsReplayed(ty, lg, rf, p + 1, q)
               /\ Executions(ty) = Executions(tx)
               /\ \A e \in Executions(tx) :
                    /\ SameOccurrence(ty.executions[e], tx.executions[e])
                    /\ ty.executions[e].status = tx.executions[e].status
                    /\ InFlight(tx, e) => ~Ends(lg[p + 1], e)
<1> DEFINE i == p + 1
           x == lg[i]
           ty == Dispatch(tx, x)
           now == rf[q + 1]
<1>1. /\ i \in DOMAIN lg /\ i \in Nat /\ i \in DOMAIN rf /\ i + 1 \in DOMAIN rf
      /\ q + 1 \in DOMAIN rf /\ i <= q + 1 /\ i + 1 <= q + 1
      /\ DOMAIN rf = 1..(Len(lg) + 1) /\ Len(lg) \in Nat /\ LogSound(lg, cfg)
  BY DEF OnePass, LogSound
<1>2. ExecutionsAfter(tx, x, ty)
  BY <1>1, ExecutionsWritten
<1>3. ExecutionsAfter(rf[i], x, rf[i + 1])
  BY <1>1, PassStep
<1>4. /\ Executions(tx) = Executions(now)
      /\ \A e \in Executions(tx) :
           /\ e \in ExecutionIDs
           /\ SameOccurrence(tx.executions[e], now.executions[e])
           /\ tx.executions[e].status = now.executions[e].status
           /\ InFlight(tx, e) => OwnerAhead(tx, lg, rf, e, p, q)
  BY DEF ExecutionsReplayed, Executions
<1> HIDE DEF ty, now, x, i
<1>5. ASSUME NEW e \in Executions(tx), InFlight(tx, e), Ends(x, e) PROVE FALSE
  <2>1. e \in Executions(rf[i])
    BY <1>1, <1>4, <1>5 DEF ProposedFrom, Proposable, x
  <2>2. FinalStatus(x) # "in_flight"
    BY <1>1, <1>5, EndIsFinal DEF x
  <2>3. e \in Executions(rf[i + 1]) /\ ~InFlight(rf[i + 1], e)
    BY <1>3, <1>5, <2>1, <2>2 DEF ExecutionsAfter, InFlight
  <2>4. ~InFlight(now, e)
    BY <1>1, <2>3, ExecutionStays DEF now
  <2> QED
    BY <1>4, <1>5, <2>4 DEF InFlight
<1>6. ASSUME NEW e \in ExecutionIDs, About(x, "claim_execution", e),
             ClaimExecutionAccepted(tx, x.cmd)
      PROVE  FALSE
  <2>1. x.type = "claim_execution" /\ x.cmd.id \in ExecutionIDs
    BY <1>6 DEF About
  <2>2. PICK f \in Executions(rf[i + 1]) : SameOccurrence(rf[i + 1].executions[f], x.cmd)
    BY <1>3, <2>1, ClaimedAfter
  <2>3. f \in Executions(now) /\ SameOccurrence(now.executions[f], rf[i + 1].executions[f])
    BY <1>1, ExecutionStays DEF now
  <2>4. f \in Executions(tx) /\ SameOccurrence(tx.executions[f], x.cmd)
    BY <1>4, <2>2, <2>3 DEF SameOccurrence
  <2> QED
    BY <1>6, <2>4 DEF SameOccurrence, ClaimExecutionAccepted, ExecutionsOf
<1>7. Executions(ty) = Executions(tx)
  <2>1. Executions(ty) \subseteq ExecutionIDs
    BY DEF Executions
  <2>2. Executions(tx) \subseteq Executions(ty)
    BY <1>2 DEF ExecutionsAfter
  <2>3. \A e \in ExecutionIDs : e \notin Executions(ty) \ Executions(tx)
    BY <1>2, <1>6 DEF ExecutionsAfter
  <2> QED
    BY <2>1, <2>2, <2>3
<1>8. \A e \in Executions(tx) :
         /\ SameOccurrence(ty.executions[e], tx.executions[e])
         /\ ty.executions[e].status = tx.executions[e].status
  BY <1>2, <1>5 DEF ExecutionsAfter
<1>9. ASSUME NEW e \in Executions(tx), InFlight(tx, e)
      PROVE  OwnerAhead(ty, lg, rf, e, i, q)
  <2> DEFINE owner == tx.executions[e].ownerNodeID
             new == ty.executions[e].ownerNodeID
  <2>1. PICK k \in p..q : /\ e \in Executions(rf[k + 1])
                          /\ rf[k + 1].executions[e].ownerNodeID = owner
                          /\ \A j \in (p + 1)..k : ~Adopts(lg[j], e, owner)
    BY <1>4, <1>9 DEF OwnerAhead
  <2>2. new = IF Adopts(x, e, owner) THEN x.cmd.newOwner ELSE owner
    BY <1>2, <1>5, <1>9 DEF ExecutionsAfter
  <2>3. CASE k # p
    <3>1. k \in i..q /\ i \in (p + 1)..k /\ i..k \subseteq Int
      BY <2>1, <2>3 DEF i
    <3>2. new = owner
      BY <2>1, <2>2, <3>1 DEF x
    <3>3. \A j \in (i + 1)..k : ~Adopts(lg[j], e, owner)
      BY <2>1, <3>1 DEF i
    <3> QED
      BY <2>1, <3>1, <3>2, <3>3 DEF OwnerAhead
  <2>4. CASE k = p
    <3>1. e \in Executions(rf[i]) /\ rf[i].executions[e].ownerNodeID = owner
      BY <2>1, <2>4 DEF i
    <3>2. InFlight(rf[i], e)
      <4>1. ~InFlight(rf[i], e) => ~InFlight(now, e)
        BY <1>1, <3>1, ExecutionStays DEF now
      <4> QED
        BY <1>4, <1>9, <4>1 DEF InFlight
    <3>3. ~Ends(x, e)
      BY <1>5, <1>9
    <3>4. e \in Executions(rf[i + 1]) /\ rf[i + 1].executions[e].ownerNodeID = new
      BY <1>3, <2>2, <3>1, <3>2, <3>3 DEF ExecutionsAfter
    <3>5. i \in i..q /\ \A j \in (i + 1)..i : ~Adopts(lg[j], e, new)
      BY <1>1 DEF i
    <3> QED
      BY <3>4, <3>5 DEF OwnerAhead
  <2> QED
    BY <2>3, <2>4
<1>10. ExecutionsReplayed(ty, lg, rf, i, q)
  <2>1. \A e \in Executions(ty) : InFlight(ty, e) => OwnerAhead(ty, lg, rf, e, i, q)
    BY <1>7, <1>8, <1>9 DEF InFlight
  <2> QED
    BY <1>4, <1>7, <1>8, <2>1 DEF ExecutionsReplayed, SameOccurrence, now
<1> QED
  BY <1>5, <1>7, <1>8, <1>10 DEF x, i, ty

(* One entry of a replay and the schedules: those that are canceled or completed   *)
(* are left alone, and the others get closer to the pass.                       *)
LEMMA SchedulesReplayStep ==
    ASSUME NEW lg, NEW rf, NEW cfg \in ScheduleConfig, OnePass(lg, rf, cfg),
           NoneEarly(lg, rf), NEW tx, Sound(tx, lg, cfg),
           NEW p \in Nat, NEW q \in Nat, p < q, q <= Len(lg),
           \A e \in Executions(tx) : InFlight(tx, e) => ~Ends(lg[p + 1], e),
           SchedulesReplayed(tx, lg, rf, p, q)
    PROVE  SchedulesReplayed(Dispatch(tx, lg[p + 1]), lg, rf, p + 1, q)
<1> DEFINE i == p + 1
           x == lg[i]
           ty == Dispatch(tx, x)
<1>1. /\ i \in DOMAIN lg /\ i \in Nat /\ i \in DOMAIN rf /\ i + 1 \in DOMAIN rf
      /\ q + 1 \in DOMAIN rf /\ i <= q + 1 /\ i + 1 <= q + 1 /\ i = p + 1
      /\ DOMAIN rf = 1..(Len(lg) + 1) /\ Len(lg) \in Nat /\ LogSound(lg, cfg)
  BY DEF OnePass, LogSound
<1> HIDE DEF i
<1> SUFFICES ASSUME NEW s \in ScheduleIDs
             PROVE  LET row == ty.schedules[s]
                        last == rf[q + 1].schedules[s]
                    IN  /\ row = Nil <=> last = Nil
                        /\ row # Nil =>
                             /\ \/ row.status = last.status
                                \/ /\ {row.status, last.status} \subseteq {"active", "paused"}
                                   /\ \E j \in (i + 1)..q : Toggles(lg[j], s)
                             /\ \/ last.status = "completed"
                                \/ row.maxAttempts = last.maxAttempts
                                \/ /\ last.status # "canceled"
                                   /\ \E j \in (i + 1)..q : About(lg[j], "update_schedule", s)
  BY <1>1 DEF SchedulesReplayed, i
<1> DEFINE old == tx.schedules[s]
           new == ty.schedules[s]
           last == rf[q + 1].schedules[s]
           was == rf[i].schedules[s]
           is == rf[i + 1].schedules[s]
<1>2. RowAfter(tx, x, cfg, s, old, new) /\ ~EndsOne(tx, x, s)
  <2>1. SchedulesAfter(tx, x, ty, cfg)
    BY <1>1, SchedulesWritten
  <2> QED
    BY <1>1, <2>1 DEF SchedulesAfter, EndsOne, ExecutionsOf
<1>3. RowAfter(rf[i], x, cfg, s, was, is)
  BY <1>1, PassStep DEF SchedulesAfter
<1>4. /\ old = Nil <=> last = Nil
      /\ old # Nil =>
           /\ \/ old.status = last.status
              \/ /\ {old.status, last.status} \subseteq {"active", "paused"}
                 /\ \E j \in i..q : Toggles(lg[j], s)
           /\ \/ last.status = "completed"
              \/ old.maxAttempts = last.maxAttempts
              \/ /\ last.status # "canceled"
                 /\ \E j \in i..q : About(lg[j], "update_schedule", s)
  BY <1>1 DEF SchedulesReplayed
<1>5. ASSUME is # Nil
      PROVE  /\ last # Nil
             /\ is.status \in {"canceled", "completed"} => last.status \in {"canceled", "completed"}
             /\ /\ last.status \notin {"canceled", "completed"}
                /\ \A k \in (i + 1)..q : ~Toggles(lg[k], s)
                => last.status = is.status
             /\ (\A k \in (i + 1)..q : ~About(lg[k], "update_schedule", s))
                => last.maxAttempts = is.maxAttempts
  <2>1. (q + 1) - 1 = q
    OBVIOUS
  <2> QED
    BY <1>1, <1>5, <2>1, ScheduleStays, StatusStays, LimitStays
<1>6. \/ About(x, "update_schedule", s) \/ About(x, "cancel_schedule", s) \/ Toggles(x, s)
      => was # Nil
  BY <1>1 DEF NoneEarly, About, Toggles
<1>7. \A j \in i..q : j = i \/ j \in (i + 1)..q
  BY <1>1
<1>8. /\ new = Nil <=> last = Nil
      /\ old = Nil => new = Nil
  <2>1. old = Nil => ~(About(x, "create_schedule", s) /\ HasInterval(cfg))
    <3>1. About(x, "create_schedule", s) /\ HasInterval(cfg) => is # Nil
      BY <1>3 DEF RowAfter
    <3> QED
      BY <1>4, <1>5, <3>1
  <2> QED
    BY <1>2, <1>4, <2>1 DEF RowAfter
<1> SUFFICES ASSUME old # Nil
             PROVE  /\ \/ new.status = last.status
                       \/ /\ {new.status, last.status} \subseteq {"active", "paused"}
                          /\ \E j \in (i + 1)..q : Toggles(lg[j], s)
                    /\ \/ last.status = "completed"
                       \/ new.maxAttempts = last.maxAttempts
                       \/ /\ last.status # "canceled"
                          /\ \E j \in (i + 1)..q : About(lg[j], "update_schedule", s)
  BY <1>8
<1> HIDE DEF x, ty, old, new, last, was, is
<1>9. CASE last.status \in {"canceled", "completed"}
  BY <1>2, <1>4, <1>9 DEF RowAfter
<1>10. CASE last.status \notin {"canceled", "completed"}
  <2>1. is # Nil => is.status \notin {"canceled", "completed"}
    BY <1>5, <1>10
  <2>2. was # Nil => is # Nil /\ was.status \notin {"canceled", "completed"}
    BY <1>3, <2>1 DEF RowAfter
  <2>3. ~About(x, "cancel_schedule", s)
    <3>1. ASSUME About(x, "cancel_schedule", s) PROVE FALSE
      <4>1. x.type = "cancel_schedule" /\ was # Nil
        BY <1>6, <3>1 DEF About
      <4>2. ~About(x, "pause_schedule", s) /\ ~About(x, "resume_schedule", s)
        BY <4>1 DEF About
      <4>3. was.status \in {"active", "paused"}
        <5>1. was \in Schedule
          <6>1. Sound(rf[i], lg, cfg)
            BY <1>1, PassStep
          <6> QED
            BY <4>1, <6>1 DEF Sound, Database, was
        <5> QED
          BY <2>2, <4>1, <5>1 DEF Schedule, ScheduleStatuses
      <4> QED
        BY <1>3, <2>1, <2>2, <3>1, <4>1, <4>2, <4>3 DEF RowAfter
    <3> QED
      BY <3>1
  <2>4. old.status \in {"active", "paused"} /\ last.status \in {"active", "paused"}
    <3>1. rf[q + 1] \in Database
      BY <1>1 DEF OnePass, Sound
    <3>2. last \in Schedule
      BY <1>4, <3>1 DEF Database, last
    <3> QED
      BY <1>4, <1>10, <3>2 DEF Schedule, ScheduleStatuses
  <2>5. \/ new.status = last.status
        \/ /\ {new.status, last.status} \subseteq {"active", "paused"}
           /\ \E j \in (i + 1)..q : Toggles(lg[j], s)
    <3>1. CASE Toggles(x, s)
      <4>1. was # Nil /\ is # Nil
        BY <1>6, <2>2, <3>1
      <4>2. new.status \in {"active", "paused"} /\ is.status = new.status
        <5>1. was \in Schedule
          <6>1. Sound(rf[i], lg, cfg)
            BY <1>1, PassStep
          <6> QED
            BY <4>1, <6>1 DEF Sound, Database, was
        <5>2. was.status \in {"active", "paused"}
          BY <2>2, <4>1, <5>1 DEF Schedule, ScheduleStatuses
        <5>3. \A tz : ~EndsOne(tz, x, s)
          BY <3>1 DEF EndsOne, Ends, Toggles, About
        <5>4. CASE About(x, "pause_schedule", s)
          <6>1. ~About(x, "resume_schedule", s)
            BY <5>4 DEF About
          <6> QED
            BY <1>2, <1>3, <2>3, <2>4, <4>1, <5>2, <5>3, <5>4, <6>1 DEF RowAfter
        <5>5. CASE About(x, "resume_schedule", s)
          <6>1. ~About(x, "pause_schedule", s)
            BY <5>5 DEF About
          <6> QED
            BY <1>2, <1>3, <2>3, <2>4, <4>1, <5>2, <5>3, <5>5, <6>1 DEF RowAfter
        <5> QED
          BY <3>1, <5>4, <5>5 DEF Toggles
      <4> QED
        BY <1>5, <1>10, <2>4, <4>1, <4>2
    <3>2. CASE ~Toggles(x, s)
      <4>1. new.status = old.status
        BY <1>2, <2>3, <3>2 DEF RowAfter, Toggles
      <4>2. (\E j \in i..q : Toggles(lg[j], s)) => \E j \in (i + 1)..q : Toggles(lg[j], s)
        BY <1>7, <3>2 DEF x
      <4> QED
        BY <1>4, <4>1, <4>2
    <3> QED
      BY <3>1, <3>2
  <2>6. \/ new.maxAttempts = last.maxAttempts
        \/ \E j \in (i + 1)..q : About(lg[j], "update_schedule", s)
    <3>1. CASE About(x, "update_schedule", s)
      <4>1. was # Nil /\ is # Nil /\ was.status # "canceled"
        BY <1>6, <2>2, <3>1
      <4>2. new.maxAttempts = x.cmd.maxAttempts /\ is.maxAttempts = x.cmd.maxAttempts
        BY <1>2, <1>3, <2>4, <3>1, <4>1 DEF RowAfter
      <4> QED
        BY <1>5, <4>1, <4>2
    <3>2. CASE ~About(x, "update_schedule", s)
      <4>1. new.maxAttempts = old.maxAttempts
        BY <1>2, <3>2 DEF RowAfter
      <4>2. (\E j \in i..q : About(lg[j], "update_schedule", s))
              => \E j \in (i + 1)..q : About(lg[j], "update_schedule", s)
        BY <1>7, <3>2 DEF x
      <4> QED
        BY <1>4, <1>10, <4>1, <4>2
    <3> QED
      BY <3>1, <3>2
  <2> QED
    BY <1>10, <2>5, <2>6
<1> QED
  BY <1>9, <1>10
-----------------------------------------------------------------------------
(* The occurrence a schedule is due for. *)

(* The occurrences of s that have been run to an end. *)
EndedAt(tx, s) ==
    {tx.executions[e].scheduledFor :
        e \in {f \in ExecutionsOf(tx, s) : IsTerminal(tx.executions[f].status)}}

LEMMA DueOfEnded ==
    ASSUME NEW tx, NEW ty, NEW s, NEW cfg, EndedAt(tx, s) = EndedAt(ty, s)
    PROVE  Due(tx, s, cfg) = Due(ty, s, cfg)
<1>1. findMostRecentTerminalExecution(tx, s) = findMostRecentTerminalExecution(ty, s)
  <2>1. \A tz : findMostRecentTerminalExecution(tz, s)
                  = IF EndedAt(tz, s) = {} THEN Nil
                    ELSE CHOOSE t \in EndedAt(tz, s) : \A u \in EndedAt(tz, s) : u <= t
    BY Zenon DEF findMostRecentTerminalExecution, EndedAt
  <2> QED
    BY <2>1
<1> QED
  BY <1>1 DEF Due

(* It is the one after the last that has ended. *)
LEMMA DueAfterEnded ==
    ASSUME NEW lg, NEW cfg \in ScheduleConfig, CatchesUp(cfg),
           NEW tx, Sound(tx, lg, cfg), NEW s
    PROVE  /\ Due(tx, s, cfg) \in Nat
           /\ \A t \in EndedAt(tx, s) : t \in Int /\ t < Due(tx, s, cfg)
           /\ \A t \in EndedAt(tx, s) :
                (\A u \in EndedAt(tx, s) : u <= t)
                   => Due(tx, s, cfg) = computeIntervalAfter(cfg.firstRunAt, cfg.seconds, t)
           /\ EndedAt(tx, s) = {} => Due(tx, s, cfg) = cfg.firstRunAt
<1> DEFINE anchor == findMostRecentTerminalExecution(tx, s)
           Ended == {f \in ExecutionsOf(tx, s) : IsTerminal(tx.executions[f].status)}
<1>1. IF Ended = {} THEN anchor = Nil
      ELSE /\ anchor \in Int
           /\ \E f \in Ended : anchor = tx.executions[f].scheduledFor
           /\ \A f \in Ended : tx.executions[f].scheduledFor <= anchor
  BY MostRecentIsLatest DEF Sound
<1>2. /\ cfg.firstRunAt \in Nat /\ cfg.seconds \in Nat \ {0} /\ Nil \notin Int
      /\ \A f \in Ended : tx.executions[f].scheduledFor \in Int
  <2>1. tx.executions \in [ExecutionIDs -> Execution \cup {Nil}]
    BY DEF Sound, Database
  <2>2. \A f \in Ended : tx.executions[f] \in Execution
    BY <2>1 DEF ExecutionsOf, Executions
  <2> QED
    <3>1. cfg.seconds \in Int /\ cfg.seconds > 0
      BY DEF CatchesUp, ScheduleConfig
    <3> QED
      BY <2>2, <3>1, NilAssumption DEF ScheduleConfig, Execution, CatchesUp
<1>3. EndedAt(tx, s) = {tx.executions[f].scheduledFor : f \in Ended}
  BY DEF EndedAt
<1> HIDE DEF Ended, anchor
<1>4. Due(tx, s, cfg) = IF anchor = Nil THEN cfg.firstRunAt
                        ELSE computeIntervalAfter(cfg.firstRunAt, cfg.seconds, anchor)
  BY DEF Due, anchor
<1>5. CASE Ended = {}
  BY <1>1, <1>2, <1>3, <1>4, <1>5
<1>6. CASE Ended # {}
  <2>1. /\ anchor \in EndedAt(tx, s) /\ anchor \in Int /\ anchor # Nil
        /\ \A t \in EndedAt(tx, s) : t \in Int /\ t <= anchor
    BY <1>1, <1>2, <1>3, <1>6
  <2>2. /\ Due(tx, s, cfg) = computeIntervalAfter(cfg.firstRunAt, cfg.seconds, anchor)
        /\ Due(tx, s, cfg) \in Nat /\ Due(tx, s, cfg) > anchor
    BY <1>2, <1>4, <2>1, AfterIsNext
  <2>3. \A t \in EndedAt(tx, s) : t < Due(tx, s, cfg)
    BY <2>1, <2>2
  <2>4. \A t \in EndedAt(tx, s) : (\A u \in EndedAt(tx, s) : u <= t) => t = anchor
    BY <2>1
  <2> QED
    BY <2>1, <2>2, <2>3, <2>4
<1> QED
  BY <1>5, <1>6

(* What an entry ends. *)
LEMMA EndedAfter ==
    ASSUME NEW lg, NEW cfg, LogSound(lg, cfg), NEW i \in DOMAIN lg,
           NEW tx, Sound(tx, lg, cfg), NEW ty, Sound(ty, lg, cfg),
           ExecutionsAfter(tx, lg[i], ty), NEW s
    PROVE  /\ ~EndsOne(tx, lg[i], s) => EndedAt(ty, s) = EndedAt(tx, s)
           /\ \A e \in ExecutionsOf(tx, s) :
                InFlight(tx, e) /\ Ends(lg[i], e) =>
                   EndedAt(ty, s) = EndedAt(tx, s) \cup {tx.executions[e].scheduledFor}
<1> DEFINE x == lg[i]
           Ended(tz) == {f \in ExecutionsOf(tz, s) : IsTerminal(tz.executions[f].status)}
           End == {e \in ExecutionsOf(tx, s) : InFlight(tx, e) /\ Ends(x, e)}
           at(e) == tx.executions[e].scheduledFor
<1>1. \A e \in Executions(tx) :
         /\ tx.executions[e].status \in TerminalStatuses \cup {"in_flight"}
         /\ e \in ExecutionIDs
  <2>1. tx.executions \in [ExecutionIDs -> Execution \cup {Nil}]
    BY DEF Sound, Database
  <2>2. \A f \in Executions(tx) : tx.executions[f] \in Execution
    BY <2>1 DEF Executions
  <2> QED
    BY <2>2 DEF Execution, Executions
<1>2. \A e : Ends(x, e) => FinalStatus(x) \in TerminalStatuses
  BY EndIsFinal
<1>3. "in_flight" \notin TerminalStatuses
  BY DEF TerminalStatuses
<1> HIDE DEF x
<1>4. Ended(ty) = Ended(tx) \cup End
  <2>1. ASSUME NEW e \in Executions(tx) PROVE e \in Ended(ty) <=> e \in Ended(tx) \cup End
    <3>1. /\ e \in Executions(ty)
          /\ ty.executions[e].scheduleID = tx.executions[e].scheduleID
          /\ ty.executions[e].status = IF InFlight(tx, e) /\ Ends(x, e) THEN FinalStatus(x)
                                       ELSE tx.executions[e].status
      BY DEF ExecutionsAfter, SameOccurrence, x
    <3> QED
      BY <1>1, <1>2, <1>3, <3>1 DEF ExecutionsOf, IsTerminal, InFlight
  <2>2. ASSUME NEW e, e \notin Executions(tx) PROVE e \notin Ended(ty) /\ e \notin Ended(tx) \cup End
    <3>1. e \in Executions(ty) => ty.executions[e].status = "in_flight"
      BY <2>2 DEF ExecutionsAfter
    <3> QED
      BY <1>3, <2>2, <3>1 DEF ExecutionsOf, IsTerminal
  <2> QED
    BY <2>1, <2>2
<1>5. \A f \in Ended(ty) : f \in Executions(tx) /\ ty.executions[f].scheduledFor = at(f)
  <2>1. \A f \in Executions(tx) : ty.executions[f].scheduledFor = at(f)
    BY DEF ExecutionsAfter, SameOccurrence
  <2> QED
    BY <1>4, <2>1 DEF ExecutionsOf
<1>6. /\ EndedAt(ty, s) = {ty.executions[f].scheduledFor : f \in Ended(ty)}
      /\ EndedAt(tx, s) = {at(f) : f \in Ended(tx)}
  BY DEF EndedAt
<1>7. EndsOne(tx, x, s) <=> End # {}
  BY DEF EndsOne
<1>8. ASSUME NEW e \in ExecutionsOf(tx, s), InFlight(tx, e), Ends(x, e) PROVE End = {e}
  BY <1>8 DEF Ends
<1>9. EndedAt(ty, s) = EndedAt(tx, s) \cup {at(f) : f \in End}
  <2> HIDE DEF Ended, End
  <2>1. \A t : t \in EndedAt(ty, s) <=> \E f \in Ended(ty) : t = at(f)
    BY <1>5, <1>6
  <2> QED
    BY <1>4, <1>6, <2>1
<1>10. ~EndsOne(tx, x, s) => EndedAt(ty, s) = EndedAt(tx, s)
  BY <1>7, <1>9
<1>11. ASSUME NEW e \in ExecutionsOf(tx, s), InFlight(tx, e), Ends(x, e)
       PROVE  EndedAt(ty, s) = EndedAt(tx, s) \cup {at(e)}
  <2>1. End = {e}
    BY <1>8, <1>11
  <2> QED
    BY <1>9, <2>1
<1> QED
  BY <1>10, <1>11 DEF x

(* When a run in flight stands for what is due, its end makes the next one due. *)
LEMMA DueAfter ==
    ASSUME NEW lg, NEW cfg \in ScheduleConfig, LogSound(lg, cfg), CatchesUp(cfg),
           NEW i \in DOMAIN lg,
           NEW tx, Sound(tx, lg, cfg), NEW ty, Sound(ty, lg, cfg),
           ExecutionsAfter(tx, lg[i], ty), RunsDue(tx, cfg), NEW s
    PROVE  /\ ~EndsOne(tx, lg[i], s) => Due(ty, s, cfg) = Due(tx, s, cfg)
           /\ \A e \in ExecutionsOf(tx, s) :
                InFlight(tx, e) /\ Ends(lg[i], e) =>
                   /\ tx.executions[e].scheduledFor = Due(tx, s, cfg)
                   /\ Due(ty, s, cfg) = computeIntervalAfter(cfg.firstRunAt, cfg.seconds,
                                                             tx.executions[e].scheduledFor)
<1>1. ASSUME ~EndsOne(tx, lg[i], s) PROVE Due(ty, s, cfg) = Due(tx, s, cfg)
  BY <1>1, EndedAfter, DueOfEnded
<1>2. ASSUME NEW e \in ExecutionsOf(tx, s), InFlight(tx, e), Ends(lg[i], e)
      PROVE  LET t == tx.executions[e].scheduledFor
             IN  /\ t = Due(tx, s, cfg)
                 /\ Due(ty, s, cfg) = computeIntervalAfter(cfg.firstRunAt, cfg.seconds, t)
  <2> DEFINE t == tx.executions[e].scheduledFor
  <2>1. t = Due(tx, s, cfg)
    BY <1>2 DEF RunsDue, ExecutionsOf
  <2>2. EndedAt(ty, s) = EndedAt(tx, s) \cup {t}
    BY <1>2, EndedAfter
  <2>3. \A u \in EndedAt(tx, s) : u \in Int /\ t \in Nat /\ u < t
    BY <2>1, DueAfterEnded
  <2>4. t \in Nat
    BY <2>1, DueAfterEnded
  <2>5. t \in EndedAt(ty, s) /\ \A u \in EndedAt(ty, s) : u <= t
    <3> HIDE DEF t
    <3> QED
      BY <2>2, <2>3, <2>4
  <2> QED
    BY <2>1, <2>5, DueAfterEnded
<1> QED
  BY <1>1, <1>2

(* An active schedule stays due for the occurrence after the last that ended, *)
LEMMA ActiveStaysDue ==
    ASSUME NEW lg, NEW cfg \in ScheduleConfig, LogSound(lg, cfg), NEW i \in DOMAIN lg,
           NEW tx, Sound(tx, lg, cfg), NEW ty, Sound(ty, lg, cfg),
           ExecutionsAfter(tx, lg[i], ty), SchedulesAfter(tx, lg[i], ty, cfg),
           RunsDue(tx, cfg), ActiveIsDue(tx, cfg)
    PROVE  ActiveIsDue(ty, cfg)
<1> SUFFICES ASSUME CatchesUp(cfg), NEW s \in ScheduleIDs,
                    ty.schedules[s] # Nil, ty.schedules[s].status = "active"
             PROVE  ty.schedules[s].nextRunAt = Due(ty, s, cfg)
  BY DEF ActiveIsDue
<1> DEFINE x == lg[i]
           old == tx.schedules[s]
           new == ty.schedules[s]
<1>1. RowAfter(tx, x, cfg, s, old, new)
  BY DEF SchedulesAfter
<1>2. /\ ~EndsOne(tx, x, s) => Due(ty, s, cfg) = Due(tx, s, cfg)
      /\ \A e \in ExecutionsOf(tx, s) :
           InFlight(tx, e) /\ Ends(x, e) =>
              Due(ty, s, cfg) = computeIntervalAfter(cfg.firstRunAt, cfg.seconds,
                                                     tx.executions[e].scheduledFor)
  BY DueAfter
<1>3. EndsOne(tx, x, s) => ~Toggles(x, s)
  BY DEF EndsOne, Ends, Toggles, About
<1>4. cfg.scheduleType # "once"
  BY DEF CatchesUp
<1> HIDE DEF x
<1>5. CASE old = Nil
  <2>1. ExecutionsOf(tx, s) = {}
    BY <1>5 DEF Sound, Owned, ExecutionsOf
  <2>2. EndedAt(tx, s) = {} /\ ~EndsOne(tx, x, s)
    BY <2>1 DEF EndedAt, EndsOne
  <2>3. Due(ty, s, cfg) = cfg.firstRunAt
    BY <1>2, <2>2, DueAfterEnded
  <2> QED
    BY <1>1, <1>5, <2>3 DEF RowAfter
<1>6. CASE old # Nil /\ old.status # "active"
  <2>1. Toggles(x, s) /\ new.nextRunAt = Due(tx, s, cfg)
    BY <1>1, <1>4, <1>6 DEF RowAfter, Toggles
  <2> QED
    BY <1>2, <1>3, <2>1
<1>7. CASE old # Nil /\ old.status = "active"
  <2>1. CASE ~EndsOne(tx, x, s)
    <3>1. old.nextRunAt = Due(tx, s, cfg)
      BY <1>7 DEF ActiveIsDue
    <3> QED
      BY <1>1, <1>2, <1>7, <2>1, <3>1 DEF RowAfter
  <2>2. CASE EndsOne(tx, x, s)
    <3>1. PICK e \in ExecutionsOf(tx, s) : InFlight(tx, e) /\ Ends(x, e)
      BY <2>2 DEF EndsOne
    <3> QED
      BY <1>1, <1>2, <1>7, <3>1 DEF RowAfter
  <2> QED
    BY <2>1, <2>2
<1> QED
  BY <1>5, <1>6, <1>7
-----------------------------------------------------------------------------
(* Once an occurrence has been due, it is due or has an execution. *)
LEMMA OnceDue ==
    ASSUME NEW lg, NEW rf, NEW cfg \in ScheduleConfig, OnePass(lg, rf, cfg), CatchesUp(cfg),
           NEW i \in DOMAIN rf, NEW j \in DOMAIN rf, i <= j,
           \A k \in i..j : RunsDue(rf[k], cfg),
           NEW s
    PROVE  \/ Due(rf[j], s, cfg) = Due(rf[i], s, cfg)
           \/ \E f \in ExecutionsOf(rf[j], s) :
                 rf[j].executions[f].scheduledFor = Due(rf[i], s, cfg)
<1> DEFINE t == Due(rf[i], s, cfg)
           Seen(k) == \/ Due(rf[k], s, cfg) = t
                      \/ \E f \in ExecutionsOf(rf[k], s) : rf[k].executions[f].scheduledFor = t
           S == {k \in Nat : Seen(k)}
<1>0. i \in Nat /\ j \in Nat /\ (\A k \in i..(j - 1) : k \in DOMAIN lg) /\ LogSound(lg, cfg)
  BY Positioned DEF OnePass
<1>1. ASSUME NEW k \in i..(j - 1), Seen(k) PROVE Seen(k + 1)
  <2>1. /\ ExecutionsAfter(rf[k], lg[k], rf[k + 1]) /\ k \in DOMAIN lg
        /\ Sound(rf[k], lg, cfg) /\ Sound(rf[k + 1], lg, cfg)
    BY <1>0, PassStep
  <2>2. RunsDue(rf[k], cfg)
    BY <1>0
  <2>3. \A f \in ExecutionsOf(rf[k], s) :
           /\ f \in ExecutionsOf(rf[k + 1], s)
           /\ rf[k + 1].executions[f].scheduledFor = rf[k].executions[f].scheduledFor
    BY <2>1 DEF ExecutionsAfter, ExecutionsOf, SameOccurrence
  <2>4. CASE Due(rf[k], s, cfg) = t
    <3>1. CASE EndsOne(rf[k], lg[k], s)
      <4>1. PICK f \in ExecutionsOf(rf[k], s) : InFlight(rf[k], f) /\ Ends(lg[k], f)
        BY <3>1 DEF EndsOne
      <4>2. rf[k].executions[f].scheduledFor = Due(rf[k], s, cfg)
        BY <2>2, <4>1 DEF RunsDue, ExecutionsOf
      <4> QED
        BY <2>3, <2>4, <4>2
    <3>2. CASE ~EndsOne(rf[k], lg[k], s)
      <4>1. Due(rf[k + 1], s, cfg) = Due(rf[k], s, cfg)
        BY <1>0, <2>1, <2>2, <3>2, DueAfter
      <4> QED
        BY <2>4, <4>1
    <3> QED
      BY <3>1, <3>2
  <2>5. CASE \E f \in ExecutionsOf(rf[k], s) : rf[k].executions[f].scheduledFor = t
    BY <2>3, <2>5
  <2> QED
    BY <1>1, <2>4, <2>5
<1>2. \A k \in i..(j - 1) : k \in S => k + 1 \in S
  BY <1>0, <1>1
<1>3. i \in S
  BY <1>0
<1> HIDE DEF S
<1>4. j \in S
  BY <1>0, <1>2, <1>3, Onwards
<1> QED
  BY <1>4 DEF S

(* and so a run in flight stands for what is due, throughout the pass. *)
LEMMA RunsStayDue ==
    ASSUME NEW lg, NEW rf, NEW cfg \in ScheduleConfig, OnePass(lg, rf, cfg),
           ProposedFrom(lg, rf, cfg), NEW i \in DOMAIN lg,
           \A k \in 1..i : RunsDue(rf[k], cfg)
    PROVE  RunsDue(rf[i + 1], cfg)
<1> DEFINE x == lg[i]
           tx == rf[i]
           ty == rf[i + 1]
<1> SUFFICES ASSUME CatchesUp(cfg), NEW e \in Executions(ty), InFlight(ty, e)
             PROVE  ty.executions[e].scheduledFor = Due(ty, ty.executions[e].scheduleID, cfg)
  BY DEF RunsDue
<1> DEFINE s == ty.executions[e].scheduleID
           t == ty.executions[e].scheduledFor
<1>1. /\ i \in Nat /\ i \in DOMAIN rf /\ Sound(tx, lg, cfg) /\ Sound(ty, lg, cfg)
      /\ ExecutionsAfter(tx, x, ty) /\ LogSound(lg, cfg)
      /\ 1 <= i /\ 1..i \subseteq DOMAIN rf
  <2>1. i \in 1..Len(lg) /\ Len(lg) \in Nat /\ DOMAIN rf = 1..(Len(lg) + 1)
    BY DEF OnePass, LogSound
  <2>2. LogSound(lg, cfg) /\ 1 <= i /\ 1..i \subseteq DOMAIN rf
    BY <2>1 DEF OnePass
  <2> QED
    BY <2>2, PassStep
<1>2. RunsDue(tx, cfg)
  BY <1>1
<1>3. /\ ~EndsOne(tx, x, s) => Due(ty, s, cfg) = Due(tx, s, cfg)
      /\ \A f \in ExecutionsOf(tx, s) :
           InFlight(tx, f) /\ Ends(x, f) => tx.executions[f].scheduledFor = Due(tx, s, cfg)
  BY <1>1, <1>2, DueAfter
<1>4. CASE e \in Executions(tx)
  <2>1. /\ tx.executions[e].scheduleID = s /\ tx.executions[e].scheduledFor = t
        /\ InFlight(tx, e) /\ ~Ends(x, e)
    <3>1. \A f : Ends(x, f) => FinalStatus(x) # "in_flight"
      BY <1>1, EndIsFinal
    <3> QED
      BY <1>1, <1>4, <3>1 DEF ExecutionsAfter, SameOccurrence, InFlight
  <2>2. t = Due(tx, s, cfg)
    BY <1>2, <1>4, <2>1 DEF RunsDue
  <2>3. ~EndsOne(tx, x, s)
    <3> SUFFICES ASSUME NEW f \in ExecutionsOf(tx, s), InFlight(tx, f), Ends(x, f) PROVE FALSE
      BY DEF EndsOne
    <3>1. tx.executions[f].scheduledFor = t /\ tx.executions[f].scheduleID = s
          /\ f \in Executions(tx)
      BY <1>3, <2>2 DEF ExecutionsOf
    <3>2. OnePerOccurrence(tx)
      BY <1>1 DEF Sound
    <3>3. f = e
      BY <1>4, <2>1, <3>1, <3>2 DEF OnePerOccurrence
    <3> QED
      BY <2>1, <3>3
  <2> QED
    BY <1>3, <2>2, <2>3
<1>5. CASE e \notin Executions(tx)
  <2>1. /\ x.type = "claim_execution" /\ ClaimExecutionAccepted(tx, x.cmd)
        /\ x.cmd.scheduleID = s /\ x.cmd.scheduledFor = t
    <3>1. e \in ExecutionIDs
      BY DEF Executions
    <3> QED
      BY <1>1, <1>5, <3>1 DEF ExecutionsAfter, About, SameOccurrence
  <2>2. PICK k \in 1..i : t = Due(rf[k], s, cfg)
    BY <2>1 DEF ProposedFrom, Proposable
  <2>3. /\ k \in DOMAIN rf /\ k <= i /\ \A m \in k..i : RunsDue(rf[m], cfg)
    <3>1. k..i \subseteq 1..i
      BY <1>1
    <3> QED
      BY <1>1, <3>1
  <2>4. \/ Due(tx, s, cfg) = t
        \/ \E f \in ExecutionsOf(tx, s) : tx.executions[f].scheduledFor = t
    BY <1>1, <2>2, <2>3, OnceDue
  <2>5. Due(tx, s, cfg) = t
    BY <2>1, <2>4 DEF ClaimExecutionAccepted
  <2>6. ~EndsOne(tx, x, s)
    BY <2>1 DEF EndsOne, Ends
  <2> QED
    BY <1>3, <2>5, <2>6
<1> QED
  BY <1>4, <1>5
-----------------------------------------------------------------------------
(* At the end of a replay, at its start, and when the log grows. *)

(* A database with the executions of the pass stands where the pass does. *)
LEMMA EndedAlike ==
    ASSUME NEW tx, NEW lg, NEW rf, NEW p, NEW q, ExecutionsReplayed(tx, lg, rf, p, q), NEW s
    PROVE  EndedAt(tx, s) = EndedAt(rf[q + 1], s)
<1> DEFINE ty == rf[q + 1]
           Ended(tz) == {f \in ExecutionsOf(tz, s) : IsTerminal(tz.executions[f].status)}
<1>1. /\ Executions(tx) = Executions(ty)
      /\ \A e \in Executions(tx) :
           /\ SameOccurrence(tx.executions[e], ty.executions[e])
           /\ tx.executions[e].status = ty.executions[e].status
  BY DEF ExecutionsReplayed
<1> HIDE DEF ty
<1>2. Ended(tx) = Ended(ty)
  BY <1>1 DEF ExecutionsOf, SameOccurrence
<1>3. \A f \in Ended(tx) : tx.executions[f].scheduledFor = ty.executions[f].scheduledFor
  BY <1>1 DEF ExecutionsOf, SameOccurrence
<1>4. EndedAt(tx, s) = {tx.executions[f].scheduledFor : f \in Ended(tx)}
      /\ EndedAt(ty, s) = {ty.executions[f].scheduledFor : f \in Ended(ty)}
  BY DEF EndedAt
<1> HIDE DEF Ended
<1> QED
  BY <1>2, <1>3, <1>4 DEF ty

LEMMA DueAlike ==
    ASSUME NEW tx, NEW lg, NEW rf, NEW p, NEW q, ExecutionsReplayed(tx, lg, rf, p, q), NEW cfg
    PROVE  /\ \A s : Due(tx, s, cfg) = Due(rf[q + 1], s, cfg)
           /\ RunsDue(rf[q + 1], cfg) => RunsDue(tx, cfg)
<1>1. \A s : Due(tx, s, cfg) = Due(rf[q + 1], s, cfg)
  BY EndedAlike, DueOfEnded
<1>2. ASSUME RunsDue(rf[q + 1], cfg) PROVE RunsDue(tx, cfg)
  <2> SUFFICES ASSUME CatchesUp(cfg), NEW e \in Executions(tx), InFlight(tx, e)
               PROVE  tx.executions[e].scheduledFor = Due(tx, tx.executions[e].scheduleID, cfg)
    BY DEF RunsDue
  <2>1. /\ e \in Executions(rf[q + 1]) /\ InFlight(rf[q + 1], e)
        /\ SameOccurrence(tx.executions[e], rf[q + 1].executions[e])
    BY DEF ExecutionsReplayed, InFlight
  <2> QED
    BY <1>1, <1>2, <2>1 DEF RunsDue, SameOccurrence
<1> QED
  BY <1>1, <1>2

(* A node that has caught up has the owners of the pass. *)
LEMMA OwnersAlike ==
    ASSUME NEW tx, NEW lg, NEW rf, NEW q \in Nat, ExecutionsReplayed(tx, lg, rf, q, q),
           NEW e \in Executions(tx), InFlight(tx, e)
    PROVE  rf[q + 1].executions[e].ownerNodeID = tx.executions[e].ownerNodeID
<1>1. PICK k \in q..q : rf[k + 1].executions[e].ownerNodeID = tx.executions[e].ownerNodeID
  BY DEF ExecutionsReplayed, OwnerAhead
<1>2. k = q
  OBVIOUS
<1> QED
  BY <1>1, <1>2

(* A replay starts again. *)
LEMMA ReplayRestarts ==
    ASSUME NEW lg, NEW rf, NEW cfg, LogSound(lg, cfg), ProposedFrom(lg, rf, cfg),
           NEW tx, Sound(tx, lg, cfg),
           NEW p \in Nat, NEW q \in Nat, Replayed(tx, lg, rf, cfg, p, q)
    PROVE  Replayed(tx, lg, rf, cfg, 0, q)
<1>1. p <= q /\ q <= Len(lg) /\ Len(lg) \in Nat /\ DOMAIN lg = 1..Len(lg)
  BY DEF Replayed, LogSound
<1>2. ASSUME NEW e \in Executions(tx), InFlight(tx, e) PROVE OwnerAhead(tx, lg, rf, e, 0, q)
  <2> DEFINE owner == tx.executions[e].ownerNodeID
             Has(k) == e \in Executions(rf[k + 1]) /\ rf[k + 1].executions[e].ownerNodeID = owner
             S == {k \in 0..q : Has(k)}
  <2>1. owner \in Nodes /\ e \in ExecutionIDs
    <3>1. tx.executions \in [ExecutionIDs -> Execution \cup {Nil}]
      BY DEF Sound, Database
    <3> QED
      BY <1>2, <3>1 DEF Sound, Owned, InFlight, Executions, Execution
  <2>2. PICK k0 \in p..q : Has(k0)
    BY <1>2 DEF Replayed, ExecutionsReplayed, OwnerAhead
  <2>3. k0 \in S /\ S \subseteq Nat
    BY <1>1, <2>2
  <2>4. PICK k \in S : \A m \in S : k <= m
    <3> HIDE DEF S
    <3> QED
      BY <2>3, HasLeast
  <2>5. ASSUME NEW i \in 1..k, Adopts(lg[i], e, owner) PROVE FALSE
    <3>1. i \in DOMAIN lg /\ i <= q /\ i \in Nat
      BY <1>1, <2>4
    <3>2. PICK m \in 1..i : e \in Executions(rf[m]) /\ rf[m].executions[e].ownerNodeID = owner
      BY <2>1, <2>5, <3>1 DEF ProposedFrom, Proposable
    <3>3. m - 1 \in 0..q /\ (m - 1) + 1 = m /\ m - 1 < k
      BY <1>1, <2>4, <3>1
    <3>4. m - 1 \in S
      BY <3>2, <3>3
    <3>5. k \in Nat /\ k <= m - 1
      BY <2>4, <3>4
    <3> QED
      BY <3>3, <3>5
  <2>6. k \in 0..q /\ Has(k) /\ \A i \in (0 + 1)..k : ~Adopts(lg[i], e, owner)
    BY <2>4, <2>5
  <2> QED
    BY <2>6 DEF OwnerAhead
<1>3. ExecutionsReplayed(tx, lg, rf, 0, q)
  BY <1>2 DEF Replayed, ExecutionsReplayed
<1>4. ASSUME SchedulesReplayed(tx, lg, rf, p, q) PROVE SchedulesReplayed(tx, lg, rf, 0, q)
  <2>1. (p + 1)..q \subseteq (0 + 1)..q
    BY <1>1
  <2> QED
    BY <1>4, <2>1 DEF SchedulesReplayed
<1> QED
  BY <1>1, <1>3, <1>4 DEF Replayed

(* A replay is where it was when the log grows. *)
LEMMA ReplayOfLonger ==
    ASSUME NEW lg, NEW rf, NEW cfg, NEW more, NEW longer, NEW tx,
           NEW p \in Nat, NEW q \in Nat, Replayed(tx, lg, rf, cfg, p, q),
           Len(lg) \in Nat, DOMAIN lg = 1..Len(lg), DOMAIN rf = 1..(Len(lg) + 1),
           Len(more) \in Nat, Len(lg) <= Len(more), DOMAIN more = 1..Len(more),
           \A i \in DOMAIN lg : more[i] = lg[i],
           \A k \in DOMAIN rf : longer[k] = rf[k]
    PROVE  Replayed(tx, more, longer, cfg, p, q)
<1>1. p <= q /\ q <= Len(lg)
  BY DEF Replayed
<1>2. /\ longer[q + 1] = rf[q + 1]
      /\ \A k \in p..q : longer[k + 1] = rf[k + 1] /\ \A i \in (p + 1)..k : more[i] = lg[i]
      /\ \A i \in (p + 1)..q : more[i] = lg[i]
  BY <1>1
<1>3. ExecutionsReplayed(tx, more, longer, p, q)
  <2>1. \A e : OwnerAhead(tx, lg, rf, e, p, q) => OwnerAhead(tx, more, longer, e, p, q)
    BY <1>2 DEF OwnerAhead
  <2> QED
    BY <1>2, <2>1 DEF Replayed, ExecutionsReplayed
<1>4. NoneEarly(more, longer) => NoneEarly(lg, rf)
  <2>1. \A i \in DOMAIN lg : i \in DOMAIN more /\ more[i] = lg[i] /\ longer[i] = rf[i]
    OBVIOUS
  <2> QED
    BY <2>1 DEF NoneEarly
<1>5. SchedulesReplayed(tx, lg, rf, p, q) => SchedulesReplayed(tx, more, longer, p, q)
  BY <1>2 DEF SchedulesReplayed
<1> QED
  BY <1>1, <1>3, <1>4, <1>5 DEF Replayed
-----------------------------------------------------------------------------
(* An entry that is new to the database does to it what it did in the pass. *)
LEMMA ExecutionsAdvance ==
    ASSUME NEW lg, NEW rf, NEW cfg \in ScheduleConfig, OnePass(lg, rf, cfg),
           NEW tx, Sound(tx, lg, cfg), NEW q \in Nat, q < Len(lg),
           ExecutionsReplayed(tx, lg, rf, q, q)
    PROVE  /\ ExecutionsReplayed(Dispatch(tx, lg[q + 1]), lg, rf, q + 1, q + 1)
           /\ \A s : EndsOne(tx, lg[q + 1], s) <=> EndsOne(rf[q + 1], lg[q + 1], s)
<1> DEFINE i == q + 1
           x == lg[i]
           ty == Dispatch(tx, x)
           was == rf[i]
           is == rf[i + 1]
<1>1. /\ i \in DOMAIN lg /\ LogSound(lg, cfg)
  BY DEF OnePass, LogSound
<1>2. ExecutionsAfter(tx, x, ty)
  BY <1>1, ExecutionsWritten
<1>3. ExecutionsAfter(was, x, is)
  BY <1>1, PassStep
<1>4. /\ Executions(tx) = Executions(was)
      /\ \A e \in Executions(tx) :
           /\ SameOccurrence(tx.executions[e], was.executions[e])
           /\ tx.executions[e].status = was.executions[e].status
           /\ InFlight(tx, e) => was.executions[e].ownerNodeID = tx.executions[e].ownerNodeID
  <2>1. \A e \in Executions(tx) :
           InFlight(tx, e) => was.executions[e].ownerNodeID = tx.executions[e].ownerNodeID
    BY OwnersAlike
  <2>2. /\ Executions(tx) = Executions(was)
        /\ \A e \in Executions(tx) :
             /\ SameOccurrence(tx.executions[e], was.executions[e])
             /\ tx.executions[e].status = was.executions[e].status
    BY DEF ExecutionsReplayed
  <2> QED
    BY <2>1, <2>2
<1>5. i \in Nat /\ i \in i..i /\ \A j \in (i + 1)..i : FALSE
  OBVIOUS
<1> HIDE DEF ty, was, is, x, i
<1>6. ClaimExecutionAccepted(tx, x.cmd) <=> ClaimExecutionAccepted(was, x.cmd)
  <2>1. ExecutionsOf(tx, x.cmd.scheduleID) = ExecutionsOf(was, x.cmd.scheduleID)
    BY <1>4 DEF ExecutionsOf, SameOccurrence
  <2>2. \A e \in ExecutionsOf(tx, x.cmd.scheduleID) :
           tx.executions[e].scheduledFor = was.executions[e].scheduledFor
    BY <1>4 DEF ExecutionsOf, SameOccurrence
  <2> QED
    BY <2>1, <2>2 DEF ClaimExecutionAccepted
<1>7. Executions(ty) = Executions(is)
  <2>1. \A e \in Executions(tx) : e \in Executions(ty) /\ e \in Executions(is)
    BY <1>2, <1>3, <1>4 DEF ExecutionsAfter
  <2>2. \A e \in ExecutionIDs : e \in Executions(ty) \ Executions(tx)
                                   <=> e \in Executions(is) \ Executions(tx)
    BY <1>2, <1>3, <1>4, <1>6 DEF ExecutionsAfter
  <2>3. Executions(ty) \subseteq ExecutionIDs /\ Executions(is) \subseteq ExecutionIDs
    BY DEF Executions
  <2> QED
    BY <2>1, <2>2, <2>3
<1>8. \A e \in Executions(tx) : InFlight(tx, e) <=> InFlight(was, e)
  BY <1>4 DEF InFlight
<1>9. ASSUME NEW e \in Executions(ty)
      PROVE  /\ SameOccurrence(ty.executions[e], is.executions[e])
             /\ ty.executions[e].status = is.executions[e].status
             /\ InFlight(ty, e) => is.executions[e].ownerNodeID = ty.executions[e].ownerNodeID
  <2>1. CASE e \in Executions(tx)
    <3>1. /\ SameOccurrence(ty.executions[e], tx.executions[e])
          /\ ty.executions[e].status = IF InFlight(tx, e) /\ Ends(x, e) THEN FinalStatus(x)
                                       ELSE tx.executions[e].status
          /\ SameOccurrence(is.executions[e], was.executions[e])
          /\ is.executions[e].status = IF InFlight(was, e) /\ Ends(x, e) THEN FinalStatus(x)
                                       ELSE was.executions[e].status
      BY <1>2, <1>3, <1>4, <2>1 DEF ExecutionsAfter
    <3>2. ASSUME InFlight(ty, e)
          PROVE  is.executions[e].ownerNodeID = ty.executions[e].ownerNodeID
      <4>1. Ends(x, e) => FinalStatus(x) # "in_flight"
        BY <1>1, EndIsFinal DEF x
      <4>2. InFlight(tx, e) /\ ~Ends(x, e)
        BY <2>1, <3>1, <3>2, <4>1 DEF InFlight
      <4>3. ty.executions[e].ownerNodeID =
              IF Adopts(x, e, tx.executions[e].ownerNodeID)
              THEN x.cmd.newOwner ELSE tx.executions[e].ownerNodeID
        BY <1>2, <2>1, <4>2 DEF ExecutionsAfter
      <4>4. is.executions[e].ownerNodeID =
              IF Adopts(x, e, was.executions[e].ownerNodeID)
              THEN x.cmd.newOwner ELSE was.executions[e].ownerNodeID
        BY <1>3, <1>4, <1>8, <2>1, <4>2 DEF ExecutionsAfter
      <4> QED
        BY <1>4, <2>1, <4>2, <4>3, <4>4
    <3> QED
      BY <1>4, <1>8, <2>1, <3>1, <3>2 DEF SameOccurrence
  <2>2. CASE e \notin Executions(tx)
    BY <1>2, <1>3, <1>4, <1>7, <2>2 DEF ExecutionsAfter, SameOccurrence
  <2> QED
    BY <2>1, <2>2
<1>10. ExecutionsReplayed(ty, lg, rf, i, i)
  <2>1. \A e \in Executions(ty) : InFlight(ty, e) => OwnerAhead(ty, lg, rf, e, i, i)
    BY <1>5, <1>7, <1>9 DEF OwnerAhead, is
  <2> QED
    BY <1>7, <1>9, <2>1 DEF ExecutionsReplayed, is
<1>11. \A s : EndsOne(tx, x, s) <=> EndsOne(was, x, s)
  <2>1. \A s : ExecutionsOf(tx, s) = ExecutionsOf(was, s)
    BY <1>4 DEF ExecutionsOf, SameOccurrence
  <2>2. \A s, e : e \in ExecutionsOf(tx, s) => e \in Executions(tx)
    BY DEF ExecutionsOf
  <2> QED
    BY <1>8, <2>1, <2>2 DEF EndsOne
<1> QED
  BY <1>10, <1>11 DEF ty, x, i, was

LEMMA SchedulesAdvance ==
    ASSUME NEW lg, NEW rf, NEW cfg \in ScheduleConfig, OnePass(lg, rf, cfg),
           NEW tx, Sound(tx, lg, cfg), NEW q \in Nat, q < Len(lg),
           \A s : EndsOne(tx, lg[q + 1], s) <=> EndsOne(rf[q + 1], lg[q + 1], s),
           SchedulesReplayed(tx, lg, rf, q, q)
    PROVE  SchedulesReplayed(Dispatch(tx, lg[q + 1]), lg, rf, q + 1, q + 1)
<1> DEFINE i == q + 1
           x == lg[i]
           ty == Dispatch(tx, x)
<1>1. /\ i \in DOMAIN lg /\ LogSound(lg, cfg)
  BY DEF OnePass, LogSound
<1> SUFFICES ASSUME NEW s \in ScheduleIDs
             PROVE  LET row == ty.schedules[s]
                        last == rf[i + 1].schedules[s]
                    IN  /\ row = Nil <=> last = Nil
                        /\ row # Nil =>
                             /\ row.status = last.status
                             /\ \/ last.status = "completed"
                                \/ row.maxAttempts = last.maxAttempts
  BY DEF SchedulesReplayed
<1> DEFINE old == tx.schedules[s]
           new == ty.schedules[s]
           was == rf[i].schedules[s]
           is == rf[i + 1].schedules[s]
<1>2. RowAfter(tx, x, cfg, s, old, new)
  BY <1>1, SchedulesWritten DEF SchedulesAfter
<1>3. RowAfter(rf[i], x, cfg, s, was, is)
  BY <1>1, PassStep DEF SchedulesAfter
<1>4. /\ old = Nil <=> was = Nil
      /\ old # Nil => /\ old.status = was.status
                      /\ was.status = "completed" \/ old.maxAttempts = was.maxAttempts
  <2>1. \A j \in (q + 1)..q : FALSE
    OBVIOUS
  <2> QED
    BY <2>1 DEF SchedulesReplayed
<1>5. EndsOne(tx, x, s) <=> EndsOne(rf[i], x, s)
  OBVIOUS
<1> HIDE DEF x, ty, i, old, new, was, is
<1>6. CASE old = Nil
  <2>1. new # Nil <=> is # Nil
    BY <1>2, <1>3, <1>4, <1>6 DEF RowAfter
  <2>2. new # Nil => new.status = is.status /\ new.maxAttempts = is.maxAttempts
    BY <1>2, <1>3, <1>4, <1>6 DEF RowAfter
  <2> QED
    BY <2>1, <2>2 DEF new, is
<1>7. CASE old # Nil
  <2>1. new # Nil /\ is # Nil /\ new.status = is.status
    BY <1>2, <1>3, <1>4, <1>5, <1>7 DEF RowAfter
  <2>2. was.status = "completed" => is.status = "completed"
    BY <1>3, <1>4, <1>7 DEF RowAfter
  <2>3. was.status # "completed" => new.maxAttempts = is.maxAttempts
    BY <1>2, <1>3, <1>4, <1>7 DEF RowAfter
  <2>4. old.maxAttempts = was.maxAttempts \/ was.status = "completed"
    BY <1>4, <1>7
  <2> QED
    BY <2>1, <2>2, <2>3, <2>4 DEF new, is
<1> QED
  BY <1>6, <1>7

(* An entry takes a replay one position on. *)
LEMMA ReplayStep ==
    ASSUME NEW lg, NEW rf, NEW cfg \in ScheduleConfig, OnePass(lg, rf, cfg),
           ProposedFrom(lg, rf, cfg), NEW tx, Sound(tx, lg, cfg),
           NEW p \in Nat, NEW q \in Nat, p < Len(lg), Replayed(tx, lg, rf, cfg, p, q)
    PROVE  Replayed(Dispatch(tx, lg[p + 1]), lg, rf, cfg, p + 1,
                    IF p + 1 > q THEN p + 1 ELSE q)
<1>1. p <= q /\ q <= Len(lg) /\ Len(lg) \in Nat /\ ExecutionsReplayed(tx, lg, rf, p, q)
  BY DEF Replayed, OnePass, LogSound
<1>2. CASE p < q
  <2>1. /\ ExecutionsReplayed(Dispatch(tx, lg[p + 1]), lg, rf, p + 1, q)
        /\ \A e \in Executions(tx) : InFlight(tx, e) => ~Ends(lg[p + 1], e)
    BY <1>1, <1>2, ExecutionsReplayStep
  <2>2. ASSUME NoneEarly(lg, rf)
        PROVE  SchedulesReplayed(Dispatch(tx, lg[p + 1]), lg, rf, p + 1, q)
    <3>1. SchedulesReplayed(tx, lg, rf, p, q)
      BY <2>2 DEF Replayed
    <3> QED
      BY <1>1, <1>2, <2>1, <2>2, <3>1, SchedulesReplayStep
  <2>3. p + 1 <= q /\ ~(p + 1 > q)
    BY <1>2
  <2> QED
    BY <1>1, <2>1, <2>2, <2>3 DEF Replayed
<1>3. CASE p = q
  <2>1. /\ ExecutionsReplayed(Dispatch(tx, lg[q + 1]), lg, rf, q + 1, q + 1)
        /\ \A s : EndsOne(tx, lg[q + 1], s) <=> EndsOne(rf[q + 1], lg[q + 1], s)
    BY <1>1, <1>3, ExecutionsAdvance
  <2>2. ASSUME NoneEarly(lg, rf)
        PROVE  SchedulesReplayed(Dispatch(tx, lg[q + 1]), lg, rf, q + 1, q + 1)
    <3>1. SchedulesReplayed(tx, lg, rf, q, q)
      BY <1>3, <2>2 DEF Replayed
    <3> QED
      BY <1>3, <2>1, <3>1, SchedulesAdvance
  <2>3. q + 1 <= q + 1 /\ q + 1 <= Len(lg) /\ q + 1 > q
    BY <1>1, <1>3
  <2> QED
    BY <1>3, <2>1, <2>2, <2>3 DEF Replayed
<1> QED
  BY <1>1, <1>2, <1>3
-----------------------------------------------------------------------------
(* The invariant of the replays. *)

PassInv ==
    /\ \A i \in DOMAIN log : reference[i + 1] = Dispatch(reference[i], log[i])
    /\ ProposedFrom(log, reference, Config)
    /\ \A k \in DOMAIN reference :
         RunsDue(reference[k], Config) /\ ActiveIsDue(reference[k], Config)

(* An open node is where it says it is; one that is not open keeps its database   *)
(* as it was when it was closed, and opens no other as long as it has a snapshot. *)
NodeReplays(r) ==
    /\ ActiveIsDue(disk[r], Config)
    /\ node[r].open \/ node[r].snapshot # 0
    /\ \E p, q \in 0..Len(log) :
         /\ node[r].open => p = Applied(r) /\ q = node[r].reached
         /\ Replayed(disk[r], log, reference, Config, p, q)

ReplayInv == PassInv /\ \A r \in Replicas : NodeReplays(r)

LEMMA PassOfInvariant ==
    ASSUME IInv, PassInv
    PROVE  /\ Config \in ScheduleConfig /\ OnePass(log, reference, Config)
           /\ Len(log) \in Nat /\ DOMAIN log = 1..Len(log)
           /\ DOMAIN reference = 1..(Len(log) + 1)
           /\ \A r \in Replicas : Sound(disk[r], log, Config)
<1>1. Config \in ScheduleConfig
  BY WorkloadType DEF IInv
<1>2. OnePass(log, reference, Config)
  BY DEF IInv, DatabasesSound, PassInv, OnePass
<1> QED
  BY <1>1, <1>2 DEF OnePass, LogSound, IInv, DatabasesSound

LEMMA ReplayInitial == Init => ReplayInv
<1> SUFFICES ASSUME Init PROVE ReplayInv
  OBVIOUS
<1> DEFINE db == EmptyDatabase
<1>1. /\ Len(log) = 0 /\ DOMAIN log = {} /\ Len(reference) = 1 /\ reference[1] = db
      /\ \A k \in DOMAIN reference : reference[k] = db
      /\ \A r \in Replicas : /\ disk[r] = db /\ node[r].open /\ node[r].reached = 0
                             /\ Applied(r) = 0
  BY DEF Init, Applied
<1>2. Executions(db) = {} /\ \A s \in ScheduleIDs : db.schedules[s] = Nil
  BY DEF EmptyDatabase, Executions
<1> HIDE DEF db
<1>3. RunsDue(db, Config) /\ ActiveIsDue(db, Config)
  BY <1>2 DEF RunsDue, ActiveIsDue
<1>4. PassInv
  BY <1>1, <1>3 DEF PassInv, ProposedFrom
<1>5. Replayed(db, log, reference, Config, 0, 0)
  <2>1. reference[0 + 1] = db
    BY <1>1
  <2>2. ExecutionsReplayed(db, log, reference, 0, 0)
    BY <1>2, <2>1 DEF ExecutionsReplayed
  <2>3. SchedulesReplayed(db, log, reference, 0, 0)
    BY <1>2, <2>1 DEF SchedulesReplayed
  <2> QED
    BY <1>1, <2>2, <2>3 DEF Replayed
<1>6. 0 \in 0..Len(log)
  BY <1>1
<1> QED
  BY <1>1, <1>3, <1>4, <1>5, <1>6 DEF ReplayInv, NodeReplays

-----------------------------------------------------------------------------
(* What a worker has read has been in the pass. *)
LEMMA ReadsThePass ==
    ASSUME IInv, ReplayInv, NEW tx \in Readable
    PROVE  LET n == Len(log)
           IN  /\ \A e \in Executions(tx) :
                    /\ e \in Executions(reference[n + 1])
                    /\ InFlight(tx, e) =>
                         \E k \in 1..(n + 1) :
                            /\ e \in Executions(reference[k])
                            /\ reference[k].executions[e].ownerNodeID
                                 = tx.executions[e].ownerNodeID
               /\ CatchesUp(Config) =>
                    \A s \in ScheduleIDs :
                       tx.schedules[s] # Nil /\ tx.schedules[s].nextRunAt # Nil =>
                          \E k \in 1..(n + 1) :
                             tx.schedules[s].nextRunAt = Due(reference[k], s, Config)
<1> DEFINE n == Len(log)
<1>1. /\ Config \in ScheduleConfig /\ OnePass(log, reference, Config)
      /\ n \in Nat /\ DOMAIN reference = 1..(n + 1)
      /\ \A r \in Replicas : Sound(disk[r], log, Config)
  BY PassOfInvariant DEF ReplayInv
<1>2. ASSUME NEW k \in 1..(n + 1), NEW e \in Executions(reference[k])
      PROVE  e \in Executions(reference[n + 1])
  <2>1. k \in DOMAIN reference /\ n + 1 \in DOMAIN reference /\ k <= n + 1
    BY <1>1
  <2> QED
    BY <1>1, <2>1, ExecutionStays
<1>3. ASSUME NEW tz, Sound(tz, log, Config), ActiveIsDue(tz, Config), CatchesUp(Config),
             NEW s \in ScheduleIDs, tz.schedules[s] # Nil, tz.schedules[s].nextRunAt # Nil
      PROVE  tz.schedules[s].nextRunAt = Due(tz, s, Config)
  <2>1. tz.schedules[s].status = "active"
    BY <1>3 DEF Sound, SchedulesSound, RowSound, DueRow
  <2> QED
    BY <1>3, <2>1 DEF ActiveIsDue
<1>4. CASE \E m \in DOMAIN reference : tx = reference[m]
  <2>1. PICK m \in 1..(n + 1) : tx = reference[m]
    BY <1>1, <1>4
  <2>2. Sound(tx, log, Config) /\ ActiveIsDue(tx, Config)
    BY <1>1, <2>1 DEF OnePass, ReplayInv, PassInv
  <2>3. \A e \in Executions(tx) : e \in Executions(reference[n + 1])
    BY <1>2, <2>1
  <2> QED
    BY <1>3, <2>1, <2>2, <2>3
<1>5. CASE \E r \in Replicas : tx = disk[r]
  <2>1. PICK r \in Replicas : tx = disk[r]
    BY <1>5
  <2>2. PICK p, q \in 0..n : Replayed(tx, log, reference, Config, p, q)
    BY <2>1 DEF ReplayInv, NodeReplays
  <2>3. /\ ExecutionsReplayed(tx, log, reference, p, q) /\ q + 1 \in 1..(n + 1)
        /\ \A k \in p..q : k + 1 \in 1..(n + 1)
    BY <1>1, <2>2 DEF Replayed
  <2>4. Sound(tx, log, Config) /\ ActiveIsDue(tx, Config)
    BY <1>1, <2>1 DEF ReplayInv, NodeReplays
  <2>5. \A s : Due(tx, s, Config) = Due(reference[q + 1], s, Config)
    BY <2>3, DueAlike
  <2>6. ASSUME NEW e \in Executions(tx)
        PROVE  /\ e \in Executions(reference[n + 1])
               /\ InFlight(tx, e) =>
                    \E k \in 1..(n + 1) :
                       /\ e \in Executions(reference[k])
                       /\ reference[k].executions[e].ownerNodeID = tx.executions[e].ownerNodeID
    <3>1. e \in Executions(reference[q + 1])
          /\ (InFlight(tx, e) => OwnerAhead(tx, log, reference, e, p, q))
      BY <2>3 DEF ExecutionsReplayed
    <3>2. e \in Executions(reference[n + 1])
      BY <1>2, <2>3, <3>1
    <3> QED
      BY <2>3, <3>1, <3>2 DEF OwnerAhead
  <2> QED
    BY <1>3, <2>3, <2>4, <2>5, <2>6
<1> QED
  BY <1>4, <1>5 DEF Readable

(* What is proposed comes from what has been there. *)
LEMMA ProposalOfClient ==
    ASSUME NEW type \in DOMAIN ClientCommands, NEW x, x.type = type, NEW rf, NEW i
    PROVE  Proposable(x, rf, i, Config)
<1>1. type \in {"create_tenant", "create_schedule", "update_schedule", "pause_schedule",
                "cancel_schedule", "resume_schedule"}
  BY DEF ClientCommands
<1> QED
  BY <1>1 DEF Proposable, Ends, Adopts

LEMMA ProposalOfWorker ==
    ASSUME IInv, ReplayInv, NEW tx \in Readable,
           NEW type \in DOMAIN WorkerCommands(tx), NEW cmd \in WorkerCommands(tx)[type],
           NEW x, x.type = type, x.cmd = cmd
    PROVE  Proposable(x, reference, Len(log) + 1, Config)
<1> DEFINE n == Len(log)
           inFlight == {e \in Executions(tx) : tx.executions[e].status = "in_flight"}
           owner(e) == tx.executions[e].ownerNodeID
           due == {s \in ScheduleIDs : /\ tx.schedules[s] # Nil
                                       /\ tx.schedules[s].nextRunAt # Nil}
<1>1. \A e \in inFlight :
         /\ e \in Executions(reference[n + 1])
         /\ \E k \in 1..(n + 1) : /\ e \in Executions(reference[k])
                                  /\ reference[k].executions[e].ownerNodeID = owner(e)
  BY ReadsThePass DEF InFlight
<1>2. CatchesUp(Config) =>
         \A s \in due : \E k \in 1..(n + 1) :
            tx.schedules[s].nextRunAt = Due(reference[k], s, Config)
  BY ReadsThePass
<1>3. type \in {"claim_execution", "adopt_execution", "record_attempt",
                "complete_execution", "fail_execution_timeout"}
  BY DEF WorkerCommands
<1> HIDE DEF inFlight, due
<1>4. CASE type = "claim_execution"
  <2>1. PICK e \in {f \in ExecutionIDs : Unused("claim_execution", f)}, s \in due, m \in Nodes :
            cmd = [id |-> e, scheduleID |-> s, ownerNodeID |-> m,
                   scheduledFor |-> tx.schedules[s].nextRunAt]
    BY <1>4 DEF WorkerCommands, due
  <2>2. x.cmd.scheduleID = s /\ x.cmd.scheduledFor = tx.schedules[s].nextRunAt
    BY <2>1
  <2> QED
    BY <1>2, <1>4, <2>2 DEF Proposable, Ends, Adopts
<1>5. CASE type = "adopt_execution"
  <2>1. PICK e \in inFlight, m \in Nodes :
            cmd = [executionID |-> e, previousOwner |-> owner(e), newOwner |-> m]
    BY <1>5 DEF WorkerCommands, inFlight
  <2>2. x.cmd.executionID = e /\ x.cmd.previousOwner = owner(e)
    BY <2>1
  <2> QED
    BY <1>1, <1>5, <2>2 DEF Proposable, Ends, Adopts
<1>6. CASE type = "record_attempt"
  BY <1>6 DEF Proposable, Ends, Adopts
<1>7. CASE type \in {"complete_execution", "fail_execution_timeout"}
  <2>1. PICK e \in inFlight : cmd.executionID = e
    BY <1>7 DEF WorkerCommands, inFlight
  <2> QED
    BY <1>1, <1>7, <2>1 DEF Proposable, Ends, Adopts
<1> QED
  BY <1>3, <1>4, <1>5, <1>6, <1>7
-----------------------------------------------------------------------------
(* The steps. *)
LEMMA ProposedReplays ==
    ASSUME IInv, IInv', ReplayInv, NEW type, NEW cmd, Proposed(type, cmd),
           \A x : x.type = type /\ x.cmd = cmd =>
                     Proposable(x, reference, Len(log) + 1, Config)
    PROVE  ReplayInv'
<1> PICK at \in ProposedTimes :
        LET entry == [type |-> type, cmd |-> cmd, proposedAt |-> at]
        IN  /\ log' = Append(log, entry)
            /\ reference' = Append(reference,
                                   Dispatch(reference[Len(reference)], entry))
            /\ UNCHANGED <<workload, disk, node>>
  BY DEF Proposed
<1> DEFINE n == Len(log)
<1>1. PICK entry, new, more, longer :
         /\ entry.type = type /\ entry.cmd = cmd
         /\ new = Dispatch(reference[Len(reference)], entry)
         /\ more = log' /\ more = Append(log, entry)
         /\ longer = reference' /\ longer = Append(reference, new)
  <2>1. PICK entry : entry = [type |-> type, cmd |-> cmd, proposedAt |-> at]
    OBVIOUS
  <2>2. /\ entry.type = type /\ entry.cmd = cmd
        /\ log' = Append(log, entry)
        /\ reference' = Append(reference, Dispatch(reference[Len(reference)], entry))
    BY <2>1
  <2> QED
    BY <2>2
<1>2. /\ Config \in ScheduleConfig /\ OnePass(log, reference, Config)
      /\ n \in Nat /\ DOMAIN log = 1..n /\ DOMAIN reference = 1..(n + 1)
      /\ Len(reference) = n + 1 /\ reference \in Seq(Database)
      /\ log \in Seq(Entries(Config))
      /\ \A r \in Replicas : Sound(disk[r], log, Config)
  BY PassOfInvariant DEF ReplayInv, OnePass, LogSound
<1>3. Config' = Config /\ Replicas' = Replicas /\ disk' = disk /\ node' = node
  BY DEF Config, Replicas
<1>4. /\ LogSound(more, Config) /\ longer \in Seq(Database) /\ Len(longer) = Len(more) + 1
      /\ \A k \in DOMAIN longer : Sound(longer[k], more, Config)
  BY <1>1, <1>3 DEF IInv, DatabasesSound
<1>5. /\ DOMAIN more = 1..(n + 1) /\ Len(more) = n + 1 /\ DOMAIN longer = 1..(n + 2)
      /\ \A i \in DOMAIN log : more[i] = log[i]
      /\ more[n + 1] = entry
      /\ \A k \in DOMAIN reference : longer[k] = reference[k]
      /\ longer[n + 2] = new
  <2>1. /\ more \in Seq(Entries(Config)) /\ Len(more) = n + 1
        /\ \A i \in 1..n : more[i] = log[i]
        /\ more[n + 1] = entry
    <3>1. more \in Seq(Entries(Config)) /\ Len(more) \in Nat /\ n + 1 \in 1..Len(more)
      BY <1>1, <1>2, <1>4 DEF LogSound
    <3> QED
      BY <1>1, <1>2, <3>1
  <2>2. /\ Len(longer) = n + 2 /\ longer[n + 2] = new
        /\ \A k \in 1..(n + 1) : longer[k] = reference[k]
    BY <1>1, <1>2
  <2> QED
    BY <1>2, <1>4, <2>1, <2>2
<1>6. \A i \in DOMAIN more : longer[i + 1] = Dispatch(longer[i], more[i])
  <2>1. \A i \in 1..n : reference[i + 1] = Dispatch(reference[i], log[i])
    BY <1>2 DEF OnePass
  <2>2. ASSUME NEW i \in 1..n PROVE longer[i + 1] = Dispatch(longer[i], more[i])
    BY <1>2, <1>5, <2>1
  <2>3. longer[(n + 1) + 1] = Dispatch(longer[n + 1], more[n + 1])
    BY <1>1, <1>2, <1>5
  <2> QED
    BY <1>2, <1>5, <2>2, <2>3
<1>7. OnePass(more, longer, Config)
  BY <1>4, <1>6 DEF OnePass
<1>8. ProposedFrom(more, longer, Config)
  <2>1. ASSUME NEW x, NEW i \in 1..(n + 1), Proposable(x, reference, i, Config)
        PROVE  Proposable(x, longer, i, Config)
    <3>1. i \in DOMAIN reference /\ \A k \in 1..i : k \in DOMAIN reference
      BY <1>2
    <3>2. longer[i] = reference[i] /\ \A k \in 1..i : longer[k] = reference[k]
      BY <1>5, <3>1
    <3> QED
      BY <2>1, <3>2 DEF Proposable
  <2>2. \A i \in 1..n : Proposable(more[i], reference, i, Config)
    BY <1>2, <1>5 DEF ReplayInv, PassInv, ProposedFrom
  <2>3. Proposable(more[n + 1], reference, n + 1, Config)
    BY <1>1, <1>5
  <2> QED
    BY <1>2, <1>5, <2>1, <2>2, <2>3 DEF ProposedFrom
<1>9. \A k \in 1..(n + 1) : RunsDue(longer[k], Config) /\ ActiveIsDue(longer[k], Config)
  BY <1>2, <1>5 DEF ReplayInv, PassInv
<1>10. RunsDue(longer[n + 2], Config) /\ ActiveIsDue(longer[n + 2], Config)
  <2>1. n + 1 \in DOMAIN more /\ (n + 1) + 1 = n + 2
    BY <1>2, <1>5
  <2>2. RunsDue(longer[(n + 1) + 1], Config)
    BY <1>2, <1>7, <1>8, <1>9, <2>1, RunsStayDue
  <2>3. /\ Sound(longer[n + 1], more, Config) /\ Sound(longer[(n + 1) + 1], more, Config)
        /\ ExecutionsAfter(longer[n + 1], more[n + 1], longer[(n + 1) + 1])
        /\ SchedulesAfter(longer[n + 1], more[n + 1], longer[(n + 1) + 1], Config)
    BY <1>2, <1>7, <2>1, PassStep
  <2>4. RunsDue(longer[n + 1], Config) /\ ActiveIsDue(longer[n + 1], Config)
    BY <1>2, <1>9
  <2>5. ActiveIsDue(longer[(n + 1) + 1], Config)
    BY <1>2, <1>4, <2>1, <2>3, <2>4, ActiveStaysDue
  <2> QED
    BY <2>1, <2>2, <2>5
<1>11. \A k \in DOMAIN longer : RunsDue(longer[k], Config) /\ ActiveIsDue(longer[k], Config)
  <2>1. \A k \in 1..(n + 2) : k \in 1..(n + 1) \/ k = n + 2
    BY <1>2
  <2> QED
    BY <1>5, <1>9, <1>10, <2>1
<1>12. PassInv'
  BY <1>1, <1>3, <1>6, <1>8, <1>11 DEF PassInv
<1>13. ASSUME NEW r \in Replicas PROVE NodeReplays(r)'
  <2>1. PICK p, q \in 0..n :
           /\ node[r].open => p = Applied(r) /\ q = node[r].reached
           /\ Replayed(disk[r], log, reference, Config, p, q)
    BY DEF ReplayInv, NodeReplays
  <2>2. Replayed(disk[r], more, longer, Config, p, q) /\ p \in 0..Len(more) /\ q \in 0..Len(more)
    <3>1. /\ p \in Nat /\ q \in Nat /\ p \in 0..(n + 1) /\ q \in 0..(n + 1)
          /\ n + 1 \in Nat /\ n <= n + 1
      BY <1>2
    <3>2. /\ Len(more) \in Nat /\ Len(log) <= Len(more) /\ DOMAIN more = 1..Len(more)
          /\ DOMAIN reference = 1..(Len(log) + 1)
      BY <1>2, <1>5, <3>1
    <3>3. Replayed(disk[r], more, longer, Config, p, q)
      BY <1>2, <1>5, <2>1, <3>1, <3>2, ReplayOfLonger
    <3> QED
      BY <1>5, <3>1, <3>3
  <2>3. ActiveIsDue(disk[r], Config) /\ (node[r].open \/ node[r].snapshot # 0)
    BY DEF ReplayInv, NodeReplays
  <2> QED
    BY <1>1, <1>3, <2>1, <2>2, <2>3 DEF NodeReplays, Applied
<1> QED
  BY <1>3, <1>12, <1>13 DEF ReplayInv

LEMMA ApplyReplays ==
    ASSUME IInv, IInv', ReplayInv, NEW r \in Replicas, Apply(r)
    PROVE  ReplayInv'
<1> DEFINE p == Applied(r)
           q == node[r].reached
           tx == disk[r]
           ty == Dispatch(tx, log[p + 1])
<1>1. /\ workload' = workload /\ log' = log /\ reference' = reference
      /\ Replicas' = Replicas /\ Config' = Config
      /\ disk' = [disk EXCEPT ![r] = ty]
      /\ p < Len(log) /\ node[r].open
  BY DEF Apply, EntryPanics, Replicas, Config
<1>2. /\ Config \in ScheduleConfig /\ OnePass(log, reference, Config)
      /\ ProposedFrom(log, reference, Config)
      /\ Len(log) \in Nat /\ DOMAIN log = 1..Len(log) /\ LogSound(log, Config)
      /\ DOMAIN reference = 1..(Len(log) + 1)
      /\ \A z \in Replicas : Sound(disk[z], log, Config)
      /\ disk \in [Replicas -> Database] /\ node \in [Replicas -> NodeState]
  BY PassOfInvariant DEF ReplayInv, PassInv, IInv, DatabasesSound, Positions
<1>3. /\ p \in 0..Len(log) /\ q \in 0..Len(log) /\ p \in Nat /\ q \in Nat
      /\ Replayed(tx, log, reference, Config, p, q)
      /\ ActiveIsDue(tx, Config)
  BY <1>1 DEF ReplayInv, NodeReplays
<1> DEFINE row == [node[r] EXCEPT !.applied = p + 1,
                                  !.reached = IF p + 1 > q THEN p + 1 ELSE q]
<1>4. /\ \A z \in Replicas : z # r => node'[z] = node[z] /\ disk'[z] = disk[z]
      /\ node'[r] = row /\ disk'[r] = ty
  <2>1. node' = [node EXCEPT ![r] = row]
    BY DEF Apply
  <2> HIDE DEF row, ty
  <2> QED
    BY <1>1, <1>2, <2>1
<1>5. /\ row.applied = p + 1
      /\ row.reached = IF p + 1 > q THEN p + 1 ELSE q
      /\ row.open = node[r].open
  <2>1. node[r] \in NodeState
    BY <1>2
  <2>2. PICK state, position, furthest :
           /\ state = node[r] /\ position = p + 1
           /\ furthest = IF p + 1 > q THEN p + 1 ELSE q
    OBVIOUS
  <2>3. row = [state EXCEPT !.applied = position, !.reached = furthest]
    BY <2>2
  <2> HIDE DEF row
  <2>4. row.applied = position /\ row.reached = furthest /\ row.open = state.open
    BY <2>1, <2>2, <2>3 DEF NodeState
  <2> QED
    BY <2>2, <2>4
<1>6. Sound(ty, log, Config)
  BY <1>1, <1>4 DEF IInv, DatabasesSound
<1>7. Replayed(ty, log, reference, Config, p + 1, IF p + 1 > q THEN p + 1 ELSE q)
  <2> HIDE DEF p, q
  <2> QED
    BY <1>1, <1>2, <1>3, ReplayStep
<1>8. ActiveIsDue(ty, Config)
  <2>1. p + 1 \in DOMAIN log /\ q + 1 \in DOMAIN reference
    BY <1>1, <1>2, <1>3
  <2>2. RunsDue(tx, Config)
    <3>1. RunsDue(reference[q + 1], Config)
      BY <2>1 DEF ReplayInv, PassInv
    <3>2. ExecutionsReplayed(tx, log, reference, p, q)
      BY <1>3 DEF Replayed
    <3> QED
      BY <3>1, <3>2, DueAlike
  <2>3. /\ ExecutionsAfter(tx, log[p + 1], ty)
        /\ SchedulesAfter(tx, log[p + 1], ty, Config)
    <3> HIDE DEF p
    <3> QED
      BY <1>2, <2>1, ExecutionsWritten, SchedulesWritten
  <2> HIDE DEF ty, p, q
  <2> QED
    BY <1>2, <1>3, <1>6, <2>1, <2>2, <2>3, ActiveStaysDue
<1>9. NodeReplays(r)'
  <2>1. p + 1 \in 0..Len(log) /\ (IF p + 1 > q THEN p + 1 ELSE q) \in 0..Len(log)
    BY <1>1, <1>2, <1>3
  <2>2. node'[r].open /\ disk'[r] = ty
        /\ node'[r].applied = p + 1 /\ node'[r].reached = IF p + 1 > q THEN p + 1 ELSE q
    BY <1>1, <1>4, <1>5
  <2> HIDE DEF ty, row, p, q
  <2> QED
    BY <1>1, <1>7, <1>8, <2>1, <2>2 DEF NodeReplays, Applied
<1>10. ASSUME NEW z \in Replicas, z # r PROVE NodeReplays(z)'
  <2>1. NodeReplays(z)
    BY DEF ReplayInv
  <2>2. node'[z] = node[z] /\ disk'[z] = disk[z]
    BY <1>4, <1>10
  <2> QED
    BY <1>1, <2>1, <2>2 DEF NodeReplays, Applied
<1>11. PassInv'
  BY <1>1 DEF ReplayInv, PassInv
<1> QED
  BY <1>1, <1>9, <1>10, <1>11 DEF ReplayInv

(* What a node's process goes through: it stays where it is or starts again. *)
LEMMA ProcessReplays ==
    ASSUME IInv, ReplayInv, UNCHANGED <<workload, log, reference, disk>>,
           \A z \in Replicas :
              /\ node'[z].open \/ node'[z].snapshot # 0
              /\ node'[z].open => /\ node[z].open
                                  /\ node'[z].reached = node[z].reached
                                  /\ node'[z].applied \in {0, node[z].applied}
    PROVE  ReplayInv'
<1>1. Replicas' = Replicas /\ Config' = Config
  BY DEF Replicas, Config
<1>2. PassInv'
  BY <1>1 DEF ReplayInv, PassInv
<1>3. ASSUME NEW z \in Replicas PROVE NodeReplays(z)'
  <2>1. PICK p, q \in 0..Len(log) :
           /\ node[z].open => p = Applied(z) /\ q = node[z].reached
           /\ Replayed(disk[z], log, reference, Config, p, q)
    BY DEF ReplayInv, NodeReplays
  <2>2. Replayed(disk[z], log, reference, Config, 0, q) /\ 0 \in 0..Len(log)
    <3>1. /\ LogSound(log, Config) /\ Sound(disk[z], log, Config)
          /\ ProposedFrom(log, reference, Config) /\ Len(log) \in Nat
      BY PassOfInvariant DEF ReplayInv, PassInv, IInv
    <3> QED
      BY <2>1, <3>1, ReplayRestarts
  <2>3. ActiveIsDue(disk[z], Config) /\ (node'[z].open \/ node'[z].snapshot # 0)
    BY DEF ReplayInv, NodeReplays
  <2>4. CASE node'[z].open /\ node'[z].applied = 0
    BY <1>1, <2>1, <2>2, <2>3, <2>4 DEF NodeReplays, Applied
  <2>5. CASE node'[z].open /\ node'[z].applied = node[z].applied
    BY <1>1, <2>1, <2>3, <2>5 DEF NodeReplays, Applied
  <2>6. CASE ~node'[z].open
    BY <1>1, <2>1, <2>3, <2>6 DEF NodeReplays, Applied
  <2> QED
    BY <2>4, <2>5, <2>6
<1> QED
  BY <1>1, <1>2, <1>3 DEF ReplayInv

LEMMA ReplayInvStep == IInv /\ IInv' /\ ReplayInv /\ [Next]_vars => ReplayInv'
<1> SUFFICES ASSUME IInv, IInv', ReplayInv, [Next]_vars PROVE ReplayInv'
  OBVIOUS
<1>1. /\ node \in [Replicas -> NodeState]
      /\ \A z \in Replicas : node[z].open \/ node[z].snapshot # 0
      /\ \A z \in Replicas : node[z].applied \in Nat /\ node[z].snapshot \in Nat
  BY DEF IInv, Positions, ReplayInv, NodeReplays, NodeState
<1>2. CASE ProposeByClient
  <2>1. PICK type \in DOMAIN ClientCommands : \E cmd \in ClientCommands[type] : Proposed(type, cmd)
    BY <1>2 DEF ProposeByClient
  <2>2. PICK cmd \in ClientCommands[type] : Proposed(type, cmd)
    BY <2>1
  <2>3. \A x : x.type = type /\ x.cmd = cmd => Proposable(x, reference, Len(log) + 1, Config)
    BY ProposalOfClient
  <2> QED
    BY <2>2, <2>3, ProposedReplays
<1>3. CASE ProposeByWorker
  <2>1. PICK tx \in Readable : \E type \in DOMAIN WorkerCommands(tx) :
                \E cmd \in WorkerCommands(tx)[type] : Proposed(type, cmd)
    BY <1>3, Zenon DEF ProposeByWorker
  <2>2. PICK type \in DOMAIN WorkerCommands(tx) :
                \E cmd \in WorkerCommands(tx)[type] : Proposed(type, cmd)
    BY <2>1
  <2>3. PICK cmd \in WorkerCommands(tx)[type] : Proposed(type, cmd)
    BY <2>2
  <2>4. \A x : x.type = type /\ x.cmd = cmd => Proposable(x, reference, Len(log) + 1, Config)
    BY ProposalOfWorker
  <2> QED
    BY <2>3, <2>4, ProposedReplays
<1>4. ASSUME NEW r \in Replicas, Apply(r) PROVE ReplayInv'
  BY <1>4, ApplyReplays
<1>5. ASSUME NEW r \in Replicas, PanicInApply(r) PROVE ReplayInv'
  <2>1. node' = [node EXCEPT ![r].panicked = TRUE]
    BY <1>5 DEF PanicInApply
  <2>2. \A z \in Replicas : /\ node'[z].open = node[z].open
                            /\ node'[z].snapshot = node[z].snapshot
                            /\ node'[z].applied = node[z].applied
                            /\ node'[z].reached = node[z].reached
    BY <1>1, <2>1 DEF NodeState
  <2> QED
    BY <1>1, <1>5, <2>2, ProcessReplays DEF PanicInApply
<1>6. ASSUME NEW r \in Replicas, Snapshot(r) PROVE ReplayInv'
  <2>1. node' = [node EXCEPT ![r].snapshot = Applied(r)] /\ Applied(r) > node[r].snapshot
    BY <1>6 DEF Snapshot
  <2>2. \A z \in Replicas : /\ node'[z].open = node[z].open
                            /\ node'[z].snapshot = IF z = r THEN Applied(r)
                                                   ELSE node[z].snapshot
                            /\ node'[z].applied = node[z].applied
                            /\ node'[z].reached = node[z].reached
    BY <1>1, <2>1 DEF NodeState
  <2>3. Applied(r) # 0
    BY <1>1, <2>1
  <2> QED
    BY <1>1, <1>6, <2>2, <2>3, ProcessReplays DEF Snapshot
<1>7. ASSUME NEW r \in Replicas, Restart(r) PROVE ReplayInv'
  <2>1. PICK state, index, open, times :
             /\ state = node[r] /\ index = state.snapshot /\ open = (index = 0)
             /\ times = state.restarts + 1
             /\ node' = [node EXCEPT ![r] =
                          [state EXCEPT !.applied = index, !.open = open,
                                        !.panicked = FALSE, !.restarts = times]]
    BY <1>7 DEF Restart
  <2>2. state \in NodeState /\ open \in BOOLEAN
    BY <1>1, <2>1 DEF NodeState
  <2> DEFINE row == [state EXCEPT !.applied = index, !.open = open,
                                  !.panicked = FALSE, !.restarts = times]
  <2>3. /\ row.reached = state.reached /\ row.applied = index /\ row.open = open
        /\ row.snapshot = index
    BY <2>1, <2>2 DEF NodeState
  <2>4. node' = [node EXCEPT ![r] = row]
    BY <2>1
  <2> HIDE DEF row
  <2>5. \A z \in Replicas : node'[z] = IF z = r THEN row ELSE node[z]
    BY <1>1, <2>4
  <2>6. row.open <=> index = 0
    BY <2>1, <2>3, Zenon
  <2>7. row.open => node[r].open
    BY <1>1, <2>1, <2>6
  <2>8. \A z \in Replicas :
           /\ node'[z].open \/ node'[z].snapshot # 0
           /\ node'[z].open => /\ node[z].open
                               /\ node'[z].reached = node[z].reached
                               /\ node'[z].applied \in {0, node[z].applied}
    BY <1>1, <2>1, <2>3, <2>5, <2>6, <2>7
  <2> QED
    BY <1>7, <2>8, ProcessReplays DEF Restart
<1>8. ASSUME NEW r \in Replicas, NEW s \in Replicas, InstallSnapshot(r, s) PROVE ReplayInv'
  <2>1. PICK state, index : /\ state = node[r] /\ index = node[s].snapshot
                            /\ index > node[r].applied
                            /\ node' = [node EXCEPT ![r] =
                                         [state EXCEPT !.applied = index,
                                                       !.snapshot = index, !.open = FALSE]]
    BY <1>8 DEF InstallSnapshot, Applied
  <2>2. state \in NodeState /\ index \in Nat /\ index # 0
    BY <1>1, <2>1
  <2> DEFINE row == [state EXCEPT !.applied = index, !.snapshot = index, !.open = FALSE]
  <2>3. ~row.open /\ row.snapshot = index
    BY <2>2 DEF NodeState
  <2>4. node' = [node EXCEPT ![r] = row]
    BY <2>1
  <2> HIDE DEF row
  <2>5. \A z \in Replicas : node'[z] = IF z = r THEN row ELSE node[z]
    BY <1>1, <2>4
  <2> QED
    BY <1>1, <1>8, <2>2, <2>3, <2>5, ProcessReplays DEF InstallSnapshot
<1>9. CASE UNCHANGED vars
  BY <1>1, <1>9, ProcessReplays DEF vars
<1> QED
  BY <1>2, <1>3, <1>4, <1>5, <1>6, <1>7, <1>8, <1>9 DEF Next

LEMMA ReplayInvariant == Spec => [](IInv /\ ReplayInv)
BY Initial, ReplayInitial, Step, ReplayInvStep, PTL DEF Spec
-----------------------------------------------------------------------------
(* Once it has caught up, a restarted node agrees with a node that never was on    *)
(* who owns which execution and how it ended, on the status of every schedule, and *)
(* with catch_up_all on when it is due, if no schedule was named before it was      *)
(* created: statemachine.go applies the log again onto the rows it has written     *)
(* before (Replication).                                                        *)
THEOREM RestartedNodesConverge == Spec => []ReplayConverges
<1>1. IInv /\ ReplayInv => ReplayConverges
  <2> SUFFICES ASSUME IInv, ReplayInv, \A i \in DOMAIN log : ~Early(i),
                      NEW r \in Replicas, CaughtUp(r)
               PROVE  LET db == reference[Applied(r) + 1]
                      IN  /\ \A e \in ExecutionIDs :
                               Standing(disk[r].executions[e]) = Standing(db.executions[e])
                          /\ \A s \in ScheduleIDs :
                               /\ disk[r].schedules[s] = Nil <=> db.schedules[s] = Nil
                               /\ db.schedules[s] # Nil =>
                                    /\ disk[r].schedules[s].status = db.schedules[s].status
                                    /\ db.schedules[s].status # "completed" =>
                                         disk[r].schedules[s].maxAttempts
                                           = db.schedules[s].maxAttempts
                                    /\ workload.config.scheduleType = "once"
                                         \/ CatchesUp(workload.config) =>
                                         disk[r].schedules[s].nextRunAt
                                           = db.schedules[s].nextRunAt
    BY DEF ReplayConverges
  <2> DEFINE q == Applied(r)
             tx == disk[r]
             db == reference[q + 1]
  <2>1. /\ Replayed(tx, log, reference, Config, q, q) /\ ActiveIsDue(tx, Config)
        /\ q \in 0..Len(log) /\ q \in Nat
    BY DEF ReplayInv, NodeReplays, CaughtUp
  <2>2. /\ Config \in ScheduleConfig /\ Len(log) \in Nat
        /\ DOMAIN reference = 1..(Len(log) + 1)
        /\ Sound(tx, log, Config) /\ Sound(db, log, Config) /\ ActiveIsDue(db, Config)
    <3>1. /\ DOMAIN reference = 1..(Len(log) + 1) /\ Len(log) \in Nat
          /\ Config \in ScheduleConfig /\ Sound(tx, log, Config)
      BY PassOfInvariant DEF ReplayInv
    <3>2. q + 1 \in DOMAIN reference
      BY <2>1, <3>1
    <3> QED
      BY <3>1, <3>2 DEF IInv, DatabasesSound, ReplayInv, PassInv
  <2>3. ExecutionsReplayed(tx, log, reference, q, q)
    BY <2>1 DEF Replayed
  <2>4. SchedulesReplayed(tx, log, reference, q, q)
    <3>1. NoneEarly(log, reference)
      BY DEF Early, NoneEarly
    <3> QED
      BY <2>1, <3>1 DEF Replayed
  <2>5. \A e \in Executions(tx) :
           InFlight(tx, e) => db.executions[e].ownerNodeID = tx.executions[e].ownerNodeID
    BY <2>1, <2>3, OwnersAlike
  <2>6. \A s : Due(tx, s, Config) = Due(db, s, Config)
    BY <2>3, DueAlike
  <2>7. /\ Executions(tx) = Executions(db)
        /\ \A e \in Executions(tx) :
             /\ SameOccurrence(tx.executions[e], db.executions[e])
             /\ tx.executions[e].status = db.executions[e].status
    BY <2>3 DEF ExecutionsReplayed
  <2>8. \A s \in ScheduleIDs :
           /\ tx.schedules[s] = Nil <=> db.schedules[s] = Nil
           /\ db.schedules[s] # Nil =>
                /\ tx.schedules[s].status = db.schedules[s].status
                /\ db.schedules[s].status # "completed" =>
                     tx.schedules[s].maxAttempts = db.schedules[s].maxAttempts
    <3>1. \A i \in (q + 1)..q : FALSE
      BY <2>1
    <3> QED
      BY <2>4, <3>1 DEF SchedulesReplayed
  <2> HIDE DEF tx, db, q
  <2>9. ASSUME NEW e \in ExecutionIDs
        PROVE  Standing(tx.executions[e]) = Standing(db.executions[e])
    <3>1. CASE e \in Executions(tx)
      <4>1. tx.executions[e].ownerNodeID = db.executions[e].ownerNodeID
        <5>1. CASE InFlight(tx, e)
          BY <2>5, <3>1, <5>1
        <5>2. CASE ~InFlight(tx, e)
          BY <2>2, <2>7, <3>1, <5>2 DEF InFlight, Sound, Owned
        <5> QED
          BY <5>1, <5>2
      <4>2. tx.executions[e] # Nil /\ db.executions[e] # Nil
        BY <2>7, <3>1 DEF Executions
      <4> QED
        BY <2>7, <3>1, <4>1, <4>2 DEF Standing, SameOccurrence
    <3>2. CASE e \notin Executions(tx)
      BY <2>7, <3>2 DEF Executions, Standing
    <3> QED
      BY <3>1, <3>2
  <2>10. ASSUME NEW s \in ScheduleIDs, db.schedules[s] # Nil,
                Config.scheduleType = "once" \/ CatchesUp(Config)
         PROVE  tx.schedules[s].nextRunAt = db.schedules[s].nextRunAt
    <3>1. /\ tx.schedules[s] # Nil /\ tx.schedules[s].status = db.schedules[s].status
          /\ RowSound(tx.schedules[s], EndedIn(tx, s), Config)
          /\ RowSound(db.schedules[s], EndedIn(db, s), Config)
      BY <2>2, <2>8, <2>10 DEF Sound, SchedulesSound
    <3>2. CASE db.schedules[s].status # "active"
      BY <3>1, <3>2 DEF RowSound, DueRow
    <3>3. CASE db.schedules[s].status = "active" /\ Config.scheduleType = "once"
      BY <3>1, <3>3 DEF RowSound, DueRow
    <3>4. CASE db.schedules[s].status = "active" /\ Config.scheduleType # "once"
      BY <2>1, <2>2, <2>6, <2>10, <3>1, <3>4 DEF ActiveIsDue
    <3> QED
      BY <3>2, <3>3, <3>4
  <2> QED
    BY <2>8, <2>9, <2>10 DEF tx, db, q, Config
<1> QED
  BY <1>1, ReplayInvariant, PTL
=============================================================================
