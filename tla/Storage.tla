------------------------------- MODULE Storage ------------------------------
(***************************************************************************)
(* internal/storage: the rows of executions and attempts, the three index    *)
(* buckets that list them, and bolt's transactions: one writer at a time,     *)
(* whose puts nobody sees before it commits, and readers that keep the        *)
(* database they began with.                                                 *)
(*                                                                           *)
(* A key joins ids with a colon, and an id may contain colons of its own: an   *)
(* id is the sequence of the parts between them, so that joining is           *)
(* concatenation and bytes.HasPrefix on a prefix that ends in a colon is a     *)
(* strict prefix of sequences.  Buckets of tenants and schedules have no       *)
(* index and are left out.                                                   *)
(***************************************************************************)
EXTENDS Naturals, SequencesExt

CONSTANTS Tenants, ScheduleIDs, ExecutionIDs, AttemptIDs,  \* sets of ids
          ExecutionOf,  \* ExecutionOf[a]: the execution attempt a is of
          Views,        \* the read transactions that may be open
          Nil           \* no row, no transaction, no attempt yet

Ids == Seq(STRING) \ {<<>>}

(* The rows, with the fields that keys, lists and summaries are made of; one end   *)
(* of an execution stands for all.                                           *)
Statuses == {"in_flight", "succeeded"}

Execution == [tenantID : Tenants, id : ExecutionIDs, scheduleID : ScheduleIDs,
              status : Statuses, lastAttemptID : AttemptIDs \cup {Nil}]

Attempt == [tenantID : Tenants, id : AttemptIDs, executionID : ExecutionIDs]

ASSUME StorageAssumption ==
    /\ Tenants \cup ScheduleIDs \cup ExecutionIDs \cup AttemptIDs \subseteq Ids
    /\ ExecutionOf \in [AttemptIDs -> ExecutionIDs]
    /\ Nil \notin Execution
    /\ Nil \notin Attempt

VARIABLES
    committed,  \* the buckets as the last transaction left them
    pending,    \* the writer's buckets, Nil when nobody writes
    todo,       \* the puts the writer has still to make
    view        \* view[v]: the buckets read transaction v sees, Nil when closed

vars == <<committed, pending, todo, view>>

EmptyBuckets == [executions |-> {}, attempts |-> {}, executions_by_schedule |-> {},
                 executions_by_status |-> {}, attempts_by_execution |-> {}]

Init ==
    /\ committed = EmptyBuckets
    /\ pending = Nil
    /\ todo = <<>>
    /\ view = [v \in Views |-> Nil]

-----------------------------------------------------------------------------
(* Buckets of rows are sets of key-value pairs, index buckets sets of keys.   *)

executionKey(tenantID, id) == tenantID \o id
attemptKey(tenantID, id) == tenantID \o id
executionByScheduleKey(tenantID, scheduleID, id) == tenantID \o scheduleID \o id
executionByStatusKey(tenantID, status, id) == tenantID \o <<status>> \o id
attemptsByExecutionKey(tenantID, executionID, id) == tenantID \o executionID \o id

Get(bucket, key) ==
    IF \E p \in bucket : p.key = key
    THEN (CHOOSE p \in bucket : p.key = key).row
    ELSE Nil

Put(bucket, key, row) ==
    {p \in bucket : p.key # key} \cup {[key |-> key, row |-> row]}

GetExecution(b, tenantID, id) == Get(b.executions, executionKey(tenantID, id))
GetAttempt(b, tenantID, id) == Get(b.attempts, attemptKey(tenantID, id))

(* Mutant: the by-status entry of the old row stays. *)
PutExecutionKeepingEntry(b, ex) ==
    [b EXCEPT
        !.executions = Put(@, executionKey(ex.tenantID, ex.id), ex),
        !.executions_by_status =
            @ \cup {executionByStatusKey(ex.tenantID, ex.status, ex.id)},
        !.executions_by_schedule =
            @ \cup {executionByScheduleKey(ex.tenantID, ex.scheduleID, ex.id)}]

(* The row moves from its old status to its new one. *)
PutExecution(b, ex) ==
    LET old == GetExecution(b, ex.tenantID, ex.id)
        stale == IF old = Nil THEN {}
                 ELSE {executionByStatusKey(old.tenantID, old.status, old.id)}
    IN  [b EXCEPT
            !.executions = Put(@, executionKey(ex.tenantID, ex.id), ex),
            !.executions_by_status =
                (@ \ stale) \cup {executionByStatusKey(ex.tenantID, ex.status, ex.id)},
            !.executions_by_schedule =
                @ \cup {executionByScheduleKey(ex.tenantID, ex.scheduleID, ex.id)}]

PutAttempt(b, at) ==
    [b EXCEPT
        !.attempts = Put(@, attemptKey(at.tenantID, at.id), at),
        !.attempts_by_execution =
            @ \cup {attemptsByExecutionKey(at.tenantID, at.executionID, at.id)}]

(* The ids an index lists below a prefix: what is left of its keys. *)
Below(index, prefix) ==
    {SubSeq(k, Len(prefix) + 1, Len(k)) : k \in {l \in index : IsStrictPrefix(prefix, l)}}

(* The rows listed, Nil among them for an entry whose row is missing. *)
ListExecutionsBySchedule(b, tenantID, scheduleID) ==
    {GetExecution(b, tenantID, id) :
        id \in Below(b.executions_by_schedule, tenantID \o scheduleID)}

ListExecutionsByStatus(b, tenantID, status) ==
    {GetExecution(b, tenantID, id) :
        id \in Below(b.executions_by_status, tenantID \o <<status>>)}

ListAttemptsByExecution(b, tenantID, executionID) ==
    {GetAttempt(b, tenantID, id) :
        id \in Below(b.attempts_by_execution, tenantID \o executionID)}

-----------------------------------------------------------------------------
(* Transactions.  The handlers read what they need, then put their rows one    *)
(* after the other.                                                          *)

BeginUpdate(puts) ==
    /\ pending = Nil
    /\ pending' = committed
    /\ todo' = puts
    /\ UNCHANGED <<committed, view>>

ExecutionPut(ex) == [kind |-> "execution", row |-> ex]
AttemptPut(at) == [kind |-> "attempt", row |-> at]

(* claim_execution lists the schedule's executions and adds one; a list that   *)
(* meets a missing row fails, and the claim with it.  An id is made for one       *)
(* claim: where its row exists, a replayed one finds its occurrence taken.      *)
UpdateClaim(t, s, e) ==
    /\ GetExecution(committed, t, e) = Nil
    /\ Nil \notin ListExecutionsBySchedule(committed, t, s)
    /\ BeginUpdate(<<ExecutionPut([tenantID |-> t, id |-> e, scheduleID |-> s,
                                   status |-> "in_flight", lastAttemptID |-> Nil])>>)

(* Mutant: the attempt row and its parent are written by two transactions. *)
UpdateRecordInTwo(t, a) ==
    LET ex == GetExecution(committed, t, ExecutionOf[a])
    IN  /\ ex # Nil
        /\ ex.status = "in_flight"
        /\ \E put \in {AttemptPut([tenantID |-> t, id |-> a, executionID |-> ex.id]),
                       ExecutionPut([ex EXCEPT !.lastAttemptID = a])} :
             BeginUpdate(<<put>>)

(* record_attempt puts the attempt, then its execution's summary of it.  Nothing   *)
(* asks whether the attempt has a row already, as it has when its entry is        *)
(* replayed onto a database that was kept.                                    *)
UpdateRecord(t, a) ==
    LET ex == GetExecution(committed, t, ExecutionOf[a])
    IN  /\ ex # Nil
        /\ ex.status = "in_flight"
        /\ BeginUpdate(<<AttemptPut([tenantID |-> t, id |-> a, executionID |-> ex.id]),
                         ExecutionPut([ex EXCEPT !.lastAttemptID = a])>>)

UpdateComplete(t, e) ==
    LET ex == GetExecution(committed, t, e)
    IN  /\ ex # Nil
        /\ ex.status = "in_flight"
        /\ BeginUpdate(<<ExecutionPut([ex EXCEPT !.status = "succeeded"])>>)

(* The next put of the transaction. *)
MakePut ==
    /\ todo # <<>>
    /\ LET put == Head(todo)
       IN  pending' = IF put.kind = "execution" THEN PutExecution(pending, put.row)
                      ELSE PutAttempt(pending, put.row)
    /\ todo' = Tail(todo)
    /\ UNCHANGED <<committed, view>>

Commit ==
    /\ pending # Nil
    /\ todo = <<>>
    /\ committed' = pending
    /\ pending' = Nil
    /\ UNCHANGED <<todo, view>>

(* A put fails, or the process stops: nothing of the transaction remains. *)
Rollback ==
    /\ pending # Nil
    /\ pending' = Nil
    /\ todo' = <<>>
    /\ UNCHANGED <<committed, view>>

BeginView(v) ==
    /\ view[v] = Nil
    /\ view' = [view EXCEPT ![v] = committed]
    /\ UNCHANGED <<committed, pending, todo>>

EndView(v) ==
    /\ view[v] # Nil
    /\ view' = [view EXCEPT ![v] = Nil]
    /\ UNCHANGED <<committed, pending, todo>>

Next ==
    \/ \E t \in Tenants, e \in ExecutionIDs :
         \/ \E s \in ScheduleIDs : UpdateClaim(t, s, e)
         \/ UpdateComplete(t, e)
    \/ \E t \in Tenants, a \in AttemptIDs : UpdateRecord(t, a)
    \/ MakePut
    \/ Commit
    \/ Rollback
    \/ \E v \in Views : BeginView(v) \/ EndView(v)

Spec == Init /\ [][Next]_vars

-----------------------------------------------------------------------------
(* Properties. *)

Rows(bucket) == {p.row : p \in bucket}

(* The buckets somebody may be reading: a new transaction's and the open ones'. *)
Visible == {committed} \cup {view[v] : v \in {w \in Views : view[w] # Nil}}

(* Every list holds exactly the rows that belong on it, those of its tenant,   *)
(* in their present status, and no entry is left over of a row that moved on,  *)
(* in whatever order transactions commit, roll back and are read, and with     *)
(* colons in the ids, as long as none continues another one after a colon.    *)
ListsMatchRows ==
    \A b \in Visible, t \in Tenants :
        /\ \A s \in ScheduleIDs :
             ListExecutionsBySchedule(b, t, s)
                = {ex \in Rows(b.executions) : ex.tenantID = t /\ ex.scheduleID = s}
        /\ \A status \in Statuses :
             ListExecutionsByStatus(b, t, status)
                = {ex \in Rows(b.executions) : ex.tenantID = t /\ ex.status = status}
        /\ \A e \in ExecutionIDs :
             ListAttemptsByExecution(b, t, e)
                = {at \in Rows(b.attempts) : at.tenantID = t /\ at.executionID = e}

(* A worker reads an execution in one View, and lists its attempts in a later one   *)
(* (recovery, finalization): the attempt the row names as its last is on the list,  *)
(* in the View the row was read in and in whatever is committed by then.         *)
LastAttemptIsListed ==
    \A b \in Visible : \A ex \in Rows(b.executions) :
        ex.lastAttemptID # Nil =>
            \A later \in {b, committed} :
                [tenantID |-> ex.tenantID, id |-> ex.lastAttemptID, executionID |-> ex.id]
                    \in ListAttemptsByExecution(later, ex.tenantID, ex.id)
=============================================================================
