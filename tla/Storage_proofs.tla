--------------------------- MODULE Storage_proofs ---------------------------
(***************************************************************************)
(* Theorems about the index buckets and bolt's transactions, for any ids of    *)
(* which none continues another one of its kind after a colon.  The ids the    *)
(* service makes are ULIDs and have no colon; those a client chooses may        *)
(* have some.                                                               *)
(***************************************************************************)
EXTENDS Storage, SequenceTheorems, TLAPS

NoneContinues(S) == \A p, q \in S : ~IsStrictPrefix(p, q)

IdsApart ==
    /\ NoneContinues(Tenants)
    /\ NoneContinues(ScheduleIDs)
    /\ NoneContinues(ExecutionIDs)

(* What keys are joined from; that a status is a string is not something the    *)
(* provers know.                                                             *)
Parts == STRING \cup Statuses

Separate(S) == S \in SUBSET Seq(Parts) /\ NoneContinues(S)

-----------------------------------------------------------------------------
(* Keys of an index: a tenant, the id of what is listed below, the id listed.  *)

LEMMA PrefixElements ==
    ASSUME NEW S, NEW p \in Seq(S), NEW k \in Seq(S)
    PROVE  IsPrefix(p, k) <=> /\ Len(p) <= Len(k)
                              /\ \A i \in 1..Len(p) : p[i] = k[i]
<1>1. Len(p) \in Nat /\ Len(k) \in Nat
  BY LenProperties
<1>2. \A i \in 1..Len(p) : p[i] \in S
  BY ElementOfSeq
<1>3. SubSeq(p, 1, Len(p)) = p
  BY SubSeqFull
<1> SUFFICES ASSUME Len(p) <= Len(k)
             PROVE  SubSeq(k, 1, Len(p)) = p <=> \A i \in 1..Len(p) : p[i] = k[i]
  BY <1>3 DEF IsPrefix
<1>4. \A i \in 1..Len(p) : k[i] \in S
  BY <1>1, ElementOfSeq
<1>5. /\ SubSeq(k, 1, Len(p)) \in Seq(S)
      /\ Len(SubSeq(k, 1, Len(p))) = Len(p)
      /\ \A i \in 1..Len(p) : SubSeq(k, 1, Len(p))[i] = k[i]
  BY <1>1, <1>4, SubSeqProperties, Z3
<1> QED
  BY <1>1, <1>5, SeqEqual

(* Two of which neither continues the other begin a sequence only if they agree. *)
LEMMA OneBegins ==
    ASSUME NEW S, NEW p \in Seq(S), NEW q \in Seq(S),
           ~IsStrictPrefix(p, q), ~IsStrictPrefix(q, p),
           \A i \in 1..Len(p) : i <= Len(q) => p[i] = q[i]
    PROVE  p = q
<1>1. Len(p) \in Nat /\ Len(q) \in Nat
  BY LenProperties
<1>2. CASE Len(p) <= Len(q)
  <2>1. IsPrefix(p, q)
    BY <1>1, <1>2, PrefixElements
  <2> QED
    BY <2>1 DEF IsStrictPrefix
<1>3. CASE Len(q) <= Len(p)
  <2>1. IsPrefix(q, p)
    BY <1>1, <1>3, PrefixElements
  <2> QED
    BY <2>1 DEF IsStrictPrefix
<1> QED
  BY <1>1, <1>2, <1>3

(* What a key that begins with t and m is made of. *)
LEMMA KeyParts ==
    ASSUME NEW T, NEW M, Separate(T), Separate(M),
           NEW t \in T, NEW m \in M, NEW u \in T, NEW n \in M, NEW id \in Seq(Parts),
           IsPrefix(t \o m, u \o n \o id)
    PROVE  t = u /\ m = n
<1> DEFINE p == t \o m
           h == u \o n
           k == h \o id
<1>1. /\ t \in Seq(Parts) /\ m \in Seq(Parts) /\ u \in Seq(Parts) /\ n \in Seq(Parts)
      /\ Len(t) \in Nat /\ Len(m) \in Nat /\ Len(u) \in Nat /\ Len(n) \in Nat
      /\ Len(id) \in Nat
  BY LenProperties DEF Separate
<1>2. /\ p \in Seq(Parts) /\ Len(p) = Len(t) + Len(m)
      /\ \A i \in 1..(Len(t) + Len(m)) : p[i] = IF i <= Len(t) THEN t[i] ELSE m[i - Len(t)]
  BY <1>1, ConcatProperties
<1>3. /\ h \in Seq(Parts) /\ Len(h) = Len(u) + Len(n)
      /\ \A i \in 1..(Len(u) + Len(n)) : h[i] = IF i <= Len(u) THEN u[i] ELSE n[i - Len(u)]
  BY <1>1, ConcatProperties
<1> HIDE DEF h, p
<1>4. /\ k \in Seq(Parts) /\ Len(k) = Len(h) + Len(id)
      /\ \A i \in 1..Len(h) : k[i] = h[i]
  <2>1. /\ k \in Seq(Parts) /\ Len(k) = Len(h) + Len(id)
        /\ \A i \in 1..(Len(h) + Len(id)) : k[i] = IF i <= Len(h) THEN h[i] ELSE id[i - Len(h)]
    <3>1. PICK front \in Seq(Parts) : front = h
      BY <1>3
    <3>2. k = front \o id
      BY <3>1
    <3> QED
      BY <3>1, <3>2, ConcatProperties
  <2> HIDE DEF k
  <2> QED
    BY <1>1, <1>3, <2>1
<1>5. Len(p) <= Len(k) /\ \A i \in 1..Len(p) : p[i] = k[i]
  <2>1. IsPrefix(p, k)
    BY DEF p, h
  <2> QED
    BY <1>2, <1>4, <2>1, PrefixElements
<1> HIDE DEF k
<1>6. t = u
  <2>1. \A i \in 1..Len(t) : i <= Len(u) => t[i] = u[i]
    <3> SUFFICES ASSUME NEW i \in 1..Len(t), i <= Len(u) PROVE t[i] = u[i]
      OBVIOUS
    <3>1. i \in 1..(Len(t) + Len(m)) /\ i \in 1..(Len(u) + Len(n))
      BY <1>1
    <3> QED
      BY <1>1, <1>2, <1>3, <1>4, <1>5, <3>1
  <2> QED
    BY <1>1, <2>1, OneBegins DEF Separate, NoneContinues
<1>7. m = n
  <2>1. \A i \in 1..Len(m) : i <= Len(n) => m[i] = n[i]
    <3> SUFFICES ASSUME NEW i \in 1..Len(m), i <= Len(n) PROVE m[i] = n[i]
      OBVIOUS
    <3>1. PICK j \in Nat : j = Len(t) + i
      BY <1>1
    <3>2. /\ j \in 1..(Len(t) + Len(m)) /\ j \in 1..(Len(u) + Len(n))
          /\ ~(j <= Len(t)) /\ j - Len(t) = i
      BY <1>1, <1>6, <3>1
    <3>3. p[j] = m[i] /\ h[j] = n[i]
      BY <1>2, <1>3, <1>6, <3>2
    <3> QED
      BY <1>2, <1>3, <1>4, <1>5, <3>2, <3>3
  <2> QED
    BY <1>1, <2>1, OneBegins DEF Separate, NoneContinues
<1> QED
  BY <1>6, <1>7

(* A key read below its prefix is the id it lists. *)
LEMMA RestOfKey ==
    ASSUME NEW S, NEW p \in Seq(S), NEW id \in Seq(S), id # <<>>
    PROVE  /\ IsStrictPrefix(p, p \o id)
           /\ SubSeq(p \o id, Len(p) + 1, Len(p \o id)) = id
<1> DEFINE k == p \o id
           rest == SubSeq(k, Len(p) + 1, Len(k))
<1>1. Len(p) \in Nat /\ Len(id) \in Nat /\ Len(id) # 0
  BY LenProperties, EmptySeq
<1>2. /\ k \in Seq(S) /\ Len(k) = Len(p) + Len(id)
      /\ \A i \in 1..(Len(p) + Len(id)) : k[i] = IF i <= Len(p) THEN p[i] ELSE id[i - Len(p)]
  BY ConcatProperties
<1> HIDE DEF k
<1>3. IsStrictPrefix(p, k)
  <2>1. IsPrefix(p, k)
    BY <1>1, <1>2, PrefixElements
  <2>2. p # k
    BY <1>1, <1>2
  <2> QED
    BY <2>1, <2>2 DEF IsStrictPrefix
<1>4. /\ rest \in Seq(S) /\ Len(rest) = Len(id)
      /\ \A i \in 1..Len(id) : rest[i] = k[Len(p) + i]
  <2>1. \A i \in (Len(p) + 1)..Len(k) : k[i] \in S
    BY <1>1, <1>2, ElementOfSeq
  <2>2. /\ rest \in Seq(S)
        /\ Len(rest) = IF Len(p) + 1 <= Len(k) THEN Len(k) - (Len(p) + 1) + 1 ELSE 0
        /\ \A i \in 1..(Len(k) - (Len(p) + 1) + 1) : rest[i] = k[(Len(p) + 1) + i - 1]
    <3>1. Len(p) + 1 \in Int /\ Len(k) \in Int
      BY <1>1, <1>2
    <3> QED
      BY <2>1, <3>1, SubSeqProperties
  <2> HIDE DEF rest
  <2>3. Len(k) - (Len(p) + 1) + 1 = Len(id) /\ Len(p) + 1 <= Len(k)
    BY <1>1, <1>2
  <2>4. \A i \in 1..Len(id) : (Len(p) + 1) + i - 1 = Len(p) + i
    BY <1>1
  <2> QED
    BY <2>2, <2>3, <2>4
<1> HIDE DEF rest
<1>5. \A i \in 1..Len(id) : rest[i] = id[i]
  BY <1>1, <1>2, <1>4
<1>6. rest = id
  BY <1>4, <1>5, SeqEqual
<1> QED
  BY <1>3, <1>6 DEF k, rest
-----------------------------------------------------------------------------
(* Rows and the lists of them. *)

(* The keys of an execution's row and of an attempt's are joined the same way. *)
RowKey(row) == executionKey(row.tenantID, row.id)

(* A bucket of rows: each below its key, one below a key. *)
Keyed(bucket) ==
    /\ \A p \in bucket : p.key = RowKey(p.row)
    /\ \A p, q \in bucket : p.key = q.key => p = q

Buckets ==
    [executions : SUBSET [key : Seq(Parts), row : Execution],
     attempts : SUBSET [key : Seq(Parts), row : Attempt],
     executions_by_schedule : SUBSET Seq(Parts),
     executions_by_status : SUBSET Seq(Parts),
     attempts_by_execution : SUBSET Seq(Parts)]

(* An index has the keys of the rows, and no other. *)
Indexed(b) ==
    /\ b.executions_by_schedule =
         {executionByScheduleKey(ex.tenantID, ex.scheduleID, ex.id) : ex \in Rows(b.executions)}
    /\ b.executions_by_status =
         {executionByStatusKey(ex.tenantID, ex.status, ex.id) : ex \in Rows(b.executions)}
    /\ b.attempts_by_execution =
         {attemptsByExecutionKey(at.tenantID, at.executionID, at.id) : at \in Rows(b.attempts)}

Sound(b) ==
    /\ b \in Buckets
    /\ Keyed(b.executions) /\ Keyed(b.attempts)
    /\ Indexed(b)

LEMMA AttemptKeys == \A t, a : attemptKey(t, a) = executionKey(t, a)
BY DEF attemptKey, executionKey

LEMMA GetRow ==
    ASSUME NEW bucket, Keyed(bucket), NEW row \in Rows(bucket)
    PROVE  Get(bucket, RowKey(row)) = row
<1>1. PICK p \in bucket : p.row = row
  BY DEF Rows
<1>2. p.key = RowKey(row) /\ \A q \in bucket : q.key = p.key => q = p
  BY <1>1 DEF Keyed
<1> DEFINE found == CHOOSE q \in bucket : q.key = RowKey(row)
<1>3. found \in bucket /\ found.key = p.key
  BY <1>2
<1> HIDE DEF found
<1>4. found = p
  BY <1>2, <1>3
<1> QED
  BY <1>1, <1>2, <1>4 DEF Get, found

LEMMA GotRow ==
    ASSUME NEW bucket, NEW key, Get(bucket, key) # Nil
    PROVE  \E p \in bucket : p.key = key /\ p.row = Get(bucket, key)
<1>1. PICK p \in bucket : p.key = key
  BY DEF Get
<1> DEFINE found == CHOOSE q \in bucket : q.key = key
<1>2. found \in bucket /\ found.key = key
  BY <1>1
<1> HIDE DEF found
<1> QED
  BY <1>1, <1>2 DEF Get, found

LEMMA PutRow ==
    ASSUME NEW bucket, Keyed(bucket), NEW row, NEW key, key = RowKey(row)
    PROVE  /\ Keyed(Put(bucket, key, row))
           /\ Rows(Put(bucket, key, row))
                = {r \in Rows(bucket) : RowKey(r) # key} \cup {row}
<1> DEFINE new == [key |-> key, row |-> row]
           others == {p \in bucket : p.key # key}
<1>1. Put(bucket, key, row) = others \cup {new}
  BY DEF Put
<1>2. new.key = key /\ new.row = row
  OBVIOUS
<1> HIDE DEF new
<1>3. Keyed(others \cup {new})
  BY <1>2 DEF Keyed
<1>4. Rows(others \cup {new}) = Rows(others) \cup {row}
  BY <1>2 DEF Rows
<1>5. Rows(others) = {r \in Rows(bucket) : RowKey(r) # key}
  BY DEF Rows, Keyed
<1> QED
  BY <1>1, <1>3, <1>4, <1>5

Keys(X, first, second, last) == {first[x] \o second[x] \o last[x] : x \in X}

Under(X, first, second, last, t, m) ==
    {last[x] : x \in {y \in X : first[y] = t /\ second[y] = m}}

(* What an index of such keys lists below a prefix. *)
LEMMA BelowIds ==
    ASSUME NEW T, NEW M, Separate(T), Separate(M), NEW X, NEW first, NEW second, NEW last,
           \A x \in X : /\ first[x] \in T /\ second[x] \in M
                       /\ last[x] \in Seq(Parts) /\ last[x] # <<>>,
           NEW t \in T, NEW m \in M
    PROVE  Below(Keys(X, first, second, last), t \o m)
              = Under(X, first, second, last, t, m)
<1> DEFINE index == Keys(X, first, second, last)
           prefix == t \o m
           listed == Under(X, first, second, last, t, m)
<1>1. ASSUME NEW x \in X
      PROVE  first[x] \in T /\ second[x] \in M /\ last[x] \in Seq(Parts) /\ last[x] # <<>>
  OBVIOUS
<1>2. prefix \in Seq(Parts)
  BY ConcatProperties DEF Separate
<1>3. ASSUME NEW x \in X, first[x] = t, second[x] = m
      PROVE  /\ IsStrictPrefix(prefix, first[x] \o second[x] \o last[x])
             /\ SubSeq(first[x] \o second[x] \o last[x], Len(prefix) + 1,
                       Len(first[x] \o second[x] \o last[x])) = last[x]
  <2>1. first[x] \o second[x] = prefix
    BY <1>3
  <2> HIDE DEF prefix
  <2> QED
    BY <1>1, <1>2, <2>1, RestOfKey
<1>4. ASSUME NEW x \in X, IsStrictPrefix(prefix, first[x] \o second[x] \o last[x])
      PROVE  first[x] = t /\ second[x] = m
  <2>1. IsPrefix(t \o m, first[x] \o second[x] \o last[x])
    BY <1>4 DEF IsStrictPrefix
  <2>2. PICK u \in T, n \in M, id \in Seq(Parts) :
          u = first[x] /\ n = second[x] /\ id = last[x]
    BY <1>1
  <2>3. IsPrefix(t \o m, u \o n \o id)
    BY <2>1, <2>2
  <2>4. t = u /\ m = n
    BY <2>3, KeyParts, Zenon
  <2> QED
    BY <2>2, <2>4
<1>5. Below(index, prefix) =
        {SubSeq(k, Len(prefix) + 1, Len(k)) : k \in {l \in index : IsStrictPrefix(prefix, l)}}
  BY DEF Below
<1> HIDE DEF prefix
<1>6. ASSUME NEW id \in Below(index, prefix)
      PROVE  id \in listed
  <2>1. PICK x \in X : /\ IsStrictPrefix(prefix, first[x] \o second[x] \o last[x])
                       /\ id = SubSeq(first[x] \o second[x] \o last[x], Len(prefix) + 1,
                                      Len(first[x] \o second[x] \o last[x]))
    BY <1>5 DEF Keys
  <2> QED
    BY <1>3, <1>4, <2>1 DEF Under
<1>7. ASSUME NEW id \in listed
      PROVE  id \in Below(index, prefix)
  <2>1. PICK x \in X : first[x] = t /\ second[x] = m /\ id = last[x]
    BY DEF Under
  <2>2. first[x] \o second[x] \o last[x] \in index
    BY DEF Keys
  <2> HIDE DEF index
  <2> QED
    BY <1>3, <1>5, <2>1, <2>2
<1> HIDE DEF index, listed
<1>8. Below(index, prefix) = listed
  BY <1>6, <1>7
<1> QED
  BY <1>8 DEF index, listed, prefix

LEMMA IdTypes ==
    /\ Tenants \in SUBSET Seq(Parts) /\ ScheduleIDs \in SUBSET Seq(Parts)
    /\ ExecutionIDs \in SUBSET Seq(Parts) /\ AttemptIDs \in SUBSET Seq(Parts)
    /\ \A id \in ExecutionIDs \cup AttemptIDs : id \in Seq(Parts) \ {<<>>}
<1>1. \A s : s \in Seq(STRING) => s \in Seq(Parts)
  BY SeqMonotonic DEF Parts
<1> QED
  BY <1>1, StorageAssumption DEF Ids

StatusParts == {<<status>> : status \in Statuses}

LEMMA StatusesApart == Separate(StatusParts)
<1>1. ASSUME NEW part \in StatusParts PROVE part \in Seq(Parts) /\ Len(part) = 1
  <2>1. PICK status \in Statuses : part = <<status>>
    BY DEF StatusParts
  <2>2. status \in Parts
    BY DEF Parts
  <2> QED
    BY <2>1, <2>2
<1>2. ASSUME NEW p \in StatusParts, NEW q \in StatusParts, IsPrefix(p, q)
      PROVE  p = q
  <2>1. \A i \in 1..Len(p) : p[i] = q[i]
    BY <1>1, <1>2, PrefixElements
  <2> QED
    BY <1>1, <2>1, SeqEqual
<1> QED
  BY <1>1, <1>2 DEF Separate, NoneContinues, IsStrictPrefix

LEMMA RowTypes ==
    ASSUME NEW b \in Buckets
    PROVE  /\ \A ex \in Rows(b.executions) : ex \in Execution
           /\ \A at \in Rows(b.attempts) : at \in Attempt
BY DEF Buckets, Rows

LEMMA ScheduleList ==
    ASSUME IdsApart, NEW b, Sound(b), NEW t \in Tenants, NEW s \in ScheduleIDs
    PROVE  ListExecutionsBySchedule(b, t, s)
             = {ex \in Rows(b.executions) : ex.tenantID = t /\ ex.scheduleID = s}
<1> DEFINE rows == Rows(b.executions)
           listed == {x \in rows : x.tenantID = t /\ x.scheduleID = s}
           first == [x \in rows |-> x.tenantID]
           second == [x \in rows |-> x.scheduleID]
           last == [x \in rows |-> x.id]
<1>1. \A x \in rows : /\ x.tenantID \in Tenants /\ x.scheduleID \in ScheduleIDs
                      /\ x.id \in Seq(Parts) \ {<<>>}
  BY RowTypes, IdTypes DEF Sound, Execution
<1>2. /\ \A x \in rows : /\ first[x] \in Tenants /\ second[x] \in ScheduleIDs
                         /\ last[x] \in Seq(Parts) /\ last[x] # <<>>
      /\ s \in ScheduleIDs
  BY <1>1
<1>3. b.executions_by_schedule = Keys(rows, first, second, last)
  BY DEF Sound, Indexed, Keys, executionByScheduleKey
<1>4. Under(rows, first, second, last, t, s) = {x.id : x \in listed}
  BY DEF Under
<1>5. Below(b.executions_by_schedule, t \o s) = {x.id : x \in listed}
  <2>1. Separate(Tenants)
    BY IdTypes DEF IdsApart, Separate
  <2>2. Separate(ScheduleIDs)
    BY IdTypes DEF IdsApart, Separate
  <2> HIDE DEF first, second, last, rows, listed
  <2>3. Below(Keys(rows, first, second, last), t \o s)
          = Under(rows, first, second, last, t, s)
    <3>1. PICK m \in ScheduleIDs : m = s
      BY <1>2
    <3>2. Below(Keys(rows, first, second, last), t \o m)
          = Under(rows, first, second, last, t, m)
      BY <1>2, <2>1, <2>2, BelowIds
    <3> QED
      BY <3>1, <3>2
  <2> QED
    BY <1>3, <1>4, <2>3
<1>6. \A x \in rows : GetExecution(b, x.tenantID, x.id) = x
  BY GetRow DEF Sound, GetExecution, RowKey
<1> HIDE DEF rows
<1> QED
  BY <1>5, <1>6 DEF ListExecutionsBySchedule, rows

LEMMA StatusList ==
    ASSUME IdsApart, NEW b, Sound(b), NEW t \in Tenants, NEW status \in Statuses
    PROVE  ListExecutionsByStatus(b, t, status)
             = {ex \in Rows(b.executions) : ex.tenantID = t /\ ex.status = status}
<1> DEFINE rows == Rows(b.executions)
           listed == {x \in rows : x.tenantID = t /\ x.status = status}
           first == [x \in rows |-> x.tenantID]
           second == [x \in rows |-> <<x.status>>]
           last == [x \in rows |-> x.id]
<1>1. \A x \in rows : /\ x.tenantID \in Tenants /\ x.status \in Statuses
                      /\ x.id \in Seq(Parts) \ {<<>>}
  BY RowTypes, IdTypes DEF Sound, Execution
<1>2. /\ \A x \in rows : /\ first[x] \in Tenants /\ second[x] \in StatusParts
                         /\ last[x] \in Seq(Parts) /\ last[x] # <<>>
      /\ <<status>> \in StatusParts
  BY <1>1 DEF StatusParts
<1>3. b.executions_by_status = Keys(rows, first, second, last)
  BY DEF Sound, Indexed, Keys, executionByStatusKey
<1>4. Under(rows, first, second, last, t, <<status>>) = {x.id : x \in listed}
  BY DEF Under
<1>5. Below(b.executions_by_status, t \o <<status>>) = {x.id : x \in listed}
  <2>1. Separate(Tenants)
    BY IdTypes DEF IdsApart, Separate
  <2>2. Separate(StatusParts)
    BY StatusesApart
  <2> HIDE DEF first, second, last, rows, listed
  <2>3. Below(Keys(rows, first, second, last), t \o <<status>>)
          = Under(rows, first, second, last, t, <<status>>)
    <3>1. PICK m \in StatusParts : m = <<status>>
      BY <1>2
    <3>2. Below(Keys(rows, first, second, last), t \o m)
          = Under(rows, first, second, last, t, m)
      BY <1>2, <2>1, <2>2, BelowIds
    <3> QED
      BY <3>1, <3>2
  <2> QED
    BY <1>3, <1>4, <2>3
<1>6. \A x \in rows : GetExecution(b, x.tenantID, x.id) = x
  BY GetRow DEF Sound, GetExecution, RowKey
<1> HIDE DEF rows
<1> QED
  BY <1>5, <1>6 DEF ListExecutionsByStatus, rows

LEMMA AttemptList ==
    ASSUME IdsApart, NEW b, Sound(b), NEW t \in Tenants, NEW e \in ExecutionIDs
    PROVE  ListAttemptsByExecution(b, t, e)
             = {at \in Rows(b.attempts) : at.tenantID = t /\ at.executionID = e}
<1> DEFINE rows == Rows(b.attempts)
           listed == {x \in rows : x.tenantID = t /\ x.executionID = e}
           first == [x \in rows |-> x.tenantID]
           second == [x \in rows |-> x.executionID]
           last == [x \in rows |-> x.id]
<1>1. \A x \in rows : /\ x.tenantID \in Tenants /\ x.executionID \in ExecutionIDs
                      /\ x.id \in Seq(Parts) \ {<<>>}
  BY RowTypes, IdTypes DEF Sound, Attempt
<1>2. /\ \A x \in rows : /\ first[x] \in Tenants /\ second[x] \in ExecutionIDs
                         /\ last[x] \in Seq(Parts) /\ last[x] # <<>>
      /\ e \in ExecutionIDs
  BY <1>1
<1>3. b.attempts_by_execution = Keys(rows, first, second, last)
  BY DEF Sound, Indexed, Keys, attemptsByExecutionKey
<1>4. Under(rows, first, second, last, t, e) = {x.id : x \in listed}
  BY DEF Under
<1>5. Below(b.attempts_by_execution, t \o e) = {x.id : x \in listed}
  <2>1. Separate(Tenants)
    BY IdTypes DEF IdsApart, Separate
  <2>2. Separate(ExecutionIDs)
    BY IdTypes DEF IdsApart, Separate
  <2> HIDE DEF first, second, last, rows, listed
  <2>3. Below(Keys(rows, first, second, last), t \o e)
          = Under(rows, first, second, last, t, e)
    <3>1. PICK m \in ExecutionIDs : m = e
      BY <1>2
    <3>2. Below(Keys(rows, first, second, last), t \o m)
          = Under(rows, first, second, last, t, m)
      BY <1>2, <2>1, <2>2, BelowIds
    <3> QED
      BY <3>1, <3>2
  <2> QED
    BY <1>3, <1>4, <2>3
<1>6. \A x \in rows : GetAttempt(b, x.tenantID, x.id) = x
  BY GetRow, AttemptKeys DEF Sound, GetAttempt, RowKey
<1> HIDE DEF rows
<1> QED
  BY <1>5, <1>6 DEF ListAttemptsByExecution, rows
-----------------------------------------------------------------------------
(* What a put leaves of the buckets. *)

LEMMA SameKey ==
    ASSUME NEW T, Separate(T), NEW t \in T, NEW u \in T,
           NEW i \in Seq(Parts), NEW j \in Seq(Parts), i # <<>>, j # <<>>,
           t \o i = u \o j
    PROVE  t = u /\ i = j
<1>1. t \in Seq(Parts) /\ u \in Seq(Parts)
  BY DEF Separate
<1>2. /\ Len(t) \in Nat /\ Len(u) \in Nat /\ Len(i) \in Nat /\ Len(j) \in Nat
      /\ Len(i) # 0 /\ Len(j) # 0
  BY <1>1, LenProperties, EmptySeq
<1>3. /\ t \o i \in Seq(Parts) /\ Len(t \o i) = Len(t) + Len(i)
      /\ \A n \in 1..(Len(t) + Len(i)) : (t \o i)[n] = IF n <= Len(t) THEN t[n] ELSE i[n - Len(t)]
  BY <1>1, ConcatProperties
<1>4. /\ u \o j \in Seq(Parts) /\ Len(u \o j) = Len(u) + Len(j)
      /\ \A n \in 1..(Len(u) + Len(j)) : (u \o j)[n] = IF n <= Len(u) THEN u[n] ELSE j[n - Len(u)]
  BY <1>1, ConcatProperties
<1>5. t = u
  <2>1. \A n \in 1..Len(t) : n <= Len(u) => t[n] = u[n]
    BY <1>2, <1>3, <1>4
  <2> QED
    BY <1>1, <2>1, OneBegins DEF Separate, NoneContinues
<1>6. /\ SubSeq(t \o i, Len(t) + 1, Len(t \o i)) = i
      /\ SubSeq(u \o j, Len(u) + 1, Len(u \o j)) = j
  BY <1>1, RestOfKey
<1> QED
  BY <1>5, <1>6

Joined(t, m, i) == t \o m \o i

LEMMA SameIndexKey ==
    ASSUME NEW T, NEW M, Separate(T), Separate(M), NEW t \in T, NEW u \in T,
           NEW m \in M, NEW n \in M,
           NEW i \in Seq(Parts), NEW j \in Seq(Parts), i # <<>>, j # <<>>,
           Joined(t, m, i) = Joined(u, n, j)
    PROVE  t = u /\ m = n /\ i = j
<1>1. t \in Seq(Parts) /\ u \in Seq(Parts) /\ m \in Seq(Parts) /\ n \in Seq(Parts)
  BY DEF Separate
<1>2. PICK p \in Seq(Parts) : p = t \o m
  BY <1>1, ConcatProperties
<1>3. /\ IsStrictPrefix(p, p \o i)
      /\ SubSeq(p \o i, Len(p) + 1, Len(p \o i)) = i
      /\ SubSeq(p \o j, Len(p) + 1, Len(p \o j)) = j
  BY <1>2, RestOfKey
<1>4. IsPrefix(t \o m, u \o n \o j)
  BY <1>2, <1>3 DEF IsStrictPrefix, Joined
<1>5. t = u /\ m = n
  BY <1>4, KeyParts
<1>6. p \o i = p \o j
  BY <1>2, <1>5 DEF Joined
<1> QED
  BY <1>3, <1>5, <1>6

SameExecution(r, x) == r.tenantID = x.tenantID /\ r.id = x.id

LEMMA IdsSeparate ==
    ASSUME IdsApart
    PROVE  Separate(Tenants) /\ Separate(ScheduleIDs) /\ Separate(ExecutionIDs)
BY IdTypes DEF IdsApart, Separate

LEMMA RowKeys ==
    ASSUME IdsApart
    PROVE  /\ \A r, x \in Execution :
                RowKey(r) \in Seq(Parts) /\ (RowKey(r) = RowKey(x) <=> SameExecution(r, x))
           /\ \A r, x \in Attempt :
                /\ RowKey(r) \in Seq(Parts)
                /\ RowKey(r) = RowKey(x) <=> r.tenantID = x.tenantID /\ r.id = x.id
<1>1. ASSUME NEW t \in Tenants, NEW u \in Tenants,
             NEW i \in Seq(Parts) \ {<<>>}, NEW j \in Seq(Parts) \ {<<>>}
      PROVE  /\ executionKey(t, i) \in Seq(Parts)
             /\ executionKey(t, i) = executionKey(u, j) <=> t = u /\ i = j
  <2>1. t \in Seq(Parts)
    BY IdTypes
  <2>2. t \o i \in Seq(Parts)
    BY <2>1, ConcatProperties
  <2>3. t \o i = u \o j => t = u /\ i = j
    <3> SUFFICES ASSUME t \o i = u \o j PROVE t = u /\ i = j
      OBVIOUS
    <3> QED
      BY IdsSeparate, SameKey
  <2> QED
    BY <2>2, <2>3, Zenon DEF executionKey
<1>2. ASSUME NEW r \in Execution, NEW x \in Execution
      PROVE  RowKey(r) \in Seq(Parts) /\ (RowKey(r) = RowKey(x) <=> SameExecution(r, x))
  <2>1. /\ r.tenantID \in Tenants /\ x.tenantID \in Tenants
        /\ r.id \in Seq(Parts) \ {<<>>} /\ x.id \in Seq(Parts) \ {<<>>}
    BY IdTypes DEF Execution
  <2> QED
    BY <1>1, <2>1 DEF RowKey, SameExecution
<1>3. ASSUME NEW r \in Attempt, NEW x \in Attempt
      PROVE  /\ RowKey(r) \in Seq(Parts)
             /\ RowKey(r) = RowKey(x) <=> r.tenantID = x.tenantID /\ r.id = x.id
  <2>1. /\ r.tenantID \in Tenants /\ x.tenantID \in Tenants
        /\ r.id \in Seq(Parts) \ {<<>>} /\ x.id \in Seq(Parts) \ {<<>>}
    BY IdTypes DEF Attempt
  <2> QED
    BY <1>1, <2>1 DEF RowKey
<1> QED
  BY <1>2, <1>3

StatusKey(ex) == executionByStatusKey(ex.tenantID, ex.status, ex.id)
ScheduleKey(ex) == executionByScheduleKey(ex.tenantID, ex.scheduleID, ex.id)
ExecutionKey(at) == attemptsByExecutionKey(at.tenantID, at.executionID, at.id)

LEMMA IndexKeys ==
    ASSUME IdsApart
    PROVE  /\ \A r, x \in Execution :
                /\ ScheduleKey(r) \in Seq(Parts) /\ StatusKey(r) \in Seq(Parts)
                /\ SameExecution(r, x) /\ r.scheduleID = x.scheduleID
                     => ScheduleKey(r) = ScheduleKey(x)
                /\ StatusKey(r) = StatusKey(x) => SameExecution(r, x)
           /\ \A r \in Attempt : ExecutionKey(r) \in Seq(Parts)
<1>1. ASSUME NEW t \in Seq(Parts), NEW m \in Seq(Parts), NEW i \in Seq(Parts)
      PROVE  t \o m \o i \in Seq(Parts)
  <2>1. PICK p \in Seq(Parts) : p = t \o m
    BY ConcatProperties
  <2> QED
    BY <2>1, ConcatProperties
<1>2. ASSUME NEW r \in Execution
      PROVE  /\ r.tenantID \in Tenants /\ r.tenantID \in Seq(Parts)
             /\ r.scheduleID \in Seq(Parts)
             /\ <<r.status>> \in StatusParts /\ <<r.status>> \in Seq(Parts)
             /\ r.id \in Seq(Parts) /\ r.id # <<>>
  <2>1. /\ r.tenantID \in Tenants /\ r.scheduleID \in ScheduleIDs
        /\ r.status \in Statuses /\ r.id \in ExecutionIDs
    BY DEF Execution
  <2>2. <<r.status>> \in StatusParts
    BY <2>1 DEF StatusParts
  <2> QED
    BY <2>1, <2>2, IdTypes, StatusesApart DEF Separate
<1>3. ASSUME NEW r \in Execution, NEW x \in Execution
      PROVE  StatusKey(r) = StatusKey(x) => SameExecution(r, x)
  <2> SUFFICES ASSUME StatusKey(r) = StatusKey(x) PROVE SameExecution(r, x)
    OBVIOUS
  <2>1. PICK t \in Tenants, m \in StatusParts, i \in Seq(Parts) :
          t = r.tenantID /\ m = <<r.status>> /\ i = r.id /\ i # <<>>
    BY <1>2
  <2>2. PICK u \in Tenants, n \in StatusParts, j \in Seq(Parts) :
          u = x.tenantID /\ n = <<x.status>> /\ j = x.id /\ j # <<>>
    BY <1>2
  <2>3. Joined(t, m, i) = Joined(u, n, j)
    <3>1. StatusKey(r) = Joined(t, m, i)
      BY <2>1 DEF StatusKey, executionByStatusKey, Joined
    <3>2. StatusKey(x) = Joined(u, n, j)
      BY <2>2 DEF StatusKey, executionByStatusKey, Joined
    <3> QED
      BY <3>1, <3>2
  <2>4. t = u /\ i = j
    BY <2>1, <2>2, <2>3, IdsSeparate, StatusesApart, SameIndexKey
  <2> QED
    BY <2>1, <2>2, <2>4 DEF SameExecution
<1>4. ASSUME NEW r \in Execution
      PROVE  ScheduleKey(r) \in Seq(Parts) /\ StatusKey(r) \in Seq(Parts)
  BY <1>1, <1>2 DEF ScheduleKey, StatusKey, executionByScheduleKey, executionByStatusKey
<1>5. ASSUME NEW r \in Attempt
      PROVE  ExecutionKey(r) \in Seq(Parts)
  <2>1. r.tenantID \in Seq(Parts) /\ r.executionID \in Seq(Parts) /\ r.id \in Seq(Parts)
    BY IdTypes DEF Attempt
  <2> QED
    BY <1>1, <2>1 DEF ExecutionKey, attemptsByExecutionKey
<1>6. \A r, x : SameExecution(r, x) /\ r.scheduleID = x.scheduleID
                  => ScheduleKey(r) = ScheduleKey(x)
  BY Zenon DEF SameExecution, ScheduleKey
<1> QED
  BY <1>3, <1>4, <1>5, <1>6
(* Reading a row by its ids. *)
LEMMA ReadExecution ==
    ASSUME IdsApart, NEW b, Sound(b), NEW t \in Tenants, NEW e \in ExecutionIDs
    PROVE  LET ex == GetExecution(b, t, e)
           IN  /\ ex = Nil => \A r \in Rows(b.executions) : ~(r.tenantID = t /\ r.id = e)
               /\ ex # Nil => /\ ex \in Rows(b.executions) /\ ex \in Execution
                              /\ ex.tenantID = t /\ ex.id = e
<1> DEFINE ex == GetExecution(b, t, e)
<1>1. b \in Buckets /\ Keyed(b.executions)
  BY DEF Sound
<1>2. \A r \in Rows(b.executions) : r \in Execution
  BY <1>1, RowTypes
<1>3. ASSUME NEW r \in Rows(b.executions), r.tenantID = t, r.id = e
      PROVE  ex = r /\ r # Nil
  <2>1. RowKey(r) = executionKey(t, e)
    BY <1>3 DEF RowKey
  <2>2. Get(b.executions, RowKey(r)) = r
    BY <1>1, GetRow
  <2> QED
    BY <1>2, <2>1, <2>2, StorageAssumption DEF GetExecution
<1>4. ASSUME ex # Nil
      PROVE  ex \in Rows(b.executions) /\ ex.tenantID = t /\ ex.id = e
  <2>1. PICK p \in b.executions : p.key = executionKey(t, e) /\ p.row = ex
    BY <1>4, GotRow DEF GetExecution
  <2>2. ex \in Rows(b.executions) /\ RowKey(ex) = executionKey(t, e)
    BY <1>1, <2>1 DEF Rows, Keyed
  <2> HIDE DEF ex
  <2> DEFINE x == [tenantID |-> t, id |-> e,
                   scheduleID |-> ex.scheduleID, status |-> ex.status,
                   lastAttemptID |-> ex.lastAttemptID]
  <2>3. x \in Execution /\ x.tenantID = t /\ x.id = e
    BY <1>2, <2>2 DEF Execution
  <2> HIDE DEF x
  <2>4. RowKey(ex) = RowKey(x)
    BY <2>2, <2>3 DEF RowKey
  <2>5. SameExecution(ex, x)
    BY <1>2, <2>2, <2>3, <2>4, RowKeys
  <2> QED
    BY <2>2, <2>3, <2>5 DEF SameExecution
<1> HIDE DEF ex
<1>5. ex = Nil => \A r \in Rows(b.executions) : ~(r.tenantID = t /\ r.id = e)
  BY <1>3
<1>6. ex # Nil => /\ ex \in Rows(b.executions) /\ ex \in Execution
                  /\ ex.tenantID = t /\ ex.id = e
  BY <1>2, <1>4
<1> QED
  BY <1>5, <1>6 DEF ex

(* PutExecution keeps the indexes: the row's entry by status moves with it, its  *)
(* entry by schedule stays because its schedule does.                         *)
LEMMA ExecutionWritten ==
    ASSUME IdsApart, NEW b, Sound(b), NEW ex \in Execution,
           \A r \in Rows(b.executions) :
               SameExecution(r, ex) => r.scheduleID = ex.scheduleID
    PROVE  /\ Sound(PutExecution(b, ex))
           /\ Rows(PutExecution(b, ex).executions)
                = {r \in Rows(b.executions) : ~SameExecution(r, ex)} \cup {ex}
           /\ PutExecution(b, ex).attempts = b.attempts
<1> DEFINE old == GetExecution(b, ex.tenantID, ex.id)
           stale == IF old = Nil THEN {} ELSE {StatusKey(old)}
           next == PutExecution(b, ex)
           rows == Rows(b.executions)
           others == {r \in rows : ~SameExecution(r, ex)}
<1>1. /\ b \in Buckets /\ Keyed(b.executions) /\ Keyed(b.attempts) /\ Indexed(b)
      /\ \A r \in rows : r \in Execution
      /\ ex.tenantID \in Tenants /\ ex.id \in ExecutionIDs
  BY RowTypes DEF Sound, Execution
<1>2. /\ next.executions = Put(b.executions, RowKey(ex), ex)
      /\ next.executions_by_status = (b.executions_by_status \ stale) \cup {StatusKey(ex)}
      /\ next.executions_by_schedule = b.executions_by_schedule \cup {ScheduleKey(ex)}
      /\ next.attempts = b.attempts
      /\ next.attempts_by_execution = b.attempts_by_execution
      /\ next = [executions |-> next.executions, attempts |-> next.attempts,
                 executions_by_schedule |-> next.executions_by_schedule,
                 executions_by_status |-> next.executions_by_status,
                 attempts_by_execution |-> next.attempts_by_execution]
  <2>1. next = [b EXCEPT
                  !.executions = Put(b.executions, RowKey(ex), ex),
                  !.executions_by_status =
                      (b.executions_by_status \ stale) \cup {StatusKey(ex)},
                  !.executions_by_schedule = b.executions_by_schedule \cup {ScheduleKey(ex)}]
    BY DEF PutExecution, RowKey, StatusKey, ScheduleKey
  <2> HIDE DEF next, stale
  <2> QED
    BY <1>1, <2>1 DEF Buckets
<1>3. /\ Keyed(next.executions)
      /\ Rows(next.executions) = others \cup {ex}
  <2>1. /\ Keyed(Put(b.executions, RowKey(ex), ex))
        /\ Rows(Put(b.executions, RowKey(ex), ex))
             = {r \in rows : RowKey(r) # RowKey(ex)} \cup {ex}
    BY <1>1, PutRow
  <2>2. \A r \in rows : RowKey(r) # RowKey(ex) <=> ~SameExecution(r, ex)
    BY <1>1, RowKeys
  <2> HIDE DEF next, rows
  <2> QED
    BY <1>2, <2>1, <2>2
<1>4. /\ old = Nil => rows = others
      /\ old # Nil => /\ old \in Execution /\ SameExecution(old, ex)
                      /\ old.scheduleID = ex.scheduleID
                      /\ rows = others \cup {old}
  <2>1. /\ old = Nil => \A r \in rows : ~SameExecution(r, ex)
        /\ old # Nil => /\ old \in rows /\ old \in Execution
                        /\ SameExecution(old, ex) /\ old.scheduleID = ex.scheduleID
    BY <1>1, ReadExecution DEF SameExecution
  <2>2. ASSUME NEW r \in rows, NEW s \in rows, SameExecution(r, ex), SameExecution(s, ex)
        PROVE  r = s
    <3>1. RowKey(r) = RowKey(s)
      BY <1>1, <2>2, RowKeys DEF SameExecution
    <3> QED
      BY <1>1, <3>1, GetRow
  <2> HIDE DEF rows, old
  <2>3. old # Nil => rows = others \cup {old}
    BY <2>1, <2>2
  <2> QED
    BY <2>1, <2>3
<1>5. /\ b.executions_by_schedule = {ScheduleKey(r) : r \in rows}
      /\ b.executions_by_status = {StatusKey(r) : r \in rows}
      /\ b.attempts_by_execution = {ExecutionKey(at) : at \in Rows(b.attempts)}
  BY <1>1 DEF Indexed, ScheduleKey, StatusKey, ExecutionKey
<1> HIDE DEF old, next, rows
<1>6. next.executions_by_schedule = {ScheduleKey(r) : r \in others \cup {ex}}
  <2>1. old # Nil => ScheduleKey(old) = ScheduleKey(ex)
    BY <1>4, IndexKeys
  <2> HIDE DEF others
  <2> QED
    BY <1>2, <1>4, <1>5, <2>1
<1>7. next.executions_by_status = {StatusKey(r) : r \in others \cup {ex}}
  <2>1. ASSUME NEW r \in others, old # Nil
        PROVE  StatusKey(r) # StatusKey(old)
    <3>1. r \in Execution /\ ~SameExecution(r, old)
      BY <1>1, <1>4, <2>1 DEF SameExecution
    <3> QED
      BY <1>4, <2>1, <3>1, IndexKeys
  <2> HIDE DEF others
  <2> QED
    BY <1>2, <1>4, <1>5, <2>1
<1>8. next \in Buckets
  <2>1. /\ RowKey(ex) \in Seq(Parts) /\ StatusKey(ex) \in Seq(Parts)
        /\ ScheduleKey(ex) \in Seq(Parts)
    BY RowKeys, IndexKeys
  <2>2. /\ b.executions \in SUBSET [key : Seq(Parts), row : Execution]
        /\ b.attempts \in SUBSET [key : Seq(Parts), row : Attempt]
        /\ b.executions_by_schedule \in SUBSET Seq(Parts)
        /\ b.executions_by_status \in SUBSET Seq(Parts)
        /\ b.attempts_by_execution \in SUBSET Seq(Parts)
    BY <1>1 DEF Buckets
  <2>3. next.executions \in SUBSET [key : Seq(Parts), row : Execution]
    BY <1>2, <2>1, <2>2 DEF Put
  <2> HIDE DEF stale
  <2>4. /\ next.executions_by_schedule \in SUBSET Seq(Parts)
        /\ next.executions_by_status \in SUBSET Seq(Parts)
    BY <1>2, <2>1, <2>2
  <2> QED
    BY <1>2, <2>2, <2>3, <2>4 DEF Buckets
<1>9. Indexed(next)
  BY <1>2, <1>3, <1>5, <1>6, <1>7 DEF Indexed, ScheduleKey, StatusKey, ExecutionKey
<1>10. Sound(next)
  BY <1>1, <1>2, <1>3, <1>8, <1>9 DEF Sound
<1> QED
  BY <1>2, <1>3, <1>10 DEF next, rows

(* PutAttempt adds an attempt's row and its entry, or finds both there. *)
LEMMA AttemptWritten ==
    ASSUME IdsApart, NEW b, Sound(b), NEW at \in Attempt,
           \A r \in Rows(b.attempts) : r.tenantID = at.tenantID /\ r.id = at.id => r = at
    PROVE  /\ Sound(PutAttempt(b, at))
           /\ Rows(PutAttempt(b, at).attempts) = Rows(b.attempts) \cup {at}
           /\ PutAttempt(b, at).executions = b.executions
<1> DEFINE next == PutAttempt(b, at)
           rows == Rows(b.attempts)
<1>1. /\ b \in Buckets /\ Keyed(b.executions) /\ Keyed(b.attempts) /\ Indexed(b)
      /\ \A r \in rows : r \in Attempt
  BY RowTypes DEF Sound
<1>2. /\ next.attempts = Put(b.attempts, RowKey(at), at)
      /\ next.attempts_by_execution = b.attempts_by_execution \cup {ExecutionKey(at)}
      /\ next.executions = b.executions
      /\ next.executions_by_schedule = b.executions_by_schedule
      /\ next.executions_by_status = b.executions_by_status
      /\ next = [executions |-> next.executions, attempts |-> next.attempts,
                 executions_by_schedule |-> next.executions_by_schedule,
                 executions_by_status |-> next.executions_by_status,
                 attempts_by_execution |-> next.attempts_by_execution]
  <2>1. next = [b EXCEPT
                  !.attempts = Put(b.attempts, RowKey(at), at),
                  !.attempts_by_execution = b.attempts_by_execution \cup {ExecutionKey(at)}]
    BY AttemptKeys DEF PutAttempt, RowKey, ExecutionKey
  <2> HIDE DEF next
  <2> QED
    BY <1>1, <2>1 DEF Buckets
<1>3. /\ Keyed(next.attempts)
      /\ Rows(next.attempts) = rows \cup {at}
  <2>1. /\ Keyed(Put(b.attempts, RowKey(at), at))
        /\ Rows(Put(b.attempts, RowKey(at), at))
             = {r \in rows : RowKey(r) # RowKey(at)} \cup {at}
    BY <1>1, PutRow
  <2>2. \A r \in rows : RowKey(r) = RowKey(at) => r = at
    BY <1>1, RowKeys
  <2> HIDE DEF next, rows
  <2> QED
    BY <1>2, <2>1, <2>2
<1>4. /\ b.executions_by_schedule = {ScheduleKey(r) : r \in Rows(b.executions)}
      /\ b.executions_by_status = {StatusKey(r) : r \in Rows(b.executions)}
      /\ b.attempts_by_execution = {ExecutionKey(r) : r \in rows}
  BY <1>1 DEF Indexed, ScheduleKey, StatusKey, ExecutionKey
<1> HIDE DEF next, rows
<1>5. next.attempts_by_execution = {ExecutionKey(r) : r \in rows \cup {at}}
  BY <1>2, <1>4
<1>6. next \in Buckets
  <2>1. RowKey(at) \in Seq(Parts) /\ ExecutionKey(at) \in Seq(Parts)
    BY RowKeys, IndexKeys
  <2>2. /\ b.executions \in SUBSET [key : Seq(Parts), row : Execution]
        /\ b.attempts \in SUBSET [key : Seq(Parts), row : Attempt]
        /\ b.executions_by_schedule \in SUBSET Seq(Parts)
        /\ b.executions_by_status \in SUBSET Seq(Parts)
        /\ b.attempts_by_execution \in SUBSET Seq(Parts)
    BY <1>1 DEF Buckets
  <2>3. next.attempts \in SUBSET [key : Seq(Parts), row : Attempt]
    BY <1>2, <2>1, <2>2 DEF Put
  <2> QED
    BY <1>2, <2>1, <2>2, <2>3 DEF Buckets
<1>7. Indexed(next)
  BY <1>2, <1>3, <1>4, <1>5 DEF Indexed, ScheduleKey, StatusKey, ExecutionKey
<1> QED
  BY <1>1, <1>2, <1>3, <1>6, <1>7 DEF Sound, next, rows

-----------------------------------------------------------------------------
(* The inductive invariant: in whatever a reader may see, the last attempt of every  *)
(* execution has its row; attempts stay, and a writer's puts make up something    *)
(* of this kind when all are made.                                           *)

LastAttempt(ex) ==
    [tenantID |-> ex.tenantID, id |-> ex.lastAttemptID, executionID |-> ex.id]

Whole(b) ==
    /\ Sound(b)
    /\ \A ex \in Rows(b.executions) :
         ex.lastAttemptID # Nil => LastAttempt(ex) \in Rows(b.attempts)
    /\ \A at \in Rows(b.attempts) : at.executionID = ExecutionOf[at.id]

(* c is whole and has the attempts of b. *)
WholeAfter(b, c) == Whole(c) /\ Rows(b.attempts) \subseteq Rows(c.attempts)

PutOne(b, put) ==
    IF put.kind = "execution" THEN PutExecution(b, put.row) ELSE PutAttempt(b, put.row)

(* The puts that are left turn b into a database that may follow c. *)
Prepared(c, b, puts) ==
    \/ puts = <<>> /\ WholeAfter(c, b)
    \/ \E p : puts = <<p>> /\ WholeAfter(c, PutOne(b, p))
    \/ \E p, q : puts = <<p, q>> /\ WholeAfter(c, PutOne(PutOne(b, p), q))

Transactions ==
    /\ Whole(committed)
    /\ \/ pending = Nil /\ todo = <<>>
       \/ Prepared(committed, pending, todo)
    /\ \A v \in Views : view[v] = Nil \/ (Whole(view[v]) /\ WholeAfter(view[v], committed))
    /\ view = [v \in Views |-> view[v]]

(* Writing an execution whose last attempt has its row. *)
LEMMA ExecutionWhole ==
    ASSUME IdsApart, NEW b, Whole(b), NEW ex \in Execution,
           \A r \in Rows(b.executions) :
               SameExecution(r, ex) => r.scheduleID = ex.scheduleID,
           ex.lastAttemptID # Nil => LastAttempt(ex) \in Rows(b.attempts)
    PROVE  WholeAfter(b, PutExecution(b, ex))
<1> DEFINE next == PutExecution(b, ex)
<1>1. /\ Sound(next)
      /\ Rows(next.executions)
            = {r \in Rows(b.executions) : ~SameExecution(r, ex)} \cup {ex}
      /\ next.attempts = b.attempts
  BY ExecutionWritten DEF Whole
<1> HIDE DEF next
<1>2. Whole(next)
  BY <1>1 DEF Whole
<1> QED
  BY <1>1, <1>2 DEF WholeAfter, next

(* The row an id reads has its ids, and is the only one that has. *)
LEMMA ExecutionRead ==
    ASSUME IdsApart, NEW b, Sound(b), NEW t \in Tenants, NEW e \in ExecutionIDs,
           NEW old, old = GetExecution(b, t, e), old # Nil
    PROVE  /\ old \in Rows(b.executions) /\ old \in Execution
           /\ old.tenantID = t /\ old.id = e
           /\ \A r \in Rows(b.executions) : SameExecution(r, old) => r = old
<1>1. /\ old \in Rows(b.executions) /\ old \in Execution
      /\ old.tenantID = t /\ old.id = e
  BY ReadExecution
<1>2. ASSUME NEW r \in Rows(b.executions), SameExecution(r, old) PROVE r = old
  <2>1. Keyed(b.executions) /\ r \in Execution
    BY RowTypes DEF Sound
  <2>2. RowKey(r) = RowKey(old)
    BY <1>1, <1>2, <2>1, RowKeys
  <2> QED
    BY <1>1, <2>1, <2>2, GetRow
<1> QED
  BY <1>1, <1>2

LEMMA ClaimWhole ==
    ASSUME IdsApart, NEW b, Whole(b), NEW t \in Tenants, NEW s \in ScheduleIDs,
           NEW e \in ExecutionIDs, GetExecution(b, t, e) = Nil
    PROVE  WholeAfter(b, PutExecution(b, [tenantID |-> t, id |-> e, scheduleID |-> s,
                                          status |-> "in_flight", lastAttemptID |-> Nil]))
<1> DEFINE ex == [tenantID |-> t, id |-> e, scheduleID |-> s,
                  status |-> "in_flight", lastAttemptID |-> Nil]
<1>1. ex \in Execution /\ ex.tenantID = t /\ ex.id = e /\ ex.lastAttemptID = Nil
  BY DEF Execution, Statuses
<1> HIDE DEF ex
<1>2. \A r \in Rows(b.executions) : ~SameExecution(r, ex)
  BY <1>1, ReadExecution DEF Whole, SameExecution
<1>3. WholeAfter(b, PutExecution(b, ex))
  BY <1>1, <1>2, ExecutionWhole
<1> QED
  BY <1>3 DEF ex

(* An attempt, there already or not, and its execution's summary of it. *)
LEMMA RecordWhole ==
    ASSUME IdsApart, NEW b, Whole(b), NEW t \in Tenants, NEW a \in AttemptIDs,
           NEW old, old = GetExecution(b, t, ExecutionOf[a]), old # Nil
    PROVE  WholeAfter(b,
             PutExecution(
               PutAttempt(b, [tenantID |-> t, id |-> a, executionID |-> old.id]),
               [old EXCEPT !.lastAttemptID = a]))
<1> DEFINE ex == [old EXCEPT !.lastAttemptID = a]
           at == [tenantID |-> t, id |-> a, executionID |-> old.id]
           mid == PutAttempt(b, at)
<1>1. ExecutionOf[a] \in ExecutionIDs
  BY StorageAssumption
<1>2. /\ Sound(b)
      /\ old \in Execution /\ old.tenantID = t /\ old.id = ExecutionOf[a]
      /\ \A r \in Rows(b.executions) : SameExecution(r, old) => r = old
  BY <1>1, ExecutionRead DEF Whole
<1>3. /\ ex \in Execution /\ ex.tenantID = t /\ ex.id = old.id
      /\ ex.scheduleID = old.scheduleID /\ ex.lastAttemptID = a
  BY <1>2 DEF Execution
<1>4. at \in Attempt /\ at.tenantID = t /\ at.id = a /\ at.executionID = ExecutionOf[a]
  BY <1>1, <1>2 DEF Attempt
<1>5. LastAttempt(ex) = at
  BY <1>3 DEF LastAttempt
<1> HIDE DEF ex, at
<1>6. \A r \in Rows(b.attempts) : r.tenantID = at.tenantID /\ r.id = at.id => r = at
  <2>1. \A r \in Rows(b.attempts) : r \in Attempt /\ r.executionID = ExecutionOf[r.id]
    BY <1>2, RowTypes DEF Whole, Sound
  <2> QED
    BY <1>4, <2>1 DEF Attempt
<1>7. /\ Sound(mid) /\ Rows(mid.attempts) = Rows(b.attempts) \cup {at}
      /\ mid.executions = b.executions
  BY <1>2, <1>4, <1>6, AttemptWritten
<1> HIDE DEF mid
<1>8. Whole(mid)
  BY <1>4, <1>7 DEF Whole
<1>9. \A r \in Rows(mid.executions) : SameExecution(r, ex) => r.scheduleID = ex.scheduleID
  BY <1>2, <1>3, <1>7 DEF SameExecution
<1>10. WholeAfter(mid, PutExecution(mid, ex))
  BY <1>3, <1>5, <1>7, <1>8, <1>9, ExecutionWhole
<1>11. WholeAfter(b, PutExecution(mid, ex))
  BY <1>7, <1>10 DEF WholeAfter
<1> QED
  BY <1>11 DEF mid, ex, at

LEMMA CompleteWhole ==
    ASSUME IdsApart, NEW b, Whole(b), NEW t \in Tenants, NEW e \in ExecutionIDs,
           NEW old, old = GetExecution(b, t, e), old # Nil
    PROVE  WholeAfter(b, PutExecution(b, [old EXCEPT !.status = "succeeded"]))
<1> DEFINE ex == [old EXCEPT !.status = "succeeded"]
<1>1. /\ old \in Rows(b.executions) /\ old \in Execution
      /\ \A r \in Rows(b.executions) : SameExecution(r, old) => r = old
  BY ExecutionRead DEF Whole
<1>2. /\ ex \in Execution /\ ex.tenantID = old.tenantID /\ ex.id = old.id
      /\ ex.scheduleID = old.scheduleID /\ ex.lastAttemptID = old.lastAttemptID
  BY <1>1 DEF Execution, Statuses
<1> HIDE DEF ex
<1>3. /\ \A r \in Rows(b.executions) :
             SameExecution(r, ex) => r.scheduleID = ex.scheduleID
      /\ ex.lastAttemptID # Nil => LastAttempt(ex) \in Rows(b.attempts)
  BY <1>1, <1>2 DEF SameExecution, LastAttempt, Whole
<1>4. WholeAfter(b, PutExecution(b, ex))
  BY <1>2, <1>3, ExecutionWhole
<1> QED
  BY <1>4 DEF ex

LEMMA TransactionsBegin == Init => Transactions
<1> SUFFICES ASSUME Init PROVE Transactions
  OBVIOUS
<1>1. /\ committed = EmptyBuckets /\ pending = Nil /\ todo = <<>>
      /\ view = [v \in Views |-> Nil]
  BY DEF Init
<1>2. Whole(EmptyBuckets)
  <2>1. /\ EmptyBuckets.executions = {} /\ EmptyBuckets.attempts = {}
        /\ EmptyBuckets.executions_by_schedule = {}
        /\ EmptyBuckets.executions_by_status = {}
        /\ EmptyBuckets.attempts_by_execution = {}
        /\ EmptyBuckets \in Buckets
    BY DEF EmptyBuckets, Buckets
  <2>2. Rows({}) = {} /\ Keyed({})
    BY DEF Rows, Keyed
  <2> QED
    BY <2>1, <2>2 DEF Whole, Sound, Indexed
<1> QED
  BY <1>1, <1>2 DEF Transactions

(* The writer prepares its puts from rows it read in the database it changes. *)
LEMMA UpdateStep ==
    ASSUME IdsApart, Transactions, NEW t \in Tenants,
           \/ \E e \in ExecutionIDs :
                \/ \E s \in ScheduleIDs : UpdateClaim(t, s, e)
                \/ UpdateComplete(t, e)
           \/ \E a \in AttemptIDs : UpdateRecord(t, a)
    PROVE  Transactions'
<1>1. Whole(committed)
  BY DEF Transactions
<1>2. ASSUME NEW puts, BeginUpdate(puts), Prepared(committed, committed, puts)
      PROVE  Transactions'
  BY <1>2 DEF BeginUpdate, Transactions, Prepared
<1>3. ASSUME NEW e \in ExecutionIDs, NEW s \in ScheduleIDs, UpdateClaim(t, s, e)
      PROVE  Transactions'
  <2> DEFINE put == ExecutionPut([tenantID |-> t, id |-> e, scheduleID |-> s,
                                  status |-> "in_flight", lastAttemptID |-> Nil])
  <2>1. GetExecution(committed, t, e) = Nil /\ BeginUpdate(<<put>>)
    BY <1>3 DEF UpdateClaim
  <2>2. WholeAfter(committed, PutOne(committed, put))
    BY <1>1, <2>1, ClaimWhole DEF PutOne, ExecutionPut
  <2> HIDE DEF put
  <2> QED
    BY <1>2, <2>1, <2>2 DEF Prepared
<1>4. ASSUME NEW a \in AttemptIDs, UpdateRecord(t, a)
      PROVE  Transactions'
  <2> DEFINE ex == GetExecution(committed, t, ExecutionOf[a])
             first == AttemptPut([tenantID |-> t, id |-> a, executionID |-> ex.id])
             second == ExecutionPut([ex EXCEPT !.lastAttemptID = a])
  <2>1. ex # Nil /\ BeginUpdate(<<first, second>>)
    BY <1>4 DEF UpdateRecord
  <2>2. WholeAfter(committed, PutOne(PutOne(committed, first), second))
    BY <1>1, <2>1, RecordWhole DEF PutOne, ExecutionPut, AttemptPut
  <2> HIDE DEF first, second
  <2> QED
    BY <1>2, <2>1, <2>2 DEF Prepared
<1>5. ASSUME NEW e \in ExecutionIDs, UpdateComplete(t, e)
      PROVE  Transactions'
  <2> DEFINE ex == GetExecution(committed, t, e)
             put == ExecutionPut([ex EXCEPT !.status = "succeeded"])
  <2>1. ex # Nil /\ BeginUpdate(<<put>>)
    BY <1>5 DEF UpdateComplete
  <2>2. WholeAfter(committed, PutOne(committed, put))
    BY <1>1, <2>1, CompleteWhole DEF PutOne, ExecutionPut
  <2> HIDE DEF put
  <2> QED
    BY <1>2, <2>1, <2>2 DEF Prepared
<1> QED
  BY <1>3, <1>4, <1>5

LEMMA PutStep ==
    ASSUME Transactions, MakePut
    PROVE  Transactions'
<1>1. /\ todo # <<>> /\ Prepared(committed, pending, todo)
      /\ pending' = PutOne(pending, Head(todo)) /\ todo' = Tail(todo)
      /\ committed' = committed /\ view' = view
  BY DEF MakePut, PutOne, Transactions
<1>2. Prepared(committed, pending', todo')
  <2>1. CASE \E p : todo = <<p>> /\ WholeAfter(committed, PutOne(pending, p))
    <3>1. PICK p : todo = <<p>> /\ WholeAfter(committed, PutOne(pending, p))
      BY <2>1
    <3>2. Head(todo) = p /\ Tail(todo) = <<>>
      BY <3>1
    <3> QED
      BY <1>1, <3>1, <3>2 DEF Prepared
  <2>2. CASE \E p, q : todo = <<p, q>> /\ WholeAfter(committed, PutOne(PutOne(pending, p), q))
    <3>1. PICK p, q : todo = <<p, q>> /\ WholeAfter(committed, PutOne(PutOne(pending, p), q))
      BY <2>2
    <3>2. Head(todo) = p /\ Tail(todo) = <<q>>
      BY <3>1
    <3> QED
      BY <1>1, <3>1, <3>2 DEF Prepared
  <2> QED
    BY <1>1, <2>1, <2>2 DEF Prepared
<1> QED
  BY <1>1, <1>2 DEF Transactions

LEMMA CommitStep ==
    ASSUME Transactions, Commit
    PROVE  Transactions'
<1>1. /\ pending # Nil /\ todo = <<>> /\ Prepared(committed, pending, todo)
      /\ committed' = pending /\ pending' = Nil /\ todo' = todo /\ view' = view
  BY DEF Commit, Transactions
<1>2. WholeAfter(committed, pending)
  BY <1>1 DEF Prepared
<1>3. \A v \in Views :
        view[v] = Nil \/ (Whole(view[v]) /\ WholeAfter(view[v], pending))
  BY <1>2 DEF Transactions, WholeAfter
<1> QED
  BY <1>1, <1>2, <1>3 DEF Transactions, WholeAfter

LEMMA ViewStep ==
    ASSUME Transactions, NEW v \in Views, BeginView(v) \/ EndView(v)
    PROVE  Transactions'
<1>1. /\ committed' = committed /\ pending' = pending /\ todo' = todo
      /\ \E b \in {committed, Nil} : view' = [view EXCEPT ![v] = b]
  BY DEF BeginView, EndView
<1>2. PICK b \in {committed, Nil} : view' = [view EXCEPT ![v] = b]
  BY <1>1
<1>3. /\ view' = [w \in Views |-> view'[w]]
      /\ \A w \in Views : view'[w] = IF w = v THEN b ELSE view[w]
  BY <1>2 DEF Transactions
<1>4. \A w \in Views :
        view'[w] = Nil \/ (Whole(view'[w]) /\ WholeAfter(view'[w], committed))
  BY <1>2, <1>3 DEF Transactions, WholeAfter
<1> QED
  BY <1>1, <1>3, <1>4 DEF Transactions

LEMMA TransactionsStep ==
    ASSUME IdsApart, Transactions, [Next]_vars
    PROVE  Transactions'
<1>1. ASSUME NEW t \in Tenants,
             \/ \E e \in ExecutionIDs :
                  \/ \E s \in ScheduleIDs : UpdateClaim(t, s, e)
                  \/ UpdateComplete(t, e)
             \/ \E a \in AttemptIDs : UpdateRecord(t, a)
      PROVE  Transactions'
  BY <1>1, UpdateStep
<1>2. CASE MakePut
  BY <1>2, PutStep
<1>3. CASE Commit
  BY <1>3, CommitStep
<1>4. CASE Rollback
  BY <1>4 DEF Rollback, Transactions
<1>5. ASSUME NEW v \in Views, BeginView(v) \/ EndView(v)
      PROVE  Transactions'
  BY <1>5, ViewStep
<1>6. CASE UNCHANGED vars
  BY <1>6 DEF vars, Transactions
<1> QED
  BY <1>1, <1>2, <1>3, <1>4, <1>5, <1>6 DEF Next

LEMMA VisibleWhole ==
    ASSUME Transactions, NEW b \in Visible
    PROVE  Whole(b) /\ WholeAfter(b, committed)
BY DEF Transactions, Visible, WholeAfter

-----------------------------------------------------------------------------
(* The theorems. *)

(* ListsMatchRows: GetExecution and the lists of internal/storage agree: what a  *)
(* prefix scan of an index finds are the rows of that tenant, schedule, status   *)
(* or execution, every one of them and no other, whatever the order of puts,     *)
(* commits, rollbacks and reads, if no id continues another after a colon.      *)
THEOREM ListsShowTheRows == IdsApart => (Spec => []ListsMatchRows)
<1> SUFFICES ASSUME IdsApart PROVE Spec => []ListsMatchRows
  OBVIOUS
<1>1. Init => Transactions
  BY TransactionsBegin
<1>2. Transactions /\ [Next]_vars => Transactions'
  BY TransactionsStep
<1>3. Transactions => ListsMatchRows
  <2> SUFFICES ASSUME Transactions, NEW b \in Visible, NEW t \in Tenants
               PROVE  /\ \A s \in ScheduleIDs :
                           ListExecutionsBySchedule(b, t, s)
                              = {ex \in Rows(b.executions) :
                                   ex.tenantID = t /\ ex.scheduleID = s}
                      /\ \A status \in Statuses :
                           ListExecutionsByStatus(b, t, status)
                              = {ex \in Rows(b.executions) :
                                   ex.tenantID = t /\ ex.status = status}
                      /\ \A e \in ExecutionIDs :
                           ListAttemptsByExecution(b, t, e)
                              = {at \in Rows(b.attempts) :
                                   at.tenantID = t /\ at.executionID = e}
    BY DEF ListsMatchRows
  <2>1. Sound(b)
    BY VisibleWhole DEF Whole
  <2> QED
    BY <2>1, ScheduleList, StatusList, AttemptList
<1> QED
  BY <1>1, <1>2, <1>3, PTL DEF Spec

(* LastAttemptIsListed: whoever reads an execution in one read transaction and its   *)
(* attempts in the same or a later one finds the attempt the row names as its      *)
(* last, as recovery and finalization rely on, with record_attempt replayed or     *)
(* not.                                                                      *)
THEOREM ReadersFindTheLastAttempt == IdsApart => (Spec => []LastAttemptIsListed)
<1> SUFFICES ASSUME IdsApart PROVE Spec => []LastAttemptIsListed
  OBVIOUS
<1>1. Init => Transactions
  BY TransactionsBegin
<1>2. Transactions /\ [Next]_vars => Transactions'
  BY TransactionsStep
<1>3. Transactions => LastAttemptIsListed
  <2> SUFFICES ASSUME Transactions, NEW b \in Visible, NEW ex \in Rows(b.executions),
                      ex.lastAttemptID # Nil, NEW later \in {b, committed}
               PROVE  LastAttempt(ex) \in ListAttemptsByExecution(later, ex.tenantID, ex.id)
    BY DEF LastAttemptIsListed, LastAttempt
  <2>1. Whole(b) /\ WholeAfter(b, committed)
    BY VisibleWhole
  <2>2. ex \in Execution /\ Sound(later) /\ Rows(b.attempts) \subseteq Rows(later.attempts)
    BY <2>1, RowTypes DEF Whole, WholeAfter, Sound
  <2>3. LastAttempt(ex) \in Rows(later.attempts)
    BY <2>1, <2>2 DEF Whole
  <2>4. ListAttemptsByExecution(later, ex.tenantID, ex.id)
          = {at \in Rows(later.attempts) : at.tenantID = ex.tenantID /\ at.executionID = ex.id}
    BY <2>2, AttemptList DEF Execution
  <2> QED
    BY <2>3, <2>4 DEF LastAttempt
<1> QED
  BY <1>1, <1>2, <1>3, PTL DEF Spec
=============================================================================
