--------------------------- MODULE Commands_proofs ---------------------------
(***************************************************************************)
(* What the interval functions of module Recurrence return, for every       *)
(* cadence and every instant, and the types of what the handlers of module  *)
(* Commands compute from any database.                                      *)
(***************************************************************************)
EXTENDS Commands, WellFoundedInduction, FiniteSetTheorems, TLAPS

-----------------------------------------------------------------------------
(* Intervals. *)

(* Integer division by a positive number rounds down. *)
LEMMA DivRoundsDown ==
    ASSUME NEW x \in Nat, NEW s \in Nat \ {0}
    PROVE  /\ x \div s \in Nat
           /\ (x \div s) * s <= x
           /\ x < (x \div s) * s + s
<1>1. x \div s \in Nat
  BY Z3
<1>2. x = (x \div s) * s + (x % s) /\ x % s \in 0..(s - 1)
  BY Z3
<1> QED
  BY <1>1, <1>2, Z3

(* Multiples of s that lie in the same half-open interval of length s agree.  *)
LEMMA MultiplesApart ==
    ASSUME NEW s \in Nat \ {0}, NEW q \in Int, NEW k \in Int,
           q * s < k * s
    PROVE  q * s + s <= k * s
<1>1. q < k
  BY Z3
<1>2. q + 1 <= k
  BY <1>1
<1>3. (q + 1) * s <= k * s
  BY <1>2, Z3
<1> QED
  BY <1>3, Z3

(* computeIntervalAfter returns the first occurrence strictly after from. *)
THEOREM AfterIsNext ==
    ASSUME NEW firstRunAt \in Nat, NEW seconds \in Nat \ {0}, NEW from \in Int
    PROVE  LET next == computeIntervalAfter(firstRunAt, seconds, from)
           IN  /\ next \in Nat
               /\ next > from
               /\ \E k \in Nat : next = firstRunAt + k * seconds
               /\ \A k \in Nat : firstRunAt + k * seconds > from
                                    => firstRunAt + k * seconds >= next
<1> DEFINE next == computeIntervalAfter(firstRunAt, seconds, from)
<1>1. CASE from < firstRunAt
  <2>1. next = firstRunAt
    BY <1>1 DEF computeIntervalAfter
  <2>2. firstRunAt = firstRunAt + 0 * seconds
    OBVIOUS
  <2>3. \A k \in Nat : firstRunAt + k * seconds >= firstRunAt
    BY Z3
  <2> QED
    BY <1>1, <2>1, <2>2, <2>3
<1>2. CASE ~(from < firstRunAt)
  <2> DEFINE x == from - firstRunAt
             q == x \div seconds
  <2>1. x \in Nat
    BY <1>2
  <2> HIDE DEF x
  <2>2. q \in Nat /\ q * seconds <= x /\ x < q * seconds + seconds
    BY <2>1, DivRoundsDown
  <2>3. next = firstRunAt + (q + 1) * seconds
    BY <1>2 DEF computeIntervalAfter, FloorOfQuotient, x
  <2> HIDE DEF q, next
  <2>4. (q + 1) * seconds = q * seconds + seconds /\ q * seconds \in Nat
    BY <2>2, Z3
  <2>5. next \in Nat /\ next > from
    BY <2>1, <2>2, <2>3, <2>4 DEF x
  <2>6. ASSUME NEW k \in Nat, firstRunAt + k * seconds > from
        PROVE  firstRunAt + k * seconds >= next
    <3>1. k * seconds \in Nat /\ k * seconds > x
      BY <2>6, <2>1, Z3 DEF x
    <3>2. q * seconds < k * seconds
      BY <3>1, <2>1, <2>2, <2>4
    <3>3. q * seconds + seconds <= k * seconds
      BY <3>2, <2>2, MultiplesApart
    <3> QED
      BY <3>1, <3>3, <2>3, <2>4
  <2>7. q + 1 \in Nat
    BY <2>2
  <2> QED
    BY <2>3, <2>5, <2>6, <2>7 DEF next
<1> QED
  BY <1>1, <1>2

(* At its own first instant computeIntervalOnOrAfter stays put. *)
LEMMA OnOrAfterFirst ==
    ASSUME NEW firstRunAt \in Nat, NEW seconds
    PROVE  computeIntervalOnOrAfter(firstRunAt, seconds, firstRunAt) = firstRunAt
BY DEF computeIntervalOnOrAfter

(* computeIntervalLatestOnOrBefore returns the last occurrence that is not     *)
(* after from, and none exactly when the first is.                           *)
THEOREM LatestIsPrevious ==
    ASSUME NEW firstRunAt \in Nat, NEW seconds \in Nat \ {0}, NEW from \in Int,
           NEW none
    PROVE  LET latest == computeIntervalLatestOnOrBefore(firstRunAt, seconds, from, none)
           IN  IF from < firstRunAt THEN latest = none
               ELSE /\ latest \in Nat
                    /\ latest <= from
                    /\ \E k \in Nat : latest = firstRunAt + k * seconds
                    /\ \A k \in Nat : firstRunAt + k * seconds <= from
                                         => firstRunAt + k * seconds <= latest
<1> DEFINE latest == computeIntervalLatestOnOrBefore(firstRunAt, seconds, from, none)
<1>1. CASE from < firstRunAt
  BY <1>1 DEF computeIntervalLatestOnOrBefore
<1>2. CASE ~(from < firstRunAt)
  <2> DEFINE x == from - firstRunAt
             q == x \div seconds
  <2>1. x \in Nat
    BY <1>2
  <2> HIDE DEF x
  <2>2. q \in Nat /\ q * seconds <= x /\ x < q * seconds + seconds
    BY <2>1, DivRoundsDown
  <2>3. latest = firstRunAt + q * seconds
    BY <1>2 DEF computeIntervalLatestOnOrBefore, FloorOfQuotient, x
  <2> HIDE DEF q, latest
  <2>4. q * seconds \in Nat
    BY <2>2, Z3
  <2>5. latest \in Nat /\ latest <= from
    BY <2>1, <2>2, <2>3, <2>4 DEF x
  <2>6. ASSUME NEW k \in Nat, firstRunAt + k * seconds <= from
        PROVE  firstRunAt + k * seconds <= latest
    <3>1. k * seconds \in Nat /\ k * seconds <= x
      BY <2>6, <2>1, Z3 DEF x
    <3>2. ~(q * seconds + seconds <= k * seconds)
      BY <3>1, <2>1, <2>2, <2>4
    <3>3. ~(q * seconds < k * seconds)
      BY <3>2, <2>2, MultiplesApart
    <3> QED
      BY <3>1, <3>3, <2>3, <2>4
  <2> QED
    BY <1>2, <2>2, <2>3, <2>5, <2>6 DEF latest
<1> QED
  BY <1>1, <1>2

(* Whatever the interval, the functions return instants. *)
LEMMA FloorOfQuotientType ==
    ASSUME NEW x \in Int, NEW seconds \in Int
    PROVE  FloorOfQuotient(x, seconds) \in Int
<1>1. CASE seconds > 0
  <2>1. x \div seconds \in Int
    BY <1>1, Z3
  <2> QED
    BY <1>1, <2>1 DEF FloorOfQuotient
<1>2. CASE seconds < 0
  <2> DEFINE y == -x
             s == -seconds
  <2>1. y \in Int /\ s \in Int /\ s > 0
    BY <1>2
  <2> HIDE DEF y, s
  <2>2. y \div s \in Int
    BY <2>1, Z3
  <2>3. FloorOfQuotient(x, seconds) = y \div s
    BY <1>2 DEF FloorOfQuotient, y, s
  <2> QED
    BY <2>2, <2>3
<1>3. CASE seconds = 0
  BY <1>3 DEF FloorOfQuotient
<1> QED
  BY <1>1, <1>2, <1>3

LEMMA ProductsAreInts ==
    ASSUME NEW a \in Int, NEW b \in Int
    PROVE  a * b \in Int
OBVIOUS

LEMMA AfterIsInstant ==
    ASSUME NEW firstRunAt \in Nat, NEW seconds \in Int, NEW from \in Int
    PROVE  computeIntervalAfter(firstRunAt, seconds, from) \in Int
<1> DEFINE q == FloorOfQuotient(from - firstRunAt, seconds)
<1>1. q \in Int
  BY FloorOfQuotientType
<1> HIDE DEF q
<1>2. (q + 1) * seconds \in Int
  BY <1>1, ProductsAreInts
<1> QED
  BY <1>2 DEF computeIntervalAfter, q

LEMMA LatestIsInstant ==
    ASSUME NEW firstRunAt \in Nat, NEW seconds \in Int, NEW from \in Int, NEW none
    PROVE  computeIntervalLatestOnOrBefore(firstRunAt, seconds, from, none) \in Int \cup {none}
<1> DEFINE q == FloorOfQuotient(from - firstRunAt, seconds)
<1>1. q \in Int
  BY FloorOfQuotientType
<1> HIDE DEF q
<1>2. q * seconds \in Int
  BY <1>1, ProductsAreInts
<1> QED
  BY <1>2 DEF computeIntervalLatestOnOrBefore, q

-----------------------------------------------------------------------------
(* The grid. *)

(* How far along the grid an instant lies needs no bound. *)
LEMMA OnGridUnbounded ==
    ASSUME NEW firstRunAt \in Nat, NEW seconds \in Nat \ {0}, NEW t \in Nat
    PROVE  OnGrid(firstRunAt, seconds, t) <=> \E k \in Nat : t = firstRunAt + k * seconds
<1>1. ASSUME NEW k \in Nat, t = firstRunAt + k * seconds
      PROVE  k \in 0..t
  <2> DEFINE m == seconds - 1
  <2>1. m \in Nat /\ seconds = m + 1
    OBVIOUS
  <2> HIDE DEF m
  <2>2. k * seconds = k * m + k /\ k * m \in Nat
    BY <2>1, Z3
  <2> QED
    BY <1>1, <2>2
<1>2. 0..t \subseteq Nat
  OBVIOUS
<1> QED
  BY <1>1, <1>2 DEF OnGrid

(* The first instant is on the grid, and the grid has none before it. *)
LEMMA GridStart ==
    ASSUME NEW firstRunAt \in Nat, NEW seconds \in Nat \ {0}
    PROVE  /\ OnGrid(firstRunAt, seconds, firstRunAt)
           /\ \A u \in Nat : OnGrid(firstRunAt, seconds, u) => u >= firstRunAt
<1>1. firstRunAt = firstRunAt + 0 * seconds
  OBVIOUS
<1>2. ASSUME NEW k \in Nat PROVE firstRunAt + k * seconds >= firstRunAt
  <2>1. k * seconds \in Nat
    BY Z3
  <2> QED
    BY <2>1
<1>3. \A u \in Nat : OnGrid(firstRunAt, seconds, u)
                       <=> \E k \in Nat : u = firstRunAt + k * seconds
  BY OnGridUnbounded
<1> QED
  BY <1>1, <1>2, <1>3

(* computeIntervalAfter returns the next instant of the grid. *)
LEMMA AfterOnGrid ==
    ASSUME NEW firstRunAt \in Nat, NEW seconds \in Nat \ {0}, NEW from \in Int
    PROVE  LET next == computeIntervalAfter(firstRunAt, seconds, from)
           IN  /\ next \in Nat
               /\ next > from
               /\ OnGrid(firstRunAt, seconds, next)
               /\ \A u \in Nat : OnGrid(firstRunAt, seconds, u) /\ u > from => u >= next
<1> DEFINE next == computeIntervalAfter(firstRunAt, seconds, from)
<1>1. \A u \in Nat : OnGrid(firstRunAt, seconds, u)
                       <=> \E k \in Nat : u = firstRunAt + k * seconds
  BY OnGridUnbounded
<1>2. /\ next \in Nat /\ next > from
      /\ \E k \in Nat : next = firstRunAt + k * seconds
      /\ \A k \in Nat : firstRunAt + k * seconds > from => firstRunAt + k * seconds >= next
  BY AfterIsNext
<1> HIDE DEF next
<1>3. OnGrid(firstRunAt, seconds, next)
  BY <1>1, <1>2, Zenon
<1>4. ASSUME NEW u \in Nat, OnGrid(firstRunAt, seconds, u), u > from PROVE u >= next
  BY <1>1, <1>2, <1>4
<1> QED
  BY <1>2, <1>3, <1>4 DEF next

(* computeIntervalLatestOnOrBefore returns an instant of the grid, or none. *)
LEMMA LatestOnGrid ==
    ASSUME NEW firstRunAt \in Nat, NEW seconds \in Nat \ {0}, NEW from \in Int,
           NEW none
    PROVE  LET latest == computeIntervalLatestOnOrBefore(firstRunAt, seconds, from, none)
           IN  \/ latest = none
               \/ latest \in Nat /\ OnGrid(firstRunAt, seconds, latest)
<1>1. CASE from < firstRunAt
  BY <1>1, LatestIsPrevious
<1>2. CASE ~(from < firstRunAt)
  <2> DEFINE latest == computeIntervalLatestOnOrBefore(firstRunAt, seconds, from, none)
  <2>0. IF from < firstRunAt THEN latest = none
        ELSE /\ latest \in Nat
             /\ latest <= from
             /\ \E k \in Nat : latest = firstRunAt + k * seconds
             /\ \A k \in Nat : firstRunAt + k * seconds <= from
                                  => firstRunAt + k * seconds <= latest
    BY LatestIsPrevious, Zenon
  <2> HIDE DEF latest
  <2>1. latest \in Nat /\ \E k \in Nat : latest = firstRunAt + k * seconds
    BY <1>2, <2>0
  <2>2. OnGrid(firstRunAt, seconds, latest)
    BY <2>1, OnGridUnbounded, Zenon
  <2> QED
    BY <2>1, <2>2 DEF latest
<1> QED
  BY <1>1, <1>2

-----------------------------------------------------------------------------
(* The CHOOSE of findMostRecentTerminalExecution. *)

(* A non-empty set of integers that has an upper bound has a greatest element: *)
(* of the intervals that start in it, the smallest starts there.             *)
LEMMA BoundedSetHasMax ==
    ASSUME NEW S \in SUBSET Int, S # {}, NEW b \in Int, \A x \in S : x <= b
    PROVE  \E m \in S : \A x \in S : x <= m
<1> DEFINE Intervals == {x..b : x \in S}
<1>1. Intervals \subseteq FiniteSubsetsOf(Int)
  <2>1. \A x \in S : x..b \in SUBSET Int
    OBVIOUS
  <2>3. \A x \in S : IsFiniteSet(x..b)
    BY FS_Interval
  <2> QED
    BY <2>1, <2>3 DEF FiniteSubsetsOf
<1>2. Intervals # {}
  OBVIOUS
<1>3. PICK w \in Intervals :
          \A v \in Intervals : ~(<<v, w>> \in StrictSubsetOrdering(Int))
  <2> HIDE DEF Intervals
  <2> QED
    BY <1>1, <1>2, WFMin, FS_StrictSubsetOrderingWellFounded
<1>4. PICK m \in S : w = m..b
  OBVIOUS
<1>5. ASSUME NEW x \in S, m < x PROVE FALSE
  <2>1. x..b \subseteq m..b /\ m \in m..b /\ m \notin x..b
    BY <1>5
  <2>2. <<x..b, m..b>> \in StrictSubsetOrdering(Int)
    BY <2>1 DEF StrictSubsetOrdering
  <2> QED
    BY <2>2, <1>3, <1>4
<1> QED
  BY <1>5

-----------------------------------------------------------------------------
(* What the handlers compute has its type. *)

(* Some instant is no earlier than any execution's.  There are always finitely  *)
(* many executions; this is the part of it the proofs need.                  *)
Bounded(tx) ==
    \E b \in Int : \A e \in Executions(tx) : tx.executions[e].scheduledFor <= b

(* findMostRecentTerminalExecution finds an ended execution's instant, and no   *)
(* ended execution of the schedule has a later one.                          *)
LEMMA MostRecentIsLatest ==
    ASSUME NEW tx \in Database, Bounded(tx), NEW s
    PROVE  LET t == findMostRecentTerminalExecution(tx, s)
               Ends0 == {f \in ExecutionsOf(tx, s) :
                           IsTerminal(tx.executions[f].status)}
           IN  IF Ends0 = {} THEN t = Nil
               ELSE /\ t \in Int
                    /\ \E f \in Ends0 : t = tx.executions[f].scheduledFor
                    /\ \A f \in Ends0 : tx.executions[f].scheduledFor <= t
<1> DEFINE Ends0 == {f \in ExecutionsOf(tx, s) :
                       IsTerminal(tx.executions[f].status)}
           S == {tx.executions[f].scheduledFor : f \in Ends0}
           Latest(t) == \A u \in S : u <= t
<1>1. findMostRecentTerminalExecution(tx, s)
        = IF S = {} THEN Nil ELSE CHOOSE t \in S : Latest(t)
  BY Zenon DEF findMostRecentTerminalExecution
<1>2. CASE Ends0 = {}
  BY <1>1, <1>2
<1>3. CASE Ends0 # {}
  <2>1. Ends0 \subseteq Executions(tx) /\ Executions(tx) \subseteq ExecutionIDs
    BY DEF ExecutionsOf, Executions
  <2>2. \A e \in Executions(tx) : tx.executions[e] \in Execution
    BY DEF Executions, Database
  <2>3. S \in SUBSET Int /\ S # {}
    BY <1>3, <2>1, <2>2 DEF Execution
  <2>4. \E b \in Int : \A u \in S : u <= b
    BY <2>1 DEF Bounded
  <2> HIDE DEF S
  <2>5. \E t \in S : Latest(t)
    BY <2>3, <2>4, BoundedSetHasMax
  <2> HIDE DEF Latest
  <2>6. findMostRecentTerminalExecution(tx, s) \in S
          /\ Latest(findMostRecentTerminalExecution(tx, s))
    BY <1>1, <2>3, <2>5, Zenon
  <2> QED
    BY <1>3, <2>3, <2>6 DEF S, Latest
<1> QED
  BY <1>2, <1>3

(* A resumed schedule is due at some instant if its policy has a case, and not  *)
(* at all if it has none.                                                    *)
LEMMA ResumedNextRunType ==
    ASSUME NEW tx \in Database, Bounded(tx),
           NEW s \in ScheduleIDs, tx.schedules[s] # Nil, NEW at \in Nat
    PROVE  LET cfg == tx.schedules[s].config
           IN  IF cfg.scheduleType = "once" \/ cfg.catchUpPolicy \in CatchUpPolicies
               THEN ResumedNextRun(tx, s, at) \in Int
               ELSE ResumedNextRun(tx, s, at) = Nil
<1> DEFINE cfg == tx.schedules[s].config
           anchor == findMostRecentTerminalExecution(tx, s)
           latest == computeIntervalLatestOnOrBefore(cfg.firstRunAt, cfg.seconds, at, Nil)
<1>1. /\ cfg.firstRunAt \in Nat
      /\ cfg.scheduleType # "once" => cfg.seconds \in Int
      /\ cfg.scheduleType \in ScheduleTypes
      /\ cfg.catchUpPolicy \in AnyPolicy
  BY DEF Database, Schedule, ScheduleConfig, HasInterval
<1>2. anchor \in Int \cup {Nil}
  BY MostRecentIsLatest
<1>3. cfg.scheduleType # "once" => latest \in Int \cup {Nil}
  BY <1>1, LatestIsInstant
<1>4. cfg.scheduleType # "once"
        => computeIntervalAfter(cfg.firstRunAt, cfg.seconds, at) \in Int
  BY <1>1, AfterIsInstant
<1>5. cfg.scheduleType # "once" /\ anchor # Nil
        => computeIntervalAfter(cfg.firstRunAt, cfg.seconds, anchor) \in Int
  BY <1>1, <1>2, AfterIsInstant
<1>6. computeIntervalOnOrAfter(cfg.firstRunAt, cfg.seconds, cfg.firstRunAt) \in Nat
  BY <1>1, OnOrAfterFirst
<1> HIDE DEF anchor, latest
<1>7. ResumedNextRun(tx, s, at) =
        CASE cfg.scheduleType = "once" -> cfg.firstRunAt
          [] cfg.scheduleType # "once" /\ cfg.catchUpPolicy = "catch_up_all" ->
                IF anchor = Nil
                THEN computeIntervalOnOrAfter(cfg.firstRunAt, cfg.seconds,
                                              cfg.firstRunAt)
                ELSE computeIntervalAfter(cfg.firstRunAt, cfg.seconds, anchor)
          [] cfg.scheduleType # "once"
                /\ cfg.catchUpPolicy = "catch_up_latest_only" ->
                IF latest = Nil THEN cfg.firstRunAt ELSE latest
          [] cfg.scheduleType # "once" /\ cfg.catchUpPolicy = "skip_missed" ->
                computeIntervalAfter(cfg.firstRunAt, cfg.seconds, at)
          [] cfg.scheduleType # "once" /\ cfg.catchUpPolicy \notin CatchUpPolicies ->
                Nil
  BY DEF ResumedNextRun, anchor, latest
<1> HIDE DEF cfg
<1>8. CASE cfg.scheduleType = "once" \/ cfg.catchUpPolicy \in CatchUpPolicies
  <2>1. ResumedNextRun(tx, s, at) \in Int
    BY <1>1, <1>2, <1>3, <1>4, <1>5, <1>6, <1>7, <1>8, Z3 DEF CatchUpPolicies
  <2> QED
    BY <1>8, <2>1 DEF cfg
<1>9. CASE ~(cfg.scheduleType = "once" \/ cfg.catchUpPolicy \in CatchUpPolicies)
  <2>1. ResumedNextRun(tx, s, at) = Nil
    BY <1>7, <1>9, Z3 DEF CatchUpPolicies
  <2> QED
    BY <1>9, <2>1 DEF cfg
<1> QED
  BY <1>8, <1>9

(* What a schedule resumed with catch_up_all is due for. *)
LEMMA CatchUpAllNextRun ==
    ASSUME NEW tx, NEW s, NEW at,
           tx.schedules[s].config.scheduleType # "once",
           tx.schedules[s].config.catchUpPolicy = "catch_up_all"
    PROVE  LET cfg == tx.schedules[s].config
               anchor == findMostRecentTerminalExecution(tx, s)
           IN  ResumedNextRun(tx, s, at)
                 = IF anchor = Nil
                   THEN computeIntervalOnOrAfter(cfg.firstRunAt, cfg.seconds,
                                                 cfg.firstRunAt)
                   ELSE computeIntervalAfter(cfg.firstRunAt, cfg.seconds, anchor)
BY DEF ResumedNextRun, CatchUpPolicies

(* The row written at the end of an execution is a schedule's row. *)
LEMMA AfterExecutionType ==
    ASSUME NEW schedule \in Schedule, NEW t \in Int
    PROVE  /\ AfterExecution(schedule, t) \in Schedule
           /\ AfterExecution(schedule, t).config = schedule.config
<1>1. CASE schedule.config.scheduleType = "recurring"
  <2>1. computeIntervalAfter(schedule.config.firstRunAt, schedule.config.seconds, t) \in Int
    BY <1>1, AfterIsInstant DEF Schedule, ScheduleConfig, HasInterval
  <2> QED
    BY <1>1, <2>1 DEF AfterExecution, Schedule, ScheduleStatuses
<1>2. CASE schedule.config.scheduleType # "recurring"
  BY <1>2 DEF AfterExecution, Schedule, ScheduleStatuses
<1> QED
  BY <1>1, <1>2

(* Writing rows of the right types leaves a database. *)
LEMMA WritesKeepTypes ==
    ASSUME NEW tx \in Database
    PROVE  /\ \A s \in ScheduleIDs, v \in Schedule :
                [tx EXCEPT !.schedules[s] = v] \in Database
           /\ \A e \in ExecutionIDs, v \in Execution :
                [tx EXCEPT !.executions[e] = v] \in Database
           /\ \A e \in ExecutionIDs, v \in Execution, s \in ScheduleIDs, w \in Schedule :
                [tx EXCEPT !.executions[e] = v, !.schedules[s] = w] \in Database
           /\ \A a \in AttemptIDs, w \in Attempt, e \in ExecutionIDs, v \in Execution :
                [tx EXCEPT !.attempts[a] = w, !.executions[e] = v] \in Database
BY DEF Database

(* A bounded database stays bounded when no execution is claimed. *)
LEMMA BoundedKept ==
    ASSUME NEW tx, NEW ty, Bounded(tx),
           \A e \in Executions(ty) :
              /\ e \in Executions(tx)
              /\ ty.executions[e].scheduledFor = tx.executions[e].scheduledFor
    PROVE  Bounded(ty)
BY DEF Bounded
=============================================================================
