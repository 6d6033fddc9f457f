-------------------------- MODULE Timetable_proofs --------------------------
(***************************************************************************)
(* The recurrence functions and the schedules they move, for every         *)
(* cadence, first run, length of day and calendar of months.               *)
(*                                                                         *)
(* recurrence.go's functions search days, weeks and months by calendar     *)
(* dates; the properties speak of a grid of instants. The two are brought  *)
(* together as days of the grid at the tick of the first run.              *)
(***************************************************************************)
EXTENDS Timetable, WellFoundedInduction, TLAPS

-----------------------------------------------------------------------------
(* Numbers. *)

(* Induction over the natural numbers, for a set of them. *)
LEMMA SetInduction ==
    ASSUME NEW S, 0 \in S, \A n \in Nat : n \in S => n + 1 \in S
    PROVE  Nat \subseteq S
<1> DEFINE R == OpToRel(<, Nat)
           T == Nat \ S
<1>1. SUFFICES ASSUME T # {} PROVE FALSE
    OBVIOUS
<1>2. IsWellFoundedOn(R, Nat)
    BY NatLessThanWellFounded
<1>3. \A x, y \in Nat : y < x => <<y, x>> \in R
    BY DEF OpToRel
<1>4. T \subseteq Nat
    OBVIOUS
<1>5. \E x \in T : \A y \in T : ~(<<y, x>> \in R)
    <2> HIDE DEF R, T
    <2> QED BY <1>1, <1>2, <1>4, WFMin
<1>6. PICK x \in T : \A y \in T : ~(<<y, x>> \in R)
    BY <1>5
<1>7. x # 0 /\ x - 1 \in Nat /\ x - 1 < x /\ x - 1 \notin T
    <2> HIDE DEF R
    <2>1. x \in Nat /\ x \notin S /\ x # 0
        BY <1>6
    <2>2. x - 1 \in Nat /\ x - 1 < x /\ (x - 1) + 1 = x
        BY <2>1
    <2>3. x - 1 \notin T
        BY <1>3, <1>6, <2>1, <2>2
    <2> QED BY <2>1, <2>2, <2>3
<1> QED
    BY <1>7

(* Quotient and remainder. *)
LEMMA DivMod ==
    ASSUME NEW a \in Int, NEW d \in Nat \ {0}
    PROVE  /\ a \div d \in Int
           /\ a % d \in 0..(d - 1)
           /\ a = (a \div d) * d + (a % d)
    OBVIOUS

(* There is one of each. *)
LEMMA DivModUnique ==
    ASSUME NEW q \in Int, NEW d \in Nat \ {0}, NEW r \in 0..(d - 1)
    PROVE  /\ (q * d + r) \div d = q
           /\ (q * d + r) % d = r
    OBVIOUS

-----------------------------------------------------------------------------
(* The first days of the months. *)

(* No month is empty. *)
LEMMA DaysInPositive ==
    ASSUME NEW m \in Nat
    PROVE  DaysIn(m) \in Nat \ {0}
<1>1. PICK year \in Nat \ {0} : year = Len(MonthLengths)
    BY CalendarAssumption
<1>2. m % year \in 0..(year - 1)
    BY DivMod
<1>3. (m % year) + 1 \in 1..Len(MonthLengths)
    BY <1>1, <1>2
<1>4. MonthLengths[(m % year) + 1] \in Nat \ {0}
    BY <1>3, CalendarAssumption
<1> QED
    BY <1>1, <1>4 DEF DaysIn

(* g is what monthStart is up to month n. *)
StartsUpTo(n, g) ==
    /\ g \in [0..n -> Nat]
    /\ g[0] = 0
    /\ \A i \in 0..(n - 1) : g[i + 1] = g[i] + DaysIn(i)

(* For every number of months there are first days... *)
LEMMA StartsExist ==
    \A n \in Nat : \E g : StartsUpTo(n, g)
<1> DEFINE S == {n \in Nat : \E g : StartsUpTo(n, g)}
<1>1. 0 \in S
    <2>1. StartsUpTo(0, [i \in 0..0 |-> 0])
        BY DEF StartsUpTo
    <2> QED BY <2>1
<1>2. ASSUME NEW n \in Nat, n \in S PROVE n + 1 \in S
    <2>1. PICK g : StartsUpTo(n, g)
        BY <1>2
    <2> DEFINE h == [i \in 0..(n + 1) |-> IF i = n + 1 THEN g[n] + DaysIn(n) ELSE g[i]]
    <2>2. \A i \in 0..n : g[i] \in Nat /\ h[i] = g[i]
        BY <2>1 DEF StartsUpTo
    <2>3. h[n + 1] = g[n] + DaysIn(n) /\ DaysIn(n) \in Nat
        BY DaysInPositive
    <2>4. h \in [0..(n + 1) -> Nat]
        BY <2>2, <2>3
    <2>5. ASSUME NEW i \in 0..n PROVE h[i + 1] = h[i] + DaysIn(i)
        <3>1. CASE i = n
            BY <2>2, <2>3, <3>1
        <3>2. CASE i # n
            <4>1. i \in 0..(n - 1) /\ i + 1 \in 0..n
                BY <3>2
            <4> QED BY <2>1, <2>2, <4>1 DEF StartsUpTo
        <3> QED BY <3>1, <3>2
    <2>6. StartsUpTo(n + 1, h)
        <3> HIDE DEF h
        <3>1. h[0] = 0
            BY <2>1, <2>2 DEF StartsUpTo
        <3>2. (n + 1) - 1 = n
            OBVIOUS
        <3> QED BY <2>4, <2>5, <3>1, <3>2 DEF StartsUpTo
    <2> QED BY <2>6
<1>3. Nat \subseteq S
    <2> HIDE DEF S
    <2> QED BY <1>1, <1>2, SetInduction
<1> QED
    BY <1>3

(* ...and only one sequence of them. *)
LEMMA StartsAgree ==
    ASSUME NEW m \in Nat, NEW n \in Nat, NEW g, NEW h,
           StartsUpTo(m, g), StartsUpTo(n, h)
    PROVE  \A i \in Nat : i <= m /\ i <= n => g[i] = h[i]
<1> DEFINE S == {i \in Nat : i <= m /\ i <= n => g[i] = h[i]}
<1>1. 0 \in S
    BY DEF StartsUpTo
<1>2. ASSUME NEW i \in Nat, i \in S PROVE i + 1 \in S
    <2>1. SUFFICES ASSUME i + 1 <= m, i + 1 <= n PROVE g[i + 1] = h[i + 1]
        OBVIOUS
    <2>2. i \in 0..(m - 1) /\ i \in 0..(n - 1) /\ g[i] = h[i]
        BY <1>2, <2>1
    <2> QED BY <2>2 DEF StartsUpTo
<1>3. Nat \subseteq S
    <2> HIDE DEF S
    <2> QED BY <1>1, <1>2, SetInduction
<1> QED
    BY <1>3

(* monthStart is the function its definition describes. *)
LEMMA MonthStarts ==
    /\ monthStart[0] = 0
    /\ \A m \in Nat : /\ monthStart[m] \in Nat
                      /\ DaysIn(m) \in Nat \ {0}
                      /\ monthStart[m + 1] = monthStart[m] + DaysIn(m)
<1> DEFINE up(n) == CHOOSE g : StartsUpTo(n, g)
           f == [n \in Nat |-> up(n)[n]]
<1>1. \A n \in Nat : StartsUpTo(n, up(n))
    BY StartsExist
<1>2. ASSUME NEW n \in Nat PROVE f[n] \in Nat
    <2> HIDE DEF up
    <2>1. StartsUpTo(n, up(n)) /\ f[n] = up(n)[n] /\ n \in 0..n
        BY <1>1
    <2> QED BY <2>1 DEF StartsUpTo
<1>3. f[0] = 0
    BY <1>1 DEF StartsUpTo
<1>4. ASSUME NEW n \in Nat PROVE f[n + 1] = f[n] + DaysIn(n)
    <2> HIDE DEF up
    <2>1. StartsUpTo(n, up(n)) /\ StartsUpTo(n + 1, up(n + 1))
        BY <1>1
    <2>2. up(n)[n] = up(n + 1)[n]
        BY <2>1, StartsAgree
    <2>3. up(n + 1)[n + 1] = up(n + 1)[n] + DaysIn(n)
        BY <2>1 DEF StartsUpTo
    <2> QED BY <2>2, <2>3
<1> HIDE DEF f, up
<1>5. f = [m \in Nat |-> IF m = 0 THEN 0 ELSE f[m - 1] + DaysIn(m - 1)]
    <2>1. f = [m \in Nat |-> f[m]]
        BY DEF f
    <2>2. ASSUME NEW m \in Nat
          PROVE  f[m] = IF m = 0 THEN 0 ELSE f[m - 1] + DaysIn(m - 1)
        <3>1. CASE m = 0
            BY <1>3, <3>1
        <3>2. CASE m # 0
            <4>1. m - 1 \in Nat /\ (m - 1) + 1 = m
                BY <3>2
            <4> QED BY <1>4, <3>2, <4>1
        <3> QED BY <3>1, <3>2
    <2> QED BY <2>1, <2>2
<1>6. monthStart = [m \in Nat |-> IF m = 0 THEN 0 ELSE monthStart[m - 1] + DaysIn(m - 1)]
    BY <1>5 DEF monthStart
<1> DEFINE start == monthStart
<1>7. start = [m \in Nat |-> IF m = 0 THEN 0 ELSE start[m - 1] + DaysIn(m - 1)]
    BY <1>6
<1> HIDE DEF start
<1>8. start[0] = 0
    BY <1>7
<1>9. ASSUME NEW m \in Nat PROVE start[m + 1] = start[m] + DaysIn(m)
    <2>1. (m + 1) - 1 = m /\ m + 1 # 0 /\ m + 1 \in Nat
        OBVIOUS
    <2> QED BY <1>7, <2>1
<1> DEFINE S == {m \in Nat : start[m] \in Nat}
<1>10. 0 \in S
    BY <1>8
<1>11. ASSUME NEW m \in Nat, m \in S PROVE m + 1 \in S
    BY <1>9, <1>11, DaysInPositive
<1>12. Nat \subseteq S
    <2> HIDE DEF S
    <2> QED BY <1>10, <1>11, SetInduction
<1> QED
    BY <1>8, <1>9, <1>12, DaysInPositive DEF start

(* Months follow each other. *)
LEMMA MonthsInOrder ==
    ASSUME NEW m \in Nat
    PROVE  \A n \in Nat : m < n => monthStart[m + 1] <= monthStart[n]
<1> DEFINE S == {n \in Nat : m < n => monthStart[m + 1] <= monthStart[n]}
<1>1. 0 \in S
    OBVIOUS
<1>2. ASSUME NEW n \in Nat, n \in S PROVE n + 1 \in S
    <2>1. CASE m < n
        BY <1>2, <2>1, MonthStarts
    <2>2. CASE m = n
        BY <2>2, MonthStarts
    <2>3. CASE m > n
        BY <2>3
    <2> QED BY <2>1, <2>2, <2>3
<1>3. Nat \subseteq S
    <2> HIDE DEF S
    <2> QED BY <1>1, <1>2, SetInduction
<1> QED
    BY <1>3

(* Every day is in one month, the one MonthOf finds. *)
LEMMA MonthOfDay ==
    ASSUME NEW day \in Nat
    PROVE  /\ MonthOf(day) \in Nat
           /\ monthStart[MonthOf(day)] <= day
           /\ day < monthStart[MonthOf(day) + 1]
           /\ \A m \in Nat : monthStart[m] <= day /\ day < monthStart[m + 1]
                             => m = MonthOf(day)
<1> DEFINE In(d, m) == monthStart[m] <= d /\ d < monthStart[m + 1]
           S == {d \in Nat : \E m \in 0..d : In(d, m)}
<1>1. 0 \in S
    BY MonthStarts
<1>2. ASSUME NEW d \in Nat, d \in S PROVE d + 1 \in S
    <2>1. PICK m \in 0..d : In(d, m)
        BY <1>2
    <2>2. CASE d + 1 < monthStart[m + 1]
        BY <2>1, <2>2, MonthStarts
    <2>3. CASE ~(d + 1 < monthStart[m + 1])
        <3>1. m + 1 \in 0..(d + 1) /\ m \in Nat /\ m + 1 \in Nat
            OBVIOUS
        <3>2. monthStart[m + 1] = d + 1
            BY <2>1, <2>3, <3>1, MonthStarts
        <3>3. In(d + 1, m + 1)
            BY <3>1, <3>2, MonthStarts
        <3> QED BY <3>1, <3>3
    <2> QED BY <2>2, <2>3
<1>3. Nat \subseteq S
    <2> HIDE DEF S
    <2> QED BY <1>1, <1>2, SetInduction
<1>4. \E m \in 0..day : In(day, m)
    BY <1>3
<1>5. MonthOf(day) \in 0..day /\ In(day, MonthOf(day))
    BY <1>4 DEF MonthOf
<1>6. ASSUME NEW m \in Nat, In(day, m), NEW n \in Nat, In(day, n) PROVE ~(m < n)
    BY <1>6, MonthsInOrder, MonthStarts
<1>7. ASSUME NEW m \in Nat, In(day, m) PROVE m = MonthOf(day)
    <2>1. PICK n \in Nat : n = MonthOf(day)
        BY <1>5
    <2>2. In(day, n)
        BY <1>5, <2>1
    <2>3. ~(m < n) /\ ~(n < m)
        BY <1>6, <1>7, <2>2
    <2> QED BY <2>1, <2>3
<1> QED
    BY <1>5, <1>7

-----------------------------------------------------------------------------
(* Instants: the tick x of the day d. *)

(* The instant on day d at tick x of the day. *)
At(d, x) == d * TicksPerDay + x
Ticks == 0..(TicksPerDay - 1)

(* Multiples of a number are that number apart. *)
LEMMA MultiplesInOrder ==
    ASSUME NEW n \in Nat \ {0}, NEW j \in Int, NEW k \in Int, j < k
    PROVE  j * n + n <= k * n
<1>1. k - j - 1 \in Nat
    OBVIOUS
<1>2. (k - j - 1) * n >= 0
    BY <1>1
<1>3. (k - j - 1) * n = k * n - j * n - n
    OBVIOUS
<1> QED
    BY <1>2, <1>3

(* Instants are ordered by day, then by tick. *)
LEMMA AtOrder ==
    ASSUME NEW d \in Int, NEW e \in Int, NEW x \in Ticks, NEW y \in Ticks
    PROVE  /\ At(d, x) \in Int
           /\ At(d, x) <= At(e, y) <=> d < e \/ (d = e /\ x <= y)
<1> USE CalendarAssumption DEF At, Ticks
<1>1. At(d, x) \in Int /\ At(e, y) \in Int /\ d * TicksPerDay \in Int /\ e * TicksPerDay \in Int
    OBVIOUS
<1>2. CASE d < e
    <2>1. d * TicksPerDay + TicksPerDay <= e * TicksPerDay
        BY <1>2, MultiplesInOrder
    <2> QED BY <1>1, <1>2, <2>1
<1>3. CASE e < d
    <2>1. e * TicksPerDay + TicksPerDay <= d * TicksPerDay
        BY <1>3, MultiplesInOrder
    <2> QED BY <1>1, <1>3, <2>1
<1>4. CASE d = e
    BY <1>1, <1>4
<1> QED
    BY <1>2, <1>3, <1>4

(* An instant has one day and one tick... *)
LEMMA AtParts ==
    ASSUME NEW d \in Int, NEW x \in Ticks
    PROVE  At(d, x) \div TicksPerDay = d /\ At(d, x) % TicksPerDay = x
    BY CalendarAssumption, DivModUnique DEF At, Ticks

(* ...and every instant has them. *)
LEMMA EveryInstant ==
    ASSUME NEW u \in Int
    PROVE  \E d \in Int, x \in Ticks : u = At(d, x)
<1>1. TicksPerDay \in Nat \ {0}
    BY CalendarAssumption
<1>2. u \div TicksPerDay \in Int /\ u % TicksPerDay \in Ticks
      /\ u = At(u \div TicksPerDay, u % TicksPerDay)
    BY <1>1, DivMod DEF At, Ticks
<1> QED
    BY <1>2

(* Reading and making times in UTC. *)
LEMMA TimesInUTC ==
    ASSUME NEW d \in Int, NEW x \in Ticks
    PROVE  /\ Day(UTC(At(d, x))) = d
           /\ UTC(At(d, x)).at = At(d, x)
           /\ UTC(At(d, x)).zone = 0
           /\ Date(d, x) = UTC(At(d, x))
           /\ \A n \in Int : AddDays(UTC(At(d, x)), n) = UTC(At(d + n, x))
<1>1. At(d, x) \in Int /\ At(d, x) + 0 = At(d, x)
    BY AtOrder
<1>2. Day(UTC(At(d, x))) = d
    BY <1>1, AtParts DEF Day, UTC
<1>3. ASSUME NEW n \in Int PROVE AddDays(UTC(At(d, x)), n) = UTC(At(d + n, x))
    <2>1. At(d, x) + n * TicksPerDay = At(d + n, x)
        BY CalendarAssumption DEF At, Ticks
    <2> QED BY <2>1 DEF AddDays, UTC
<1> QED
    BY <1>2, <1>3 DEF UTC, Date, At

(* A whole second is one of its day. *)
LEMMA WholeSeconds ==
    ASSUME NEW u \in Int, u % TicksPerSecond = 0
    PROVE  (u % TicksPerDay) % TicksPerSecond = 0
<1>1. PICK s \in Nat \ {0}, n \in Nat \ {0} : s = TicksPerSecond /\ n = TicksPerDay
    BY CalendarAssumption
<1>2. n % s = 0 /\ u % s = 0
    BY <1>1, CalendarAssumption
<1>3. u \div s \in Int /\ n \div s \in Int /\ u \div n \in Int
      /\ u % n \in 0..(n - 1) /\ u = (u \div n) * n + (u % n)
    BY DivMod
<1>4. PICK a \in Int, b \in Int, q \in Int :
        a = u \div s /\ b = n \div s /\ q = u \div n
    BY <1>3
<1>5. u = a * s /\ n = b * s
    BY <1>2, <1>4, DivMod
<1>6. u % n = u - q * n
    BY <1>3, <1>4
<1>7. u - q * n = (a - q * b) * s
    <2>1. q * (b * s) = (q * b) * s /\ (a - q * b) * s = a * s - (q * b) * s
        OBVIOUS
    <2> QED BY <1>5, <2>1
<1>8. a - q * b \in Int
    OBVIOUS
<1>9. PICK k \in Int : u % n = k * s
    BY <1>6, <1>7, <1>8
<1>10. (k * s + 0) % s = 0
    BY DivModUnique
<1> QED
    BY <1>1, <1>9, <1>10

(* The first run of a schedule with a calendar cadence: its day and its tick. *)
LEMMA FirstRun ==
    ASSUME NEW c \in Configs, c.cadence # "interval"
    PROVE  \E d \in Nat, x \in Ticks : /\ c.firstRunAt = UTC(At(d, x))
                                       /\ c.firstRunAt.at = At(d, x)
                                       /\ Day(c.firstRunAt) = d
                                       /\ Clock(c.firstRunAt) = x
<1>1. c.firstRunAt \in [at : Nat, zone : Int] /\ c.firstRunAt.zone = 0
      /\ c.firstRunAt.at % TicksPerSecond = 0
    BY ConfigsAssumption
<1>2. PICK u \in Nat : u = c.firstRunAt.at /\ c.firstRunAt = UTC(u)
    BY <1>1 DEF UTC
<1>3. PICK d \in Int, x \in Ticks : u = At(d, x)
    BY EveryInstant
<1>4. d \in Nat
    <2>1. At(0, 0) = 0 /\ 0 \in Ticks
        BY CalendarAssumption DEF At, Ticks
    <2>2. At(0, 0) <= At(d, x)
        BY <1>3, <2>1
    <2> QED BY <2>1, <2>2, AtOrder
<1>5. u % TicksPerDay = x /\ u + 0 = u
    BY <1>3, AtParts
<1>6. x % TicksPerSecond = 0
    BY <1>1, <1>2, <1>5, WholeSeconds
<1>7. Clock(c.firstRunAt) = x
    <2>1. (c.firstRunAt.at + c.firstRunAt.zone) % TicksPerDay = x
        BY <1>1, <1>2, <1>5
    <2> QED BY <1>6, <2>1 DEF Clock, Ticks
<1>8. Day(c.firstRunAt) = d /\ c.firstRunAt = UTC(At(d, x)) /\ c.firstRunAt.at = At(d, x)
    <2>1. c.firstRunAt = UTC(At(d, x)) /\ c.firstRunAt.at = At(d, x)
        BY <1>2, <1>3
    <2>2. Day(UTC(At(d, x))) = d
        BY TimesInUTC
    <2> QED BY <2>1, <2>2
<1> QED
    BY <1>4, <1>7, <1>8

-----------------------------------------------------------------------------
(* The grid of a recurrence. *)

(* OnTimetable and Occurrence of a schedule c. *)
On(c, at) ==
    LET first == c.firstRunAt.at
        day == Day(UTC(at))
        m == MonthOf(day)
        dayOfMonth == day - monthStart[m] + 1
    IN  /\ IF c.cadence = "interval" THEN (at - first) % c.seconds = 0
           ELSE (at - first) % TicksPerDay = 0
        /\ c.cadence = "weekly" => (day - Day(UTC(first))) % DaysPerWeek = 0
        /\ c.cadence = "monthly" =>
             \/ dayOfMonth = c.dayOfMonth
             \/ dayOfMonth < c.dayOfMonth /\ dayOfMonth = DaysIn(m)

Occurs(c, at) == at >= c.firstRunAt.at /\ On(c, at)

(* OffTimetable of a schedule c. *)
Off(c, at) ==
    \/ /\ c.cadence = "weekly"
       /\ c.catchUpPolicy = "skip_missed"
       /\ (at - c.firstRunAt.at) % TicksPerDay = 0
    \/ c.cadence = "monthly" /\ at = c.firstRunAt.at

(* The properties' operators are these of the schedule's row. *)
LEMMA OnConfig ==
    \A at : /\ OnTimetable(at) <=> On(config, at)
            /\ Occurrence(at) <=> Occurs(config, at)
            /\ OffTimetable(at) <=> Off(config, at)
    BY DEF OnTimetable, Occurrence, OffTimetable, DaysSince, On, Occurs, Off

(* The day of month m that a monthly schedule runs on. *)
SlotDay(c, m) ==
    monthStart[m] + (IF c.dayOfMonth < DaysIn(m) THEN c.dayOfMonth ELSE DaysIn(m)) - 1

(* A slot is a day of its month. *)
LEMMA SlotDays ==
    ASSUME NEW c \in Configs, c.cadence = "monthly", NEW m \in Nat
    PROVE  /\ SlotDay(c, m) \in Nat
           /\ monthStart[m] <= SlotDay(c, m)
           /\ SlotDay(c, m) < monthStart[m + 1]
           /\ MonthOf(SlotDay(c, m)) = m
<1>1. c.dayOfMonth \in Nat \ {0}
    BY ConfigsAssumption
<1>2. monthStart[m] \in Nat /\ DaysIn(m) \in Nat \ {0}
      /\ monthStart[m + 1] = monthStart[m] + DaysIn(m)
    BY MonthStarts
<1>3. /\ SlotDay(c, m) \in Nat
      /\ monthStart[m] <= SlotDay(c, m)
      /\ SlotDay(c, m) < monthStart[m + 1]
    BY <1>1, <1>2 DEF SlotDay
<1> QED
    BY <1>3, MonthOfDay

(* Slots of later months are later, and not in earlier months. *)
LEMMA SlotsInOrder ==
    ASSUME NEW c \in Configs, c.cadence = "monthly", NEW m \in Nat, NEW n \in Nat, m < n
    PROVE  /\ SlotDay(c, m) < SlotDay(c, n)
           /\ SlotDay(c, m) < monthStart[n]
           /\ monthStart[m + 1] <= SlotDay(c, n)
    BY SlotDays, MonthsInOrder, MonthStarts

(* The days the recurrence of a calendar cadence falls on. *)
RunsOn(c, day) ==
    /\ c.cadence = "weekly" => (day - Day(c.firstRunAt)) % DaysPerWeek = 0
    /\ c.cadence = "monthly" => \E m \in Nat : day = SlotDay(c, m)

(* What a monthly schedule asks of a day is to be the slot of its month. *)
LEMMA SlotOfItsMonth ==
    ASSUME NEW c \in Configs, c.cadence = "monthly", NEW d \in Nat
    PROVE  LET m == MonthOf(d)
               dayOfMonth == d - monthStart[m] + 1
           IN  (\/ dayOfMonth = c.dayOfMonth
                \/ dayOfMonth < c.dayOfMonth /\ dayOfMonth = DaysIn(m))
               <=> \E n \in Nat : d = SlotDay(c, n)
<1>1. PICK m \in Nat : m = MonthOf(d)
    BY MonthOfDay
<1>2. monthStart[m] <= d /\ d < monthStart[m + 1]
    BY <1>1, MonthOfDay
<1>3. monthStart[m] \in Nat /\ DaysIn(m) \in Nat \ {0}
      /\ monthStart[m + 1] = monthStart[m] + DaysIn(m)
    BY MonthStarts
<1>4. c.dayOfMonth \in Nat \ {0}
    BY ConfigsAssumption
<1> DEFINE dayOfMonth == d - monthStart[m] + 1
           Fits == \/ dayOfMonth = c.dayOfMonth
                   \/ dayOfMonth < c.dayOfMonth /\ dayOfMonth = DaysIn(m)
<1>5. Fits <=> d = SlotDay(c, m)
    BY <1>2, <1>3, <1>4 DEF SlotDay
<1>6. ASSUME NEW n \in Nat, d = SlotDay(c, n) PROVE n = m
    BY <1>1, <1>6, SlotDays
<1>7. Fits <=> \E n \in Nat : d = SlotDay(c, n)
    <2> HIDE DEF Fits
    <2> QED BY <1>5, <1>6
<1> QED
    BY <1>1, <1>7

(* The instants of a calendar cadence: the time of its first run, on its days. *)
LEMMA OnCalendar ==
    ASSUME NEW c \in Configs, c.cadence # "interval",
           NEW fd \in Nat, NEW fx \in Ticks, c.firstRunAt = UTC(At(fd, fx)),
           NEW d \in Int, NEW x \in Ticks, c.cadence = "monthly" => d \in Nat
    PROVE  On(c, At(d, x)) <=> x = fx /\ RunsOn(c, d)
<1>1. /\ Day(UTC(At(d, x))) = d /\ Day(UTC(At(fd, fx))) = fd
      /\ c.firstRunAt.at = At(fd, fx)
      /\ Day(UTC(c.firstRunAt.at)) = fd /\ Day(c.firstRunAt) = fd
    <2>1. Day(UTC(At(d, x))) = d
        BY TimesInUTC
    <2>2. Day(UTC(At(fd, fx))) = fd /\ UTC(At(fd, fx)).at = At(fd, fx)
        BY TimesInUTC
    <2> QED BY <2>1, <2>2
<1>2. (At(d, x) - At(fd, fx)) % TicksPerDay = 0 <=> x = fx
    <2> USE CalendarAssumption
    <2>1. CASE x >= fx
        <3>1. x - fx \in Ticks /\ d - fd \in Int
            BY <2>1 DEF Ticks
        <3>2. At(d, x) - At(fd, fx) = At(d - fd, x - fx)
            BY <2>1 DEF At, Ticks
        <3>3. At(d - fd, x - fx) % TicksPerDay = x - fx
            BY <3>1, AtParts
        <3> QED BY <3>2, <3>3 DEF Ticks
    <2>2. CASE x < fx
        <3>1. x - fx + TicksPerDay \in Ticks /\ d - fd - 1 \in Int
            BY <2>2 DEF Ticks
        <3>2. At(d, x) - At(fd, fx) = At(d - fd - 1, x - fx + TicksPerDay)
            BY <2>2 DEF At, Ticks
        <3>3. At(d - fd - 1, x - fx + TicksPerDay) % TicksPerDay = x - fx + TicksPerDay
            BY <3>1, AtParts
        <3> QED BY <2>2, <3>1, <3>2, <3>3 DEF Ticks
    <2> QED BY <2>1, <2>2 DEF Ticks
<1>3. CASE c.cadence = "monthly"
    <2>1. d \in Nat
        BY <1>3
    <2> QED BY <1>1, <1>2, <1>3, <2>1, SlotOfItsMonth DEF On, RunsOn
<1>4. CASE c.cadence # "monthly"
    BY <1>1, <1>2, <1>4 DEF On, RunsOn
<1> QED
    BY <1>3, <1>4

-----------------------------------------------------------------------------
(* The next and the last occurrence. *)

(* at is the first occurrence of c after the instant from; an instant of its  *)
(* recurrence with no occurrence from there up to from.                       *)
IsNext(c, from, at) ==
    /\ Occurs(c, at) /\ at > from
    /\ \A u \in Int : from < u /\ u < at => ~Occurs(c, u)

IsLast(c, from, at) ==
    /\ On(c, at) /\ at <= from
    /\ \A u \in Int : at < u /\ u <= from => ~Occurs(c, u)

(* A schedule starts on its own recurrence, or on a day that is not the one  *)
(* of the month it runs on.                                                  *)
LEMMA FirstIsOn ==
    ASSUME NEW c \in Configs
    PROVE  /\ c.firstRunAt.at \in Nat
           /\ c.cadence # "monthly" => Occurs(c, c.firstRunAt.at)
           /\ On(c, c.firstRunAt.at) \/ Off(c, c.firstRunAt.at)
<1>1. c.firstRunAt.at \in Nat
    BY ConfigsAssumption
<1>2. c.cadence # "monthly" => On(c, c.firstRunAt.at)
    <2>1. CASE c.cadence = "interval"
        <3>1. PICK s \in Nat \ {0} : s = c.seconds
            BY <2>1, ConfigsAssumption
        <3>2. (0 * s + 0) % s = 0
            BY DivModUnique
        <3>3. (c.firstRunAt.at - c.firstRunAt.at) % c.seconds = 0
            BY <1>1, <3>1, <3>2
        <3> QED BY <2>1, <3>3 DEF On
    <2>2. CASE c.cadence # "interval" /\ c.cadence # "monthly"
        <3>1. PICK fd \in Nat, fx \in Ticks : /\ c.firstRunAt = UTC(At(fd, fx))
                                             /\ c.firstRunAt.at = At(fd, fx)
                                             /\ Day(c.firstRunAt) = fd
                                             /\ Clock(c.firstRunAt) = fx
            BY <2>2, FirstRun
        <3>2. c.cadence = "weekly" => (fd - Day(c.firstRunAt)) % DaysPerWeek = 0
            BY <3>1 DEF DaysPerWeek
        <3>3. RunsOn(c, fd)
            BY <2>2, <3>2 DEF RunsOn
        <3> QED BY <2>2, <3>1, <3>3, OnCalendar
    <2> QED BY <2>1, <2>2
<1> QED
    BY <1>1, <1>2 DEF Occurs, Off

(* An instant in UTC and the date a proposer in some zone reads for it. *)
LEMMA DateRead ==
    ASSUME NEW from, from.at \in Int, from.zone \in (1 - TicksPerDay)..(TicksPerDay - 1)
    PROVE  \E d \in Int, x \in Ticks :
             /\ Day(from) = d
             /\ At(d - 1, x) < from.at /\ from.at < At(d + 1, x)
             /\ from.zone = 0 => from.at = At(d, x)
             /\ from.at + from.zone >= 0 => d \in Nat
<1>1. PICK u \in Int : u = from.at + from.zone
    OBVIOUS
<1>2. PICK d \in Int, x \in Ticks : u = At(d, x)
    BY EveryInstant
<1>3. Day(from) = d
    BY <1>1, <1>2, AtParts DEF Day
<1>4. At(d - 1, x) = u - TicksPerDay /\ At(d + 1, x) = u + TicksPerDay
    BY <1>2, CalendarAssumption DEF At, Ticks
<1>5. At(d - 1, x) < from.at /\ from.at < At(d + 1, x)
    <2>1. PICK n \in Nat \ {0}, z \in Int : n = TicksPerDay /\ z = from.zone
        BY CalendarAssumption
    <2>2. 1 - n <= z /\ z <= n - 1 /\ u = from.at + z
        BY <1>1, <2>1
    <2> QED BY <1>4, <2>1, <2>2
<1>6. u >= 0 => d \in Nat
    <2>1. At(0, 0) = 0 /\ 0 \in Ticks
        BY CalendarAssumption DEF At, Ticks
    <2> QED BY <1>2, <2>1, AtOrder
<1> QED
    BY <1>1, <1>2, <1>3, <1>5, <1>6

(* An occurrence of a calendar cadence: its day, at the time of the first run. *)
LEMMA OccursOnDay ==
    ASSUME NEW c \in Configs, c.cadence # "interval",
           NEW fd \in Nat, NEW fx \in Ticks, c.firstRunAt = UTC(At(fd, fx)),
           NEW u \in Int, Occurs(c, u)
    PROVE  \E e \in Nat : u = At(e, fx) /\ RunsOn(c, e) /\ fd <= e
<1>1. PICK e \in Int, y \in Ticks : u = At(e, y)
    BY EveryInstant
<1>2. At(fd, fx) <= At(e, y)
    <2>1. c.firstRunAt.at = At(fd, fx)
        BY DEF UTC
    <2> QED BY <1>1, <2>1 DEF Occurs
<1>3. fd <= e /\ e \in Nat
    BY <1>2, AtOrder
<1>4. y = fx /\ RunsOn(c, e)
    BY <1>1, <1>3, OnCalendar DEF Occurs
<1> QED
    BY <1>1, <1>3, <1>4

(* The next occurrence of a calendar cadence is on the next day it runs on. *)
LEMMA NextByDay ==
    ASSUME NEW c \in Configs, c.cadence # "interval",
           NEW fd \in Nat, NEW fx \in Ticks, c.firstRunAt = UTC(At(fd, fx)),
           NEW day \in Int, NEW x \in Ticks, At(fd, fx) <= At(day, x),
           NEW d \in Int, RunsOn(c, d), d > day \/ (d = day /\ fx > x),
           \A e \in Nat : RunsOn(c, e) /\ (e > day \/ (e = day /\ fx > x)) => d <= e
    PROVE  IsNext(c, At(day, x), At(d, fx))
<1>1. At(day, x) < At(d, fx) /\ At(fd, fx) <= At(d, fx) /\ d \in Nat
    BY AtOrder DEF Ticks
<1>2. Occurs(c, At(d, fx))
    <2>1. c.firstRunAt.at = At(fd, fx)
        BY DEF UTC
    <2>2. c.cadence = "monthly" => d \in Nat
        BY <1>1
    <2>3. On(c, At(d, fx)) <=> fx = fx /\ RunsOn(c, d)
        BY <2>2, OnCalendar
    <2> QED BY <1>1, <2>1, <2>3 DEF Occurs
<1>3. ASSUME NEW u \in Int, At(day, x) < u, u < At(d, fx), Occurs(c, u) PROVE FALSE
    <2>1. PICK e \in Nat : u = At(e, fx) /\ RunsOn(c, e)
        BY <1>3, OccursOnDay
    <2>2. ~(At(e, fx) <= At(day, x)) /\ ~(At(d, fx) <= At(e, fx))
        BY <1>3, <2>1, AtOrder
    <2>3. (e > day \/ (e = day /\ fx > x)) /\ ~(d <= e)
        BY <2>2, AtOrder DEF Ticks
    <2> QED BY <2>1, <2>3
<1> QED
    BY <1>1, <1>2, <1>3 DEF IsNext

(* The last one is on the last day it runs on. *)
LEMMA LastByDay ==
    ASSUME NEW c \in Configs, c.cadence # "interval",
           NEW fd \in Nat, NEW fx \in Ticks, c.firstRunAt = UTC(At(fd, fx)),
           NEW day \in Int, NEW x \in Ticks,
           NEW d \in Int, RunsOn(c, d), c.cadence = "monthly" => d \in Nat,
           d < day \/ (d = day /\ fx <= x),
           \A e \in Nat : RunsOn(c, e) /\ (e < day \/ (e = day /\ fx <= x)) => e <= d
    PROVE  IsLast(c, At(day, x), At(d, fx))
<1>3. At(d, fx) <= At(day, x)
    BY AtOrder DEF Ticks
<1>4. On(c, At(d, fx))
    BY OnCalendar
<1>5. ASSUME NEW u \in Int, At(d, fx) < u, u <= At(day, x), Occurs(c, u) PROVE FALSE
    <2>1. PICK e \in Nat : u = At(e, fx) /\ RunsOn(c, e)
        BY <1>5, OccursOnDay
    <2>2. ~(At(e, fx) <= At(d, fx)) /\ At(e, fx) <= At(day, x)
        BY <1>5, <2>1, AtOrder
    <2>3. (e < day \/ (e = day /\ fx <= x)) /\ ~(e <= d)
        BY <2>2, AtOrder DEF Ticks
    <2> QED BY <2>1, <2>3
<1> QED
    BY <1>3, <1>4, <1>5 DEF IsLast

-----------------------------------------------------------------------------
(* Daily and weekly schedules. *)

(* A calendar schedule c, and a proposer's reading from of an instant from *)
(* its first run on: the days and ticks of the two.                        *)
Reads(c, from, fd, fx, day, x) ==
    /\ c \in Configs /\ c.cadence # "interval"
    /\ fd \in Nat /\ fx \in Ticks /\ day \in Nat /\ x \in Ticks
    /\ c.firstRunAt = UTC(At(fd, fx)) /\ c.firstRunAt.at = At(fd, fx)
    /\ Day(c.firstRunAt) = fd /\ Clock(c.firstRunAt) = fx
    /\ from.at \in Int /\ Day(from) = day /\ At(fd, fx) <= from.at
    /\ At(day - 1, x) < from.at /\ from.at < At(day + 1, x)
    /\ from.zone = 0 => from.at = At(day, x)

(* r is a run of c on one of its days; the next one after from, the last   *)
(* one up to it, when from is in UTC.                                      *)
NextRun(c, from, fx, r) ==
    \E d \in Int : /\ r = UTC(At(d, fx)) /\ RunsOn(c, d)
                   /\ c.cadence = "monthly" => d \in Nat
                   /\ from.zone = 0 => IsNext(c, from.at, At(d, fx))

LastRun(c, from, fx, r) ==
    \E d \in Int : /\ r = UTC(At(d, fx)) /\ RunsOn(c, d)
                   /\ c.cadence = "monthly" => d \in Nat
                   /\ from.zone = 0 => IsLast(c, from.at, At(d, fx))

(* What time.Date makes of a day and the clock of the first run. *)
LEMMA DateMade ==
    ASSUME NEW c, NEW from, NEW fd, NEW fx, NEW day, NEW x, Reads(c, from, fd, fx, day, x),
           NEW e \in Int
    PROVE  /\ Date(e, Clock(c.firstRunAt)) = UTC(At(e, fx))
           /\ UTC(At(e, fx)).at = At(e, fx)
           /\ At(e, fx) \in Int
           /\ Day(from) = day /\ day \in Nat
           /\ ~(from.at < c.firstRunAt.at)
<1>1. fx \in Ticks /\ Clock(c.firstRunAt) = fx /\ Day(from) = day /\ day \in Nat
    BY DEF Reads
<1>2. c.firstRunAt.at = At(fd, fx) /\ At(fd, fx) \in Int /\ from.at \in Int
      /\ At(fd, fx) <= from.at
    BY AtOrder DEF Reads
<1>3. Date(e, fx) = UTC(At(e, fx)) /\ UTC(At(e, fx)).at = At(e, fx) /\ At(e, fx) \in Int
    BY <1>1, TimesInUTC, AtOrder
<1> QED
    BY <1>1, <1>2, <1>3

(* AddDate of a number of days. *)
LEMMA DaysAdded ==
    ASSUME NEW x \in Ticks, NEW e \in Int, NEW n \in Int
    PROVE  AddDays(UTC(At(e, x)), n) = UTC(At(e + n, x))
    BY TimesInUTC

(* computeDailyAfter finds the next run. *)
LEMMA DailyAfter ==
    ASSUME NEW c, NEW from, NEW fd, NEW fx, NEW day, NEW x,
           Reads(c, from, fd, fx, day, x), c.cadence = "daily"
    PROVE  NextRun(c, from, fx, computeDailyAfter(c.firstRunAt, from))
<1> DEFINE d == IF At(day, fx) <= from.at THEN day + 1 ELSE day
<1>1. d \in Nat /\ RunsOn(c, d)
    BY DEF Reads, RunsOn
<1>2. Date(Day(from), Clock(c.firstRunAt)) = UTC(At(day, fx))
      /\ UTC(At(day, fx)).at = At(day, fx)
      /\ AddDays(UTC(At(day, fx)), 1) = UTC(At(day + 1, fx))
    <2>1. Day(from) = day /\ day \in Int /\ 1 \in Int
        BY DEF Reads
    <2>2. AddDays(UTC(At(day, fx)), 1) = UTC(At(day + 1, fx))
        BY <2>1, DaysAdded DEF Reads
    <2>3. Date(day, Clock(c.firstRunAt)) = UTC(At(day, fx))
          /\ UTC(At(day, fx)).at = At(day, fx)
        BY <2>1, DateMade
    <2> QED BY <2>1, <2>2, <2>3
<1>3. computeDailyAfter(c.firstRunAt, from) = UTC(At(d, fx))
    <2>1. ~(from.at < c.firstRunAt.at)
        BY DateMade DEF Reads
    <2> QED BY <1>2, <2>1 DEF computeDailyAfter
<1>4. ASSUME from.zone = 0 PROVE IsNext(c, from.at, At(d, fx))
    <2>1. from.at = At(day, x) /\ (At(day, fx) <= from.at <=> fx <= x)
        BY <1>4, AtOrder DEF Reads
    <2>2. d > day \/ (d = day /\ fx > x)
        BY <2>1 DEF Reads, Ticks
    <2>3. \A e \in Nat : e > day \/ (e = day /\ fx > x) => d <= e
        BY <2>1 DEF Reads, Ticks
    <2> HIDE DEF d
    <2> QED BY <1>1, <2>1, <2>2, <2>3, NextByDay DEF Reads
<1> HIDE DEF d
<1> QED
    BY <1>1, <1>3, <1>4 DEF NextRun

(* computeDailyLatestOnOrBefore finds the last one. *)
LEMMA DailyLatest ==
    ASSUME NEW c, NEW from, NEW fd, NEW fx, NEW day, NEW x, NEW none,
           Reads(c, from, fd, fx, day, x), c.cadence = "daily"
    PROVE  LastRun(c, from, fx, computeDailyLatestOnOrBefore(c.firstRunAt, from, none))
<1> DEFINE d == IF At(day, fx) > from.at THEN day - 1 ELSE day
<1>1. d \in Int /\ RunsOn(c, d)
    BY DEF Reads, RunsOn
<1>2. Date(Day(from), Clock(c.firstRunAt)) = UTC(At(day, fx))
      /\ UTC(At(day, fx)).at = At(day, fx)
      /\ AddDays(UTC(At(day, fx)), -1) = UTC(At(day - 1, fx))
    <2>1. Day(from) = day /\ day \in Int /\ -1 \in Int /\ day + (-1) = day - 1
        BY DEF Reads
    <2>2. AddDays(UTC(At(day, fx)), -1) = UTC(At(day + (-1), fx))
        BY <2>1, DaysAdded DEF Reads
    <2>3. Date(day, Clock(c.firstRunAt)) = UTC(At(day, fx))
          /\ UTC(At(day, fx)).at = At(day, fx)
        BY <2>1, DateMade
    <2> QED BY <2>1, <2>2, <2>3
<1>3. computeDailyLatestOnOrBefore(c.firstRunAt, from, none) = UTC(At(d, fx))
    <2>1. ~(from.at < c.firstRunAt.at)
        BY DateMade DEF Reads
    <2> QED BY <1>2, <2>1 DEF computeDailyLatestOnOrBefore
<1>4. ASSUME from.zone = 0 PROVE IsLast(c, from.at, At(d, fx))
    <2>1. from.at = At(day, x) /\ (At(day, fx) <= from.at <=> fx <= x) /\ At(day, fx) \in Int
        BY <1>4, AtOrder DEF Reads
    <2>2. d < day \/ (d = day /\ fx <= x)
        BY <2>1 DEF Reads, Ticks
    <2>3. \A e \in Nat : RunsOn(c, e) /\ (e < day \/ (e = day /\ fx <= x)) => e <= d
        BY <2>1 DEF Reads, Ticks
    <2> HIDE DEF d
    <2>4. /\ c \in Configs /\ c.cadence # "monthly" /\ c.cadence # "interval"
          /\ day \in Int /\ fd \in Nat /\ fx \in Ticks /\ x \in Ticks
          /\ c.firstRunAt = UTC(At(fd, fx))
        BY DEF Reads
    <2>5. IsLast(c, At(day, x), At(d, fx))
        BY <1>1, <2>2, <2>3, <2>4, LastByDay
    <2> QED BY <2>1, <2>5
<1> HIDE DEF d
<1> QED
    BY <1>1, <1>3, <1>4 DEF LastRun

(* computeWeeklyAfter finds the next run when it is given one. *)
LEMMA WeeklyAfter ==
    ASSUME NEW c, NEW from, NEW fd, NEW fx, NEW day, NEW x,
           Reads(c, from, fd, fx, day, x), c.cadence = "weekly",
           from.zone = 0, On(c, from.at)
    PROVE  NextRun(c, from, fx, computeWeeklyAfter(c.firstRunAt, from))
<1>1. from.at = At(day, x) /\ x = fx /\ RunsOn(c, day)
    BY OnCalendar DEF Reads
<1>2. Date(Day(from), Clock(c.firstRunAt)) = UTC(At(day, fx))
      /\ UTC(At(day, fx)).at = At(day, fx)
      /\ AddDays(UTC(At(day, fx)), DaysPerWeek) = UTC(At(day + DaysPerWeek, fx))
    <2>1. Day(from) = day /\ day \in Int /\ DaysPerWeek \in Int
        BY DEF Reads, DaysPerWeek
    <2>2. AddDays(UTC(At(day, fx)), DaysPerWeek) = UTC(At(day + DaysPerWeek, fx))
        BY <2>1, DaysAdded DEF Reads
    <2>3. Date(day, Clock(c.firstRunAt)) = UTC(At(day, fx))
          /\ UTC(At(day, fx)).at = At(day, fx)
        BY <2>1, DateMade
    <2> QED BY <2>1, <2>2, <2>3
<1>3. computeWeeklyAfter(c.firstRunAt, from) = UTC(At(day + DaysPerWeek, fx))
    <2>1. ~(from.at < c.firstRunAt.at) /\ At(day, fx) <= from.at
        BY <1>1, AtOrder DEF Reads
    <2> QED BY <1>2, <2>1 DEF computeWeeklyAfter
<1>4. day + DaysPerWeek \in Nat /\ RunsOn(c, day + DaysPerWeek)
    BY <1>1 DEF Reads, RunsOn, DaysPerWeek
<1>5. \A e \in Nat : RunsOn(c, e) /\ e > day => day + DaysPerWeek <= e
    BY <1>1 DEF Reads, RunsOn, DaysPerWeek
<1>6. IsNext(c, At(day, x), At(day + DaysPerWeek, fx))
    <2>1. day + DaysPerWeek > day
        BY DEF Reads, DaysPerWeek
    <2>2. ~(fx > x)
        BY <1>1 DEF Reads, Ticks
    <2> QED BY <1>1, <1>4, <1>5, <2>1, <2>2, NextByDay DEF Reads
<1> QED
    BY <1>1, <1>3, <1>4, <1>6 DEF NextRun, Reads

(* Given an instant on another day of the week it keeps that day, within a *)
(* week, at the time of day of the first run.                              *)
WithinWeek(from, at) ==
    /\ at > from.at /\ at <= from.at + DaysPerWeek * TicksPerDay
    /\ Weekday(UTC(at)) = Weekday(from)

LEMMA WeeklyAfterAnyDay ==
    ASSUME NEW c, NEW from, NEW fd, NEW fx, NEW day, NEW x,
           Reads(c, from, fd, fx, day, x), c.cadence = "weekly"
    PROVE  \E d \in Int : /\ computeWeeklyAfter(c.firstRunAt, from) = UTC(At(d, fx))
                          /\ (At(d, fx) - c.firstRunAt.at) % TicksPerDay = 0
                          /\ from.zone = 0 => WithinWeek(from, At(d, fx))
<1> DEFINE d == IF At(day, fx) <= from.at THEN day + DaysPerWeek ELSE day
<1>1. d \in Int /\ day \in Int /\ DaysPerWeek = 7
    BY DEF Reads, DaysPerWeek
<1>2. computeWeeklyAfter(c.firstRunAt, from) = UTC(At(d, fx))
    <2>1. AddDays(UTC(At(day, fx)), DaysPerWeek) = UTC(At(day + DaysPerWeek, fx))
        BY <1>1, DaysAdded DEF Reads
    <2>2. Date(day, Clock(c.firstRunAt)) = UTC(At(day, fx))
          /\ UTC(At(day, fx)).at = At(day, fx) /\ Day(from) = day
          /\ ~(from.at < c.firstRunAt.at)
        BY <1>1, DateMade
    <2> QED BY <2>1, <2>2 DEF computeWeeklyAfter
<1>3. (At(d, fx) - c.firstRunAt.at) % TicksPerDay = 0
    <2> HIDE DEF d
    <2>1. PICK n \in Nat \ {0} : n = TicksPerDay
        BY CalendarAssumption
    <2>2. fd \in Int /\ fx \in Int /\ d - fd \in Int
        BY <1>1, <2>1 DEF Ticks, Reads
    <2>3. (d * n + fx) - (fd * n + fx) = (d - fd) * n + 0
        BY <1>1, <2>2
    <2>4. ((d - fd) * n + 0) % n = 0
        BY <2>2, DivModUnique
    <2>5. c.firstRunAt.at = At(fd, fx)
        BY DEF Reads
    <2> QED BY <2>1, <2>3, <2>4, <2>5 DEF At
<1>4. ASSUME from.zone = 0 PROVE WithinWeek(from, At(d, fx))
    <2>1. from.at = At(day, x) /\ (At(day, fx) <= from.at <=> fx <= x)
        BY <1>1, <1>4, AtOrder DEF Reads
    <2>2. At(day + 7, x) = from.at + DaysPerWeek * TicksPerDay
        BY <1>1, <2>1, CalendarAssumption DEF At, Ticks, Reads
    <2>3. d > day \/ (d = day /\ x < fx)
        BY <1>1, <2>1, CalendarAssumption DEF Reads, Ticks
    <2>4. d < day + 7 \/ (d = day + 7 /\ fx <= x)
        BY <1>1, <2>1
    <2>5. d % 7 = day % 7
        BY <1>1
    <2> HIDE DEF d
    <2>6. ~(At(d, fx) <= At(day, x)) /\ At(d, fx) <= At(day + 7, x)
          /\ At(d, fx) \in Int /\ At(day, x) \in Int
        <3>1. ~(d < day \/ (d = day /\ fx <= x))
            BY <1>1, <2>3, CalendarAssumption DEF Reads, Ticks
        <3> QED BY <1>1, <2>4, <3>1, AtOrder DEF Reads
    <2>7. Weekday(UTC(At(d, fx))) = Weekday(from)
        <3>1. Day(UTC(At(d, fx))) = d /\ Day(from) = day
            BY <1>1, TimesInUTC DEF Reads
        <3> QED BY <1>1, <2>5, <3>1 DEF Weekday
    <2> QED BY <2>1, <2>2, <2>6, <2>7 DEF WithinWeek
<1> HIDE DEF d
<1> QED
    BY <1>1, <1>2, <1>3, <1>4

(* computeWeeklyLatestOnOrBefore finds the last run, on any day of the     *)
(* week.                                                                   *)
LEMMA WeeklyLatest ==
    ASSUME NEW c, NEW from, NEW fd, NEW fx, NEW day, NEW x, NEW none,
           Reads(c, from, fd, fx, day, x), c.cadence = "weekly"
    PROVE  LastRun(c, from, fx, computeWeeklyLatestOnOrBefore(c.firstRunAt, from, none))
<1> DEFINE back == ((day % 7) - (fd % 7) + 7) % 7
           d == IF At(day - back, fx) > from.at THEN day - back - 7 ELSE day - back
<1>1. back \in 0..6 /\ (day - back - fd) % 7 = 0
    BY DEF Reads
<1>2. (Weekday(from) - Weekday(c.firstRunAt) + DaysPerWeek) % DaysPerWeek = back
    BY DEF Reads, Weekday, DaysPerWeek
<1> HIDE DEF back
<1>3. Date(Day(from) - back, Clock(c.firstRunAt)) = UTC(At(day - back, fx))
      /\ UTC(At(day - back, fx)).at = At(day - back, fx)
      /\ AddDays(UTC(At(day - back, fx)), -DaysPerWeek) = UTC(At(day - back - 7, fx))
    <2>1. PICK e \in Int, n \in Int :
            e = day - back /\ n = -DaysPerWeek /\ e + n = day - back - 7
        BY <1>1 DEF Reads, DaysPerWeek
    <2>2. Date(e, Clock(c.firstRunAt)) = UTC(At(e, fx)) /\ UTC(At(e, fx)).at = At(e, fx)
        BY DateMade
    <2>3. AddDays(UTC(At(e, fx)), n) = UTC(At(e + n, fx))
        BY DaysAdded DEF Reads
    <2> QED BY <2>1, <2>2, <2>3 DEF Reads
<1>4. computeWeeklyLatestOnOrBefore(c.firstRunAt, from, none) = UTC(At(d, fx))
    <2>1. ~(from.at < c.firstRunAt.at)
        BY DateMade DEF Reads
    <2> QED BY <1>2, <1>3, <2>1 DEF computeWeeklyLatestOnOrBefore
<1>5. d \in Int /\ RunsOn(c, d)
    BY <1>1 DEF Reads, RunsOn, DaysPerWeek
<1>6. ASSUME from.zone = 0 PROVE IsLast(c, from.at, At(d, fx))
    <2>1. from.at = At(day, x) /\ At(day - back, fx) \in Int
          /\ (At(day - back, fx) <= from.at <=> (back > 0 \/ fx <= x))
        <3>1. day - back \in Int /\ (day - back < day <=> back > 0)
              /\ (day - back = day <=> back = 0)
            BY <1>1 DEF Reads
        <3> QED BY <1>1, <1>6, <3>1, AtOrder DEF Reads
    <2>2. d < day \/ (d = day /\ fx <= x)
        BY <1>1, <2>1 DEF Reads, Ticks
    <2>3. \A e \in Nat : RunsOn(c, e) /\ (e < day \/ (e = day /\ fx <= x)) => e <= d
        BY <1>1, <2>1 DEF Reads, Ticks, RunsOn, DaysPerWeek
    <2> HIDE DEF d
    <2> QED BY <1>5, <2>1, <2>2, <2>3, LastByDay DEF Reads
<1> HIDE DEF d
<1> QED
    BY <1>4, <1>5, <1>6 DEF LastRun, Reads

-----------------------------------------------------------------------------
(* Monthly schedules. *)

(* The slot of a month is a run of the schedule. *)
LEMMA SlotMade ==
    ASSUME NEW c, NEW from, NEW fd, NEW fx, NEW day, NEW x,
           Reads(c, from, fd, fx, day, x), c.cadence = "monthly", NEW m \in Nat
    PROVE  /\ SlotDay(c, m) \in Nat
           /\ MonthSlot(c.firstRunAt, c.dayOfMonth, m) = UTC(At(SlotDay(c, m), fx))
           /\ MonthSlot(c.firstRunAt, c.dayOfMonth, m).at = At(SlotDay(c, m), fx)
           /\ RunsOn(c, SlotDay(c, m))
<1>1. SlotDay(c, m) \in Nat
    BY SlotDays DEF Reads
<1>2. MonthSlot(c.firstRunAt, c.dayOfMonth, m) = Date(SlotDay(c, m), Clock(c.firstRunAt))
    BY DEF MonthSlot, SlotDay
<1>3. MonthSlot(c.firstRunAt, c.dayOfMonth, m) = UTC(At(SlotDay(c, m), fx))
      /\ UTC(At(SlotDay(c, m), fx)).at = At(SlotDay(c, m), fx)
    BY <1>1, <1>2, DateMade
<1>4. RunsOn(c, SlotDay(c, m))
    BY <1>1 DEF RunsOn
<1> QED
    BY <1>1, <1>3, <1>4

(* computeMonthlyAfter finds the next run within the months it searches. *)
LEMMA MonthlyAfter ==
    ASSUME NEW c, NEW from, NEW fd, NEW fx, NEW day, NEW x,
           Reads(c, from, fd, fx, day, x), c.cadence = "monthly"
    PROVE  NextRun(c, from, fx, computeMonthlyAfter(c.firstRunAt, c.dayOfMonth, from))
<1>1. PICK m \in Nat : m = MonthOf(day) /\ monthStart[m] <= day /\ day < monthStart[m + 1]
    BY MonthOfDay DEF Reads
<1> DEFINE D(i) == SlotDay(c, m + i)
           slot(i) == MonthSlot(c.firstRunAt, c.dayOfMonth, m + i)
           First(i) == /\ slot(i).at > from.at
                       /\ \A j \in 0..(i - 1) : slot(j).at <= from.at
           i0 == CHOOSE i \in 0..(MonthsSearched - 1) : First(i)
<1>2. \A i \in Nat : D(i) \in Nat /\ slot(i) = UTC(At(D(i), fx)) /\ slot(i).at = At(D(i), fx)
                     /\ RunsOn(c, D(i))
    <2> TAKE i \in Nat
    <2>1. m + i \in Nat
        OBVIOUS
    <2> QED BY <2>1, SlotMade
<1>3. \A i, j \in Nat : i < j => D(i) < D(j)
    <2> TAKE i, j \in Nat
    <2>1. m + i \in Nat /\ m + j \in Nat /\ (i < j => m + i < m + j)
        OBVIOUS
    <2> QED BY <2>1, SlotsInOrder DEF Reads
<1>4. D(1) >= day + 1
    <2>1. m + 1 \in Nat
        OBVIOUS
    <2>2. monthStart[m + 1] <= SlotDay(c, m + 1) /\ SlotDay(c, m + 1) \in Nat
          /\ monthStart[m + 1] \in Nat
        BY <2>1, SlotDays, MonthStarts DEF Reads
    <2> QED BY <1>1, <2>2 DEF Reads
<1> HIDE DEF D, slot
<1>5. slot(2).at > from.at
    <2>1. D(2) > day + 1 /\ D(2) \in Nat
        BY <1>2, <1>3, <1>4 DEF Reads
    <2>2. At(day + 1, x) <= At(D(2), fx) /\ At(D(2), fx) \in Int /\ At(day + 1, x) \in Int
        BY <2>1, AtOrder DEF Reads
    <2>3. slot(2).at = At(D(2), fx)
        BY <1>2
    <2> QED BY <2>2, <2>3 DEF Reads
<1>6. \A i \in Nat : slot(i).at \in Int /\ from.at \in Int
    BY <1>2, AtOrder DEF Reads
<1>7. \E i \in 0..(MonthsSearched - 1) : First(i)
    <2>1. CASE slot(0).at > from.at
        <3>1. First(0) /\ 0 \in 0..(MonthsSearched - 1)
            BY <2>1 DEF MonthsSearched
        <3> QED BY <3>1
    <2>2. CASE slot(0).at <= from.at /\ slot(1).at > from.at
        <3>1. First(1) /\ 1 \in 0..(MonthsSearched - 1)
            BY <2>2 DEF MonthsSearched
        <3> QED BY <3>1
    <2>3. CASE slot(0).at <= from.at /\ slot(1).at <= from.at
        <3>1. First(2) /\ 2 \in 0..(MonthsSearched - 1)
            BY <1>5, <2>3 DEF MonthsSearched
        <3> QED BY <3>1
    <2> QED BY <1>6, <2>1, <2>2, <2>3
<1>8. i0 \in 0..(MonthsSearched - 1) /\ First(i0)
    BY <1>7
<1>9. PICK i \in Nat : i = i0 /\ First(i)
    BY <1>8
<1>10. computeMonthlyAfter(c.firstRunAt, c.dayOfMonth, from) = slot(i)
    <2>1. ~(from.at < c.firstRunAt.at) /\ Day(from) = day
        BY DateMade DEF Reads
    <2> QED BY <1>1, <1>9, <2>1 DEF computeMonthlyAfter, slot
<1> HIDE DEF i0
<1>11. ASSUME from.zone = 0 PROVE IsNext(c, from.at, At(D(i), fx))
    <2>1. from.at = At(day, x)
        BY <1>11 DEF Reads
    <2>2. D(i) > day \/ (D(i) = day /\ fx > x)
        <3>1. ~(At(D(i), fx) <= At(day, x))
            BY <1>2, <1>6, <1>9, <2>1
        <3>2. D(i) \in Int /\ day \in Int /\ fx \in Ticks /\ x \in Ticks
            BY <1>2 DEF Reads
        <3>3. ~(D(i) < day \/ (D(i) = day /\ fx <= x))
            BY <3>1, <3>2, AtOrder
        <3>4. fx \in Int /\ x \in Int
            BY <3>2, CalendarAssumption DEF Ticks
        <3> HIDE DEF D
        <3> QED BY <3>2, <3>3, <3>4
    <2>3. ASSUME NEW e \in Nat, RunsOn(c, e), e > day \/ (e = day /\ fx > x)
          PROVE  D(i) <= e
        <3>1. PICK n \in Nat : e = SlotDay(c, n)
            BY <2>3 DEF RunsOn
        <3>2. n >= m
            <4>1. n < m => SlotDay(c, n) < monthStart[m]
                BY SlotsInOrder DEF Reads
            <4>2. monthStart[m] \in Nat
                BY MonthStarts
            <4> QED BY <1>1, <2>3, <3>1, <4>1, <4>2 DEF Reads
        <3>3. PICK j \in Nat : j = n - m /\ m + j = n
            BY <3>2
        <3>4. e = D(j)
            BY <3>1, <3>3 DEF D
        <3>5. ~(j < i)
            <4>1. SUFFICES ASSUME j < i PROVE FALSE
                OBVIOUS
            <4>2. slot(j).at <= from.at
                BY <1>9, <4>1
            <4>3. At(D(j), fx) <= At(day, x)
                BY <1>2, <2>1, <4>2
            <4>4. D(j) \in Int /\ day \in Int /\ fx \in Ticks /\ x \in Ticks
                BY <2>3, <3>4 DEF Reads
            <4>5. D(j) < day \/ (D(j) = day /\ fx <= x)
                BY <4>3, <4>4, AtOrder
            <4>6. fx \in Int /\ x \in Int
                BY <4>4, CalendarAssumption DEF Ticks
            <4> HIDE DEF D
            <4> QED BY <2>3, <3>4, <4>4, <4>5, <4>6
        <3>6. D(i) \in Nat /\ D(j) \in Nat /\ (i < j => D(i) < D(j))
            BY <1>2, <1>3
        <3> QED BY <3>4, <3>5, <3>6
    <2>4. D(i) \in Int /\ RunsOn(c, D(i)) /\ At(fd, fx) <= At(day, x)
        BY <1>2, <2>1 DEF Reads
    <2> QED BY <2>1, <2>2, <2>3, <2>4, NextByDay DEF Reads
<1> QED
    BY <1>2, <1>10, <1>11 DEF NextRun

(* computeMonthlyLatestOnOrBefore finds the last one. *)
LEMMA MonthlyLatest ==
    ASSUME NEW c, NEW from, NEW fd, NEW fx, NEW day, NEW x, NEW none,
           Reads(c, from, fd, fx, day, x), c.cadence = "monthly"
    PROVE  LastRun(c, from, fx,
                   computeMonthlyLatestOnOrBefore(c.firstRunAt, c.dayOfMonth, from, none))
<1>1. PICK m \in Nat : m = MonthOf(day) /\ monthStart[m] <= day /\ day < monthStart[m + 1]
    BY MonthOfDay DEF Reads
<1>2. PICK m0 \in Nat : m0 > 0 /\ monthStart[m0] <= fd /\ monthStart[m0] \in Nat
    BY MonthOfDay, MonthStarts, ConfigsAssumption DEF Reads
<1> DEFINE D(i) == SlotDay(c, m - i)
           slot(i) == MonthSlot(c.firstRunAt, c.dayOfMonth, m - i)
           Last(i) == /\ slot(i).at <= from.at
                      /\ \A j \in 0..(i - 1) : slot(j).at > from.at
           i0 == CHOOSE i \in 0..(MonthsSearched - 1) : Last(i)
<1>3. \A i \in 0..m : D(i) \in Nat /\ slot(i) = UTC(At(D(i), fx)) /\ slot(i).at = At(D(i), fx)
                      /\ RunsOn(c, D(i)) /\ slot(i).at \in Int
    <2> TAKE i \in 0..m
    <2>1. m - i \in Nat
        OBVIOUS
    <2>2. SlotDay(c, m - i) \in Nat
        BY <2>1, SlotMade
    <2> QED BY <2>1, <2>2, SlotMade, AtOrder DEF Reads
<1>4. \A i, j \in 0..m : i < j => D(j) < D(i)
    <2> TAKE i, j \in 0..m
    <2>1. m - i \in Nat /\ m - j \in Nat /\ (i < j => m - j < m - i)
        OBVIOUS
    <2> QED BY <2>1, SlotsInOrder DEF Reads
(* A slot after from is not in a month before that of the first run. *)
<1>5. ASSUME NEW i \in 0..m, slot(i).at > from.at PROVE i < m
    <2>1. At(fd, fx) < At(D(i), fx)
        BY <1>3, <1>5, AtOrder DEF Reads
    <2>2. m - i \in Nat /\ SlotDay(c, m - i) \in Nat
        BY <1>3
    <2>3. fd < SlotDay(c, m - i)
        BY <2>1, <2>2, AtOrder DEF Reads, D
    <2>4. m - i < m0 => SlotDay(c, m - i) < monthStart[m0]
        BY <2>2, SlotsInOrder DEF Reads
    <2> QED BY <1>2, <2>2, <2>3, <2>4 DEF Reads
<1>6. m >= 1 => D(1) <= day - 1
    <2>1. SUFFICES ASSUME m >= 1 PROVE D(1) <= day - 1
        OBVIOUS
    <2>2. m - 1 \in Nat /\ m - 1 < m
        BY <2>1
    <2>3. SlotDay(c, m - 1) < monthStart[m] /\ SlotDay(c, m - 1) \in Nat /\ monthStart[m] \in Nat
        BY <2>2, SlotsInOrder, SlotDays, MonthStarts DEF Reads
    <2> QED BY <1>1, <2>3 DEF Reads
<1> HIDE DEF D, slot
<1>7. m >= 2 => slot(2).at <= from.at
    <2>1. SUFFICES ASSUME m >= 2 PROVE slot(2).at <= from.at
        OBVIOUS
    <2>2. D(2) < day - 1 /\ D(2) \in Nat
        BY <1>3, <1>4, <1>6, <2>1 DEF Reads
    <2>3. At(D(2), fx) <= At(day - 1, x) /\ At(D(2), fx) \in Int /\ At(day - 1, x) \in Int
        BY <2>2, AtOrder DEF Reads
    <2>4. slot(2).at = At(D(2), fx)
        BY <1>3, <2>1
    <2> QED BY <2>3, <2>4 DEF Reads
<1>8. \E i \in 0..(MonthsSearched - 1) : i <= m /\ Last(i)
    <2>1. CASE slot(0).at <= from.at
        <3>1. Last(0) /\ 0 \in 0..(MonthsSearched - 1) /\ 0 <= m
            BY <2>1 DEF MonthsSearched
        <3> QED BY <3>1
    <2>2. CASE slot(0).at > from.at /\ slot(1).at <= from.at
        <3>1. m >= 1
            BY <1>5, <2>2
        <3>2. Last(1) /\ 1 \in 0..(MonthsSearched - 1)
            BY <2>2 DEF MonthsSearched
        <3> QED BY <3>1, <3>2
    <2>3. CASE slot(0).at > from.at /\ slot(1).at > from.at
        <3>1. m >= 1
            BY <1>5, <2>3
        <3>2. m >= 2
            BY <1>5, <2>3, <3>1
        <3>3. slot(2).at <= from.at
            BY <1>7, <3>2
        <3>4. Last(2) /\ 2 \in 0..(MonthsSearched - 1)
            BY <2>3, <3>3 DEF MonthsSearched
        <3> QED BY <3>2, <3>4
    <2>4. slot(0).at \in Int /\ from.at \in Int /\ (m >= 1 => slot(1).at \in Int)
        BY <1>3 DEF Reads
    <2>5. slot(0).at > from.at => m >= 1
        BY <1>5
    <2> QED BY <2>1, <2>2, <2>3, <2>4, <2>5
<1>9. i0 \in 0..(MonthsSearched - 1) /\ Last(i0)
    BY <1>8
<1>10. i0 <= m
    <2>1. PICK i \in 0..(MonthsSearched - 1) : i <= m /\ Last(i)
        BY <1>8
    <2>2. ~(i < i0)
        <3>1. SUFFICES ASSUME i < i0 PROVE FALSE
            OBVIOUS
        <3>2. slot(i).at > from.at /\ slot(i).at <= from.at
            BY <1>9, <2>1, <3>1
        <3>3. slot(i).at \in Int /\ from.at \in Int
            BY <1>3, <2>1 DEF Reads
        <3> QED BY <3>2, <3>3
    <2> QED BY <1>9, <2>1, <2>2
<1>11. PICK i \in 0..m : i = i0 /\ Last(i)
    BY <1>9, <1>10
<1>12. computeMonthlyLatestOnOrBefore(c.firstRunAt, c.dayOfMonth, from, none) = slot(i)
    <2>1. ~(from.at < c.firstRunAt.at) /\ Day(from) = day
        BY DateMade DEF Reads
    <2> QED BY <1>1, <1>11, <2>1 DEF computeMonthlyLatestOnOrBefore, slot
<1> HIDE DEF i0
<1>13. ASSUME from.zone = 0 PROVE IsLast(c, from.at, At(D(i), fx))
    <2>1. from.at = At(day, x)
        BY <1>13 DEF Reads
    <2>2. D(i) < day \/ (D(i) = day /\ fx <= x)
        <3>1. D(i) \in Int /\ day \in Int /\ fx \in Ticks /\ x \in Ticks
            BY <1>3 DEF Reads
        <3>2. At(D(i), fx) <= At(day, x)
            BY <1>3, <1>11, <2>1
        <3> QED BY <3>1, <3>2, AtOrder
    <2>3. ASSUME NEW e \in Nat, RunsOn(c, e), e < day \/ (e = day /\ fx <= x)
          PROVE  e <= D(i)
        <3>1. PICK n \in Nat : e = SlotDay(c, n)
            BY <2>3 DEF RunsOn
        <3>2. n <= m
            <4>1. n > m => monthStart[m + 1] <= SlotDay(c, n)
                BY SlotsInOrder DEF Reads
            <4>2. monthStart[m + 1] \in Nat
                BY MonthStarts
            <4> QED BY <1>1, <2>3, <3>1, <4>1, <4>2 DEF Reads
        <3>3. PICK j \in 0..m : j = m - n /\ m - j = n
            BY <3>2
        <3>4. e = D(j)
            BY <3>1, <3>3 DEF D
        <3>5. ~(j < i)
            <4>1. SUFFICES ASSUME j < i PROVE FALSE
                OBVIOUS
            <4>2. slot(j).at > from.at
                BY <1>11, <4>1
            <4>3. At(D(j), fx) > At(day, x)
                BY <1>3, <2>1, <4>2
            <4>4. D(j) \in Int /\ day \in Int /\ fx \in Ticks /\ x \in Ticks
                BY <2>3, <3>4 DEF Reads
            <4>5. At(D(j), fx) <= At(day, x)
                BY <2>3, <3>4, <4>4, AtOrder
            <4>6. At(D(j), fx) \in Int /\ At(day, x) \in Int
                BY <4>4, AtOrder
            <4> HIDE DEF D
            <4> QED BY <4>3, <4>5, <4>6
        <3>6. D(i) \in Nat /\ D(j) \in Nat /\ (i < j => D(j) < D(i))
            BY <1>3, <1>4
        <3> QED BY <3>4, <3>5, <3>6
    <2>4. D(i) \in Nat /\ D(i) \in Int /\ RunsOn(c, D(i))
        BY <1>3
    <2> QED BY <2>1, <2>2, <2>3, <2>4, LastByDay DEF Reads
<1> QED
    BY <1>3, <1>12, <1>13 DEF LastRun

-----------------------------------------------------------------------------
(* Intervals. *)

(* t is the time of an instant of c's recurrence, as the schedule's row has it. *)
OnTime(c, t) ==
    /\ t = Shifted(c.firstRunAt, t.at)
    /\ t.at \in Int
    /\ On(c, t.at)

(* t is a time the schedule may be due at: one of those, or one of the two     *)
(* edges where it gets off its recurrence.                                   *)
DueTime(c, t) ==
    /\ t = Shifted(c.firstRunAt, t.at)
    /\ t.at \in Int
    /\ On(c, t.at) \/ Off(c, t.at)

(* Times moved from the first run keep its zone. *)
LEMMA ShiftedTime ==
    ASSUME NEW c \in Configs, NEW u \in Int
    PROVE  /\ Shifted(c.firstRunAt, u) \in [at : Int, zone : Int]
           /\ Shifted(c.firstRunAt, u).at = u
           /\ Shifted(c.firstRunAt, u).zone = c.firstRunAt.zone
           /\ Shifted(c.firstRunAt, c.firstRunAt.at) = c.firstRunAt
           /\ On(c, u) => OnTime(c, Shifted(c.firstRunAt, u))
           /\ On(c, u) \/ Off(c, u) => DueTime(c, Shifted(c.firstRunAt, u))
<1>1. c.firstRunAt \in [at : Nat, zone : Int]
    BY ConfigsAssumption
<1> QED
    BY <1>1 DEF Shifted, OnTime, DueTime

(* time.Date in UTC gives the times a move from the first run gives. *)
LEMMA CalendarTime ==
    ASSUME NEW c \in Configs, NEW fd, NEW fx, c.firstRunAt = UTC(At(fd, fx)), NEW u \in Int
    PROVE  UTC(u) = Shifted(c.firstRunAt, u)
    BY DEF Shifted, UTC

(* The instants of an interval schedule. *)
LEMMA OnInterval ==
    ASSUME NEW c \in Configs, c.cadence = "interval", NEW k \in Int
    PROVE  /\ c.seconds \in Nat \ {0}
           /\ On(c, c.firstRunAt.at + k * c.seconds)
<1>1. PICK s \in Nat \ {0}, f \in Nat : s = c.seconds /\ f = c.firstRunAt.at
    BY ConfigsAssumption
<1>2. (k * s + 0) % s = 0
    BY DivModUnique
<1>3. (f + k * s) - f = k * s + 0
    OBVIOUS
<1>4. ((f + k * s) - f) % s = 0
    BY <1>2, <1>3
<1> QED
    BY <1>1, <1>4 DEF On

(* There are no others. *)
LEMMA IntervalInstant ==
    ASSUME NEW c \in Configs, c.cadence = "interval", NEW u \in Int, On(c, u)
    PROVE  \E k \in Int : u = c.firstRunAt.at + k * c.seconds
<1>1. PICK s \in Nat \ {0}, f \in Nat : s = c.seconds /\ f = c.firstRunAt.at
    BY ConfigsAssumption
<1>2. PICK v \in Int : v = u - f
    BY <1>1
<1>3. v % s = 0
    BY <1>1, <1>2 DEF On
<1>4. v \div s \in Int /\ v = (v \div s) * s + 0
    BY <1>3, DivMod
<1> QED
    BY <1>1, <1>2, <1>4

(* computeIntervalAfter finds the next occurrence. *)
LEMMA IntervalAfter ==
    ASSUME NEW c \in Configs, c.cadence = "interval", NEW from \in Int, from >= c.firstRunAt.at
    PROVE  LET r == computeIntervalAfter(c.firstRunAt.at, c.seconds, from)
           IN  r \in Int /\ IsNext(c, from, r)
<1>1. PICK s \in Nat \ {0}, f \in Nat : s = c.seconds /\ f = c.firstRunAt.at
    BY ConfigsAssumption
<1>2. PICK v \in Nat : v = from - f /\ from = f + v
    <2>1. PICK v \in Int : v = from - f
        BY <1>1
    <2>2. v \in Nat /\ from = f + v
        BY <1>1, <2>1
    <2> QED BY <2>1, <2>2
<1>3. PICK q \in Int, y \in 0..(s - 1) : q = v \div s /\ v = q * s + y
    <2>1. v \div s \in Int /\ v % s \in 0..(s - 1) /\ v = (v \div s) * s + (v % s)
        BY DivMod
    <2> QED BY <2>1
<1>4. computeIntervalAfter(c.firstRunAt.at, c.seconds, from) = f + (q + 1) * s
    <2>1. ~(from < f)
        BY <1>1
    <2>2. FloorOfQuotient(from - f, s) = q
        <3>1. FloorOfQuotient(v, s) = v \div s
            BY DEF FloorOfQuotient
        <3>2. q = v \div s
            BY <1>3, Zenon
        <3>3. from - f = v
            BY <1>2, Zenon
        <3> QED BY <3>1, <3>2, <3>3, Zenon
    <2> QED BY <1>1, <2>1, <2>2 DEF computeIntervalAfter
<1>5. (q + 1) * s = q * s + s /\ q * s \in Int
    OBVIOUS
<1>6. f + (q + 1) * s > from /\ f + (q + 1) * s \in Int
    BY <1>2, <1>3, <1>5
<1>7. Occurs(c, f + (q + 1) * s)
    <2>1. q + 1 \in Int
        OBVIOUS
    <2> QED BY <1>1, <1>6, <2>1, OnInterval DEF Occurs
<1>8. ASSUME NEW u \in Int, from < u, u < f + (q + 1) * s, Occurs(c, u) PROVE FALSE
    <2>1. PICK k \in Int : u = f + k * s
        BY <1>1, <1>8, IntervalInstant DEF Occurs
    <2>2. k * s \in Int /\ (q + 1) * s \in Int
        OBVIOUS
    <2>3. k * s < (q + 1) * s /\ k * s > q * s + y
        BY <1>2, <1>3, <1>5, <1>8, <2>1, <2>2
    <2>4. ~(q + 1 < k)
        BY <2>2, <2>3, MultiplesInOrder
    <2>5. ~(k < q)
        <3>1. k < q => k * s + s <= q * s
            BY MultiplesInOrder
        <3> QED BY <1>5, <2>2, <2>3, <3>1
    <2>6. k # q + 1
        BY <2>2, <2>3
    <2>7. k # q
        BY <2>2, <2>3, <1>5, <1>3
    <2> QED BY <2>4, <2>5, <2>6, <2>7
<1> QED
    BY <1>4, <1>6, <1>7, <1>8 DEF IsNext

(* computeIntervalLatestOnOrBefore finds the last one. *)
LEMMA IntervalLatest ==
    ASSUME NEW c \in Configs, c.cadence = "interval", NEW from \in Int, from >= c.firstRunAt.at,
           NEW none
    PROVE  LET r == computeIntervalLatestOnOrBefore(c.firstRunAt.at, c.seconds, from, none)
           IN  r \in Int /\ IsLast(c, from, r)
<1>1. PICK s \in Nat \ {0}, f \in Nat : s = c.seconds /\ f = c.firstRunAt.at
    BY ConfigsAssumption
<1>2. PICK v \in Nat : v = from - f /\ from = f + v
    <2>1. PICK v \in Int : v = from - f
        BY <1>1
    <2>2. v \in Nat /\ from = f + v
        BY <1>1, <2>1
    <2> QED BY <2>1, <2>2
<1>3. PICK q \in Int, y \in 0..(s - 1) : q = v \div s /\ v = q * s + y
    <2>1. v \div s \in Int /\ v % s \in 0..(s - 1) /\ v = (v \div s) * s + (v % s)
        BY DivMod
    <2> QED BY <2>1
<1>4. computeIntervalLatestOnOrBefore(c.firstRunAt.at, c.seconds, from, none) = f + q * s
    <2>1. ~(from < f)
        BY <1>1
    <2>2. FloorOfQuotient(from - f, s) = q
        <3>1. FloorOfQuotient(v, s) = v \div s
            BY DEF FloorOfQuotient
        <3>2. q = v \div s
            BY <1>3, Zenon
        <3>3. from - f = v
            BY <1>2, Zenon
        <3> QED BY <3>1, <3>2, <3>3, Zenon
    <2> QED BY <1>1, <2>1, <2>2 DEF computeIntervalLatestOnOrBefore
<1>5. q * s \in Int
    OBVIOUS
<1>6. f + q * s <= from /\ f + q * s \in Int
    BY <1>2, <1>3, <1>5
<1>7. q >= 0
    <2>1. q < 0 => q * s + s <= 0 * s
        BY MultiplesInOrder
    <2> QED BY <1>3, <1>5, <2>1
<1>8. Occurs(c, f + q * s)
    <2>1. q * s >= 0
        BY <1>7
    <2> QED BY <1>1, <1>5, <2>1, OnInterval DEF Occurs
<1>9. ASSUME NEW u \in Int, f + q * s < u, u <= from, Occurs(c, u) PROVE FALSE
    <2>1. PICK k \in Int : u = f + k * s
        BY <1>1, <1>9, IntervalInstant DEF Occurs
    <2>2. k * s \in Int
        OBVIOUS
    <2>3. q * s < k * s /\ k * s <= q * s + y
        BY <1>2, <1>3, <1>5, <1>9, <2>1, <2>2
    <2>4. k < q => k * s + s <= q * s
        BY MultiplesInOrder
    <2>5. q < k => q * s + s <= k * s
        BY MultiplesInOrder
    <2> QED BY <1>5, <2>2, <2>3, <2>4, <2>5
<1> QED
    BY <1>4, <1>6, <1>8, <1>9 DEF IsLast, Occurs

-----------------------------------------------------------------------------
(* Every cadence. *)

(* A time a proposal or an execution brings: in a zone within a day of UTC. *)
Readable(c, from) ==
    /\ from.at \in Int /\ from.zone \in Int
    /\ c.cadence # "interval" =>
         /\ from.zone \in (1 - TicksPerDay)..(TicksPerDay - 1)
         /\ from.at + from.zone >= 0

(* Such a time has a day and a tick for the proposer's node. *)
LEMMA ReadsIt ==
    ASSUME NEW c \in Configs, c.cadence # "interval", NEW from, Readable(c, from),
           from.at >= c.firstRunAt.at
    PROVE  \E fd, fx, day, x : Reads(c, from, fd, fx, day, x)
<1>1. PICK fd \in Nat, fx \in Ticks : /\ c.firstRunAt = UTC(At(fd, fx))
                                     /\ c.firstRunAt.at = At(fd, fx)
                                     /\ Day(c.firstRunAt) = fd
                                     /\ Clock(c.firstRunAt) = fx
    BY FirstRun
<1>2. PICK d \in Int, x \in Ticks :
             /\ Day(from) = d
             /\ At(d - 1, x) < from.at /\ from.at < At(d + 1, x)
             /\ from.zone = 0 => from.at = At(d, x)
             /\ from.at + from.zone >= 0 => d \in Nat
    BY DateRead DEF Readable
<1>3. d \in Nat /\ from.at \in Int
    BY <1>2 DEF Readable
<1>4. At(fd, fx) <= from.at
    BY <1>1, <1>3, AtOrder
<1>5. Reads(c, from, fd, fx, d, x)
    BY <1>1, <1>2, <1>3, <1>4 DEF Reads
<1> QED
    BY <1>5

(* A run on a calendar's day is on time. *)
LEMMA RunOnTime ==
    ASSUME NEW c, NEW from, NEW fd, NEW fx, NEW day, NEW x, Reads(c, from, fd, fx, day, x),
           NEW d \in Int, RunsOn(c, d), c.cadence = "monthly" => d \in Nat
    PROVE  OnTime(c, UTC(At(d, fx))) /\ UTC(At(d, fx)).at = At(d, fx)
<1>1. At(d, fx) \in Int /\ UTC(At(d, fx)).at = At(d, fx)
    BY DateMade
<1>2. On(c, At(d, fx))
    BY OnCalendar DEF Reads
<1>3. UTC(At(d, fx)) = Shifted(c.firstRunAt, At(d, fx))
    BY <1>1, CalendarTime DEF Reads
<1> QED
    BY <1>1, <1>2, <1>3, ShiftedTime DEF Reads

(* ComputeNextRunAfter gives the first run before it has come, and from then *)
(* on finds an instant of the schedule, the first occurrence after the one it *)
(* is given if that is in UTC. A weekly schedule has to be given one of its   *)
(* own instants for that: given another it keeps the time of day, and, in     *)
(* UTC, the day of the week it is given.                                     *)
THEOREM AfterIsNextOccurrence ==
    ASSUME NEW c \in Configs, NEW from, Readable(c, from)
    PROVE  LET r == ComputeNextRunAfter(c, from)
           IN  /\ from.at < c.firstRunAt.at => r = c.firstRunAt
               /\ /\ from.at >= c.firstRunAt.at
                  /\ c.cadence = "weekly" => from.zone = 0 /\ On(c, from.at)
                  => /\ OnTime(c, r)
                     /\ from.zone = 0 \/ c.cadence = "interval" => IsNext(c, from.at, r.at)
               /\ from.at >= c.firstRunAt.at /\ c.cadence = "weekly" =>
                    /\ r = Shifted(c.firstRunAt, r.at) /\ r.at \in Int
                    /\ (r.at - c.firstRunAt.at) % TicksPerDay = 0
                    /\ from.zone = 0 => WithinWeek(from, r.at)
<1> DEFINE r == ComputeNextRunAfter(c, from)
<1>1. c.cadence \in {"interval", "daily", "weekly", "monthly"}
    BY ConfigsAssumption DEF Cadences
<1>2. c.firstRunAt.at \in Nat /\ from.at \in Int
    BY FirstIsOn DEF Readable
<1>3. ASSUME from.at < c.firstRunAt.at PROVE r = c.firstRunAt
    BY <1>1, <1>2, <1>3, ShiftedTime
       DEF ComputeNextRunAfter, computeIntervalAfter, computeDailyAfter, computeWeeklyAfter,
           computeMonthlyAfter
<1>4. ASSUME from.at >= c.firstRunAt.at,
             c.cadence = "weekly" => from.zone = 0 /\ On(c, from.at)
      PROVE  /\ OnTime(c, r)
             /\ from.zone = 0 \/ c.cadence = "interval" => IsNext(c, from.at, r.at)
    <2>1. CASE c.cadence = "interval"
        <3>1. r = Shifted(c.firstRunAt, computeIntervalAfter(c.firstRunAt.at, c.seconds, from.at))
            BY <2>1 DEF ComputeNextRunAfter
        <3>2. PICK u \in Int : /\ u = computeIntervalAfter(c.firstRunAt.at, c.seconds, from.at)
                               /\ IsNext(c, from.at, u)
            BY <1>2, <1>4, <2>1, IntervalAfter
        <3>3. r = Shifted(c.firstRunAt, u) /\ r.at = u /\ OnTime(c, r)
            BY <3>1, <3>2, ShiftedTime DEF IsNext, Occurs
        <3> QED BY <3>2, <3>3
    <2>2. CASE c.cadence # "interval"
        <3>1. PICK fd, fx, day, x : Reads(c, from, fd, fx, day, x)
            BY <1>4, <2>2, ReadsIt
        <3>2. NextRun(c, from, fx, r)
            <4>1. CASE c.cadence = "daily"
                BY <3>1, <4>1, DailyAfter DEF ComputeNextRunAfter
            <4>2. CASE c.cadence = "weekly"
                BY <1>4, <3>1, <4>2, WeeklyAfter DEF ComputeNextRunAfter
            <4>3. CASE c.cadence = "monthly"
                BY <3>1, <4>3, MonthlyAfter DEF ComputeNextRunAfter
            <4> QED BY <1>1, <2>2, <4>1, <4>2, <4>3
        <3> HIDE DEF r
        <3>3. PICK d \in Int : /\ r = UTC(At(d, fx)) /\ RunsOn(c, d)
                               /\ c.cadence = "monthly" => d \in Nat
                               /\ from.zone = 0 => IsNext(c, from.at, At(d, fx))
            BY <3>2 DEF NextRun
        <3>4. OnTime(c, r) /\ r.at = At(d, fx)
            BY <3>1, <3>3, RunOnTime
        <3> QED BY <2>2, <3>3, <3>4
    <2> QED BY <2>1, <2>2
<1>5. ASSUME from.at >= c.firstRunAt.at, c.cadence = "weekly"
      PROVE  /\ r = Shifted(c.firstRunAt, r.at) /\ r.at \in Int
             /\ (r.at - c.firstRunAt.at) % TicksPerDay = 0
             /\ from.zone = 0 => WithinWeek(from, r.at)
    <2>1. PICK fd, fx, day, x : Reads(c, from, fd, fx, day, x)
        BY <1>5, ReadsIt
    <2>2. PICK d \in Int : /\ r = UTC(At(d, fx))
                           /\ (At(d, fx) - c.firstRunAt.at) % TicksPerDay = 0
                           /\ from.zone = 0 => WithinWeek(from, At(d, fx))
        BY <1>5, <2>1, WeeklyAfterAnyDay DEF ComputeNextRunAfter
    <2> HIDE DEF r
    <2>3. At(d, fx) \in Int /\ UTC(At(d, fx)).at = At(d, fx)
        BY <2>1, DateMade
    <2>4. UTC(At(d, fx)) = Shifted(c.firstRunAt, At(d, fx))
        BY <2>1, <2>3, CalendarTime DEF Reads
    <2> QED BY <2>2, <2>3, <2>4
<1> HIDE DEF r
<1> QED
    BY <1>3, <1>4, <1>5 DEF r

(* ComputeLatestRunOnOrBefore finds nothing before the first run, and from *)
(* then on an instant of the recurrence, with no occurrence from there up  *)
(* to an instant given in UTC: the last one, if there has been one since   *)
(* the first run.                                                          *)
THEOREM LatestIsLastOccurrence ==
    ASSUME NEW c \in Configs, NEW from, Readable(c, from)
    PROVE  LET r == ComputeLatestRunOnOrBefore(c, from, Nil)
           IN  /\ from.at < c.firstRunAt.at => r = Nil
               /\ from.at >= c.firstRunAt.at =>
                    /\ r # Nil /\ OnTime(c, r)
                    /\ from.zone = 0 \/ c.cadence = "interval" => IsLast(c, from.at, r.at)
<1> DEFINE r == ComputeLatestRunOnOrBefore(c, from, Nil)
<1>1. c.cadence \in {"interval", "daily", "weekly", "monthly"}
    BY ConfigsAssumption DEF Cadences
<1>2. c.firstRunAt.at \in Nat /\ from.at \in Int
    BY FirstIsOn DEF Readable
<1>3. ASSUME NEW t, OnTime(c, t) PROVE t # Nil
    <2>1. t \in [at : Int, zone : Int]
        BY <1>3, ShiftedTime DEF OnTime
    <2> QED BY <2>1, NilAssumption
<1>4. CASE from.at < c.firstRunAt.at
    <2>1. r = Nil
        BY <1>1, <1>4 DEF ComputeLatestRunOnOrBefore, computeDailyLatestOnOrBefore,
             computeWeeklyLatestOnOrBefore, computeMonthlyLatestOnOrBefore,
             computeIntervalLatestOnOrBefore
    <2> QED BY <1>2, <1>4, <2>1
<1>5. CASE from.at >= c.firstRunAt.at /\ c.cadence = "interval"
    <2>1. PICK u \in Int :
            /\ u = computeIntervalLatestOnOrBefore(c.firstRunAt.at, c.seconds, from.at, Nil)
            /\ IsLast(c, from.at, u)
        BY <1>2, <1>5, IntervalLatest
    <2>2. u # Nil
        BY NilAssumption
    <2>3. r = Shifted(c.firstRunAt, u)
        BY <1>5, <2>1, <2>2 DEF ComputeLatestRunOnOrBefore
    <2> HIDE DEF r
    <2>4. r.at = u /\ OnTime(c, r)
        BY <2>1, <2>3, ShiftedTime DEF IsLast, Occurs
    <2>5. r # Nil /\ OnTime(c, r) /\ IsLast(c, from.at, r.at)
        BY <1>3, <2>1, <2>4
    <2> QED BY <1>2, <1>5, <2>5 DEF r
<1>6. CASE from.at >= c.firstRunAt.at /\ c.cadence # "interval"
    <2>1. PICK fd, fx, day, x : Reads(c, from, fd, fx, day, x)
        BY <1>6, ReadsIt
    <2>2. LastRun(c, from, fx, r)
        <3>1. CASE c.cadence = "daily"
            BY <2>1, <3>1, DailyLatest DEF ComputeLatestRunOnOrBefore
        <3>2. CASE c.cadence = "weekly"
            BY <2>1, <3>2, WeeklyLatest DEF ComputeLatestRunOnOrBefore
        <3>3. CASE c.cadence = "monthly"
            BY <2>1, <3>3, MonthlyLatest DEF ComputeLatestRunOnOrBefore
        <3> QED BY <1>1, <1>6, <3>1, <3>2, <3>3
    <2> HIDE DEF r
    <2>3. PICK d \in Int : /\ r = UTC(At(d, fx)) /\ RunsOn(c, d)
                           /\ c.cadence = "monthly" => d \in Nat
                           /\ from.zone = 0 => IsLast(c, from.at, At(d, fx))
        BY <2>2 DEF LastRun
    <2>4. OnTime(c, r) /\ r.at = At(d, fx)
        BY <2>1, <2>3, RunOnTime
    <2>5. r # Nil
        BY <1>3, <2>4
    <2> QED BY <1>2, <1>6, <2>3, <2>4, <2>5 DEF r
<1> QED
    BY <1>2, <1>4, <1>5, <1>6

(* computeMonthlyOnOrAfter finds the first slot from the first run on. *)
LEMMA MonthlyOnOrAfter ==
    ASSUME NEW c, NEW fd, NEW fx, Reads(c, c.firstRunAt, fd, fx, fd, fx),
           c.cadence = "monthly"
    PROVE  \E d \in Nat : /\ computeMonthlyOnOrAfter(c.firstRunAt, c.dayOfMonth, c.firstRunAt)
                              = UTC(At(d, fx))
                          /\ RunsOn(c, d) /\ fd <= d
                          /\ \A e \in Nat : RunsOn(c, e) /\ fd <= e => d <= e
<1> DEFINE first == c.firstRunAt
<1>1. PICK m \in Nat : m = MonthOf(fd) /\ monthStart[m] <= fd /\ fd < monthStart[m + 1]
    BY MonthOfDay DEF Reads
<1> DEFINE D(i) == SlotDay(c, m + i)
           slot(i) == MonthSlot(first, c.dayOfMonth, m + i)
           First(i) == /\ slot(i).at >= first.at
                       /\ \A j \in 0..(i - 1) : slot(j).at < first.at
           i0 == CHOOSE i \in 0..(MonthsSearched - 1) : First(i)
<1>2. \A i \in Nat : D(i) \in Nat /\ slot(i) = UTC(At(D(i), fx)) /\ slot(i).at = At(D(i), fx)
                     /\ RunsOn(c, D(i))
    <2> TAKE i \in Nat
    <2>1. m + i \in Nat
        OBVIOUS
    <2> QED BY <2>1, SlotMade
<1>3. \A i \in Nat : (slot(i).at >= first.at <=> fd <= D(i)) /\ (slot(i).at < first.at <=> D(i) < fd)
    <2> TAKE i \in Nat
    <2> HIDE DEF D, slot
    <2>4. slot(i).at = At(D(i), fx) /\ D(i) \in Nat
        BY <1>2
    <2>5. fd \in Nat /\ fx \in Ticks /\ first.at = At(fd, fx)
        BY DEF Reads
    <2>6. fx \in Int
        BY <2>5, CalendarAssumption DEF Ticks
    <2> HIDE DEF first
    <2>1. slot(i).at = At(D(i), fx) /\ D(i) \in Nat /\ fd \in Nat /\ fx \in Ticks
          /\ first.at = At(fd, fx) /\ fx \in Int
        BY <2>4, <2>5, <2>6
    <2>2. At(fd, fx) <= At(D(i), fx) <=> fd <= D(i)
        BY <2>1, AtOrder
    <2>3. At(fd, fx) \in Int /\ At(D(i), fx) \in Int
        BY <2>1, AtOrder
    <2> QED BY <2>1, <2>2, <2>3
<1>4. D(1) > fd
    <2>1. m + 1 \in Nat
        OBVIOUS
    <2>2. monthStart[m + 1] <= SlotDay(c, m + 1) /\ SlotDay(c, m + 1) \in Nat
          /\ monthStart[m + 1] \in Nat
        BY <2>1, SlotDays, MonthStarts DEF Reads
    <2> QED BY <1>1, <2>2 DEF Reads
<1> HIDE DEF D, slot
<1>5. \E i \in 0..(MonthsSearched - 1) : First(i)
    <2>1. CASE fd <= D(0)
        <3>1. First(0) /\ 0 \in 0..(MonthsSearched - 1)
            BY <1>3, <2>1 DEF MonthsSearched
        <3> QED BY <3>1
    <2>2. CASE D(0) < fd
        <3>1. First(1) /\ 1 \in 0..(MonthsSearched - 1)
            BY <1>2, <1>3, <1>4, <2>2 DEF MonthsSearched, Reads
        <3> QED BY <3>1
    <2> QED BY <1>2, <2>1, <2>2 DEF Reads
<1>6. i0 \in 0..(MonthsSearched - 1) /\ First(i0)
    BY <1>5
<1>7. PICK i \in Nat : i = i0 /\ First(i)
    BY <1>6
<1>8. computeMonthlyOnOrAfter(first, c.dayOfMonth, first) = slot(i)
    <2>1. ~(first.at < first.at) /\ Day(first) = fd
        BY DateMade DEF Reads
    <2> QED BY <1>1, <1>7, <2>1 DEF computeMonthlyOnOrAfter, slot
<1> HIDE DEF i0
<1>9. ASSUME NEW e \in Nat, RunsOn(c, e), fd <= e PROVE D(i) <= e
    <2>1. PICK n \in Nat : e = SlotDay(c, n)
        BY <1>9 DEF RunsOn
    <2>2. n >= m
        <3>1. n < m => SlotDay(c, n) < monthStart[m]
            BY SlotsInOrder DEF Reads
        <3>2. monthStart[m] \in Nat
            BY MonthStarts
        <3> QED BY <1>1, <1>9, <2>1, <3>1, <3>2 DEF Reads
    <2>3. PICK j \in Nat : j = n - m /\ m + j = n
        BY <2>2
    <2>4. e = D(j)
        BY <2>1, <2>3 DEF D
    <2>5. ~(j < i)
        <3>1. SUFFICES ASSUME j < i PROVE FALSE
            OBVIOUS
        <3>2. slot(j).at < first.at
            BY <1>7, <3>1
        <3>3. D(j) < fd /\ fd \in Nat
            BY <1>3, <3>2 DEF Reads
        <3> QED BY <1>9, <2>4, <3>3
    <2>6. j > i => D(i) < D(j)
        <3>1. m + i \in Nat /\ m + j \in Nat /\ (i < j => m + i < m + j)
            OBVIOUS
        <3> QED BY <3>1, SlotsInOrder DEF Reads, D
    <2>7. D(i) \in Nat /\ D(j) \in Nat
        BY <1>2
    <2> QED BY <2>4, <2>5, <2>6, <2>7
<1>10. D(i) \in Nat /\ slot(i) = UTC(At(D(i), fx)) /\ RunsOn(c, D(i)) /\ fd <= D(i)
    BY <1>2, <1>3, <1>7
<1> HIDE DEF First
<1> QED
    BY <1>8, <1>9, <1>10

(* A schedule is first due at its first occurrence. *)
LEMMA FirstDue ==
    ASSUME NEW c \in Configs
    PROVE  LET r == ComputeNextRunOnOrAfter(c, c.firstRunAt)
           IN  /\ OnTime(c, r) /\ r.at \in Nat
               /\ Occurs(c, r.at)
               /\ \A u \in Int : u < r.at => ~Occurs(c, u)
<1> DEFINE r == ComputeNextRunOnOrAfter(c, c.firstRunAt)
<1>1. c.cadence \in {"interval", "daily", "weekly", "monthly"}
    BY ConfigsAssumption DEF Cadences
<1>2. c.firstRunAt.at \in Nat
    BY FirstIsOn
<1>3. CASE c.cadence # "monthly"
    <2>1. Occurs(c, c.firstRunAt.at)
        BY <1>3, FirstIsOn
    <2>2. OnTime(c, c.firstRunAt)
        BY <1>2, <2>1, ShiftedTime DEF Occurs
    <2>3. r = c.firstRunAt
        <3>1. CASE c.cadence = "interval"
            <4>1. computeIntervalOnOrAfter(c.firstRunAt.at, c.seconds, c.firstRunAt.at)
                  = c.firstRunAt.at
                BY <1>2 DEF computeIntervalOnOrAfter
            <4> QED BY <1>2, <3>1, <4>1, ShiftedTime DEF ComputeNextRunOnOrAfter
        <3>2. CASE c.cadence # "interval"
            <4>1. PICK fd \in Nat, fx \in Ticks : /\ c.firstRunAt = UTC(At(fd, fx))
                                                 /\ c.firstRunAt.at = At(fd, fx)
                                                 /\ Day(c.firstRunAt) = fd
                                                 /\ Clock(c.firstRunAt) = fx
                BY <3>2, FirstRun
            <4>5. Date(fd, fx) = UTC(At(fd, fx))
                BY TimesInUTC
            <4>6. ~(c.firstRunAt.at < c.firstRunAt.at)
                BY <1>2
            <4>2. Date(fd, fx) = c.firstRunAt /\ ~(c.firstRunAt.at < c.firstRunAt.at)
                BY <4>1, <4>5, <4>6
            <4>3. CASE c.cadence = "daily"
                BY <4>1, <4>2, <4>3 DEF ComputeNextRunOnOrAfter, computeDailyOnOrAfter
            <4>4. CASE c.cadence = "weekly"
                <5>1. ((fd % 7) - (fd % 7) + 7) % 7 = 0 /\ fd + 0 = fd
                    OBVIOUS
                <5> QED BY <4>1, <4>2, <4>4, <5>1
                        DEF ComputeNextRunOnOrAfter, computeWeeklyOnOrAfter, Weekday, DaysPerWeek
            <4> QED BY <1>1, <1>3, <3>2, <4>3, <4>4
        <3> QED BY <3>1, <3>2
    <2> HIDE DEF r
    <2> QED BY <1>2, <2>1, <2>2, <2>3 DEF Occurs, r
<1>4. CASE c.cadence = "monthly"
    <2>1. PICK fd \in Nat, fx \in Ticks : /\ c.firstRunAt = UTC(At(fd, fx))
                                         /\ c.firstRunAt.at = At(fd, fx)
                                         /\ Day(c.firstRunAt) = fd
                                         /\ Clock(c.firstRunAt) = fx
        BY <1>4, FirstRun
    <2>2. Reads(c, c.firstRunAt, fd, fx, fd, fx)
        <3>1. At(fd - 1, fx) < At(fd, fx) /\ At(fd, fx) < At(fd + 1, fx) /\ At(fd, fx) \in Int
            BY CalendarAssumption DEF At, Ticks
        <3> QED BY <1>4, <2>1, <3>1 DEF Reads
    <2>3. PICK d \in Nat : /\ r = UTC(At(d, fx)) /\ RunsOn(c, d) /\ fd <= d
                           /\ \A e \in Nat : RunsOn(c, e) /\ fd <= e => d <= e
        BY <1>4, <2>2, MonthlyOnOrAfter DEF ComputeNextRunOnOrAfter
    <2> HIDE DEF r
    <2>4. OnTime(c, r) /\ r.at = At(d, fx)
        BY <2>2, <2>3, RunOnTime
    <2>5. r.at \in Int /\ r.at >= c.firstRunAt.at
        BY <2>1, <2>3, <2>4, AtOrder DEF Ticks
    <2>6. ASSUME NEW u \in Int, u < r.at, Occurs(c, u) PROVE FALSE
        <3>1. PICK e \in Nat : u = At(e, fx) /\ RunsOn(c, e) /\ fd <= e
            BY <1>4, <2>1, <2>6, OccursOnDay
        <3>2. d <= e
            BY <2>3, <3>1
        <3>3. At(d, fx) <= At(e, fx) /\ At(d, fx) \in Int
            BY <3>2, AtOrder DEF Ticks
        <3> QED BY <2>4, <2>6, <3>1, <3>3
    <2> QED BY <1>2, <2>4, <2>5, <2>6 DEF r, OnTime, Occurs
<1> QED
    BY <1>3, <1>4

-----------------------------------------------------------------------------
(* The invariant. *)

Statuses == {"active", "paused"}

TimesInv ==
    /\ config \in Configs
    /\ status = Nil \/ status \in Statuses
    /\ status # "active" => nextRunAt = Nil
    /\ nextRunAt # Nil => DueTime(config, nextRunAt)
    /\ \A t \in inFlight \cup ended : DueTime(config, t)
    /\ status = Nil => inFlight \cup ended = {}
    (* There is a latest one among those that have ended. *)
    /\ ended # {} => \E t \in ended : \A u \in ended : u.at <= t.at

(* due is the first occurrence of c that the executions done have not ended for. *)
EndedBefore(c, due, done) ==
    /\ due \in Nat
    /\ Occurs(c, due)
    /\ {t.at : t \in done} = {u \in 0..(due - 1) : Occurs(c, u)}

(* A catch_up_all schedule has a first occurrence that none has ended for: *)
(* it is due for that one, or will be when it is resumed, and may have an  *)
(* execution in flight for that one only.                                  *)
CatchUpInv ==
    config.catchUpPolicy = "catch_up_all" =>
        \E due : /\ EndedBefore(config, due, ended)
                 /\ \A t \in inFlight : t.at = due
                 /\ nextRunAt # Nil => nextRunAt.at = due

IInv == TimesInv /\ CatchUpInv

(* A time of the schedule can be read wherever it is used. *)
LEMMA DueTimeIsTime ==
    ASSUME NEW c \in Configs, NEW t, DueTime(c, t)
    PROVE  /\ t \in [at : Int, zone : Int] /\ t # Nil /\ t.at \in Int
           /\ t.zone = c.firstRunAt.zone
           /\ c.cadence # "interval" => t.zone = 0
           /\ t.at >= c.firstRunAt.at => Readable(c, t)
<1>1. /\ t \in [at : Int, zone : Int] /\ t.at \in Int /\ t.zone \in Int
      /\ t.zone = c.firstRunAt.zone
    BY ShiftedTime DEF DueTime
<1>2. t # Nil
    BY <1>1, NilAssumption
<1>3. c.cadence # "interval" => t.zone = 0
    BY <1>1, ConfigsAssumption
<1>4. c.firstRunAt.at \in Nat
    BY FirstIsOn
<1>5. 0 \in (1 - TicksPerDay)..(TicksPerDay - 1)
    BY CalendarAssumption
<1>6. t.at >= c.firstRunAt.at => Readable(c, t)
    BY <1>1, <1>3, <1>4, <1>5 DEF Readable
<1> QED
    BY <1>1, <1>2, <1>3, <1>6

(* A schedule may be due at its first run. *)
LEMMA FirstIsDueTime ==
    ASSUME NEW c \in Configs
    PROVE  DueTime(c, c.firstRunAt)
    BY FirstIsOn, ShiftedTime DEF DueTime

(* The end of an execution moves its schedule to a time it may be due at, and *)
(* from an occurrence to the next one.                                       *)
LEMMA AfterOwnInstant ==
    ASSUME NEW c \in Configs, NEW t, DueTime(c, t)
    PROVE  LET r == ComputeNextRunAfter(c, t)
           IN  /\ DueTime(c, r)
               /\ Occurs(c, t.at) => IsNext(c, t.at, r.at)
<1> DEFINE r == ComputeNextRunAfter(c, t)
<1>1. t.at \in Int /\ (c.cadence # "interval" => t.zone = 0) /\ t.zone \in Int
      /\ c.firstRunAt.at \in Nat /\ (On(c, t.at) \/ Off(c, t.at))
    BY DueTimeIsTime, FirstIsOn DEF DueTime
<1>2. CASE t.at < c.firstRunAt.at
    <2>1. r = c.firstRunAt
        <3>1. c.cadence \in {"interval", "daily", "weekly", "monthly"}
            BY ConfigsAssumption DEF Cadences
        <3> QED BY <1>1, <1>2, <3>1, ShiftedTime
                DEF ComputeNextRunAfter, computeDailyAfter, computeWeeklyAfter,
                    computeMonthlyAfter, computeIntervalAfter
    <2> HIDE DEF r
    <2>2. ~Occurs(c, t.at)
        BY <1>1, <1>2 DEF Occurs
    <2> QED BY <2>1, <2>2, FirstIsDueTime DEF r
<1>3. CASE t.at >= c.firstRunAt.at
    <2>1. Readable(c, t)
        BY <1>3, DueTimeIsTime
    <2> HIDE DEF r
    <2>2. CASE c.cadence = "weekly" /\ ~On(c, t.at)
        <3>1. /\ r = Shifted(c.firstRunAt, r.at) /\ r.at \in Int
              /\ (r.at - c.firstRunAt.at) % TicksPerDay = 0
            BY <1>3, <2>1, <2>2, AfterIsNextOccurrence DEF r
        <3>2. c.catchUpPolicy = "skip_missed"
            BY <1>1, <2>2 DEF Off
        <3>3. DueTime(c, r)
            BY <2>2, <3>1, <3>2 DEF DueTime, Off
        <3> QED BY <2>2, <3>3 DEF r, Occurs
    <2>3. CASE c.cadence = "weekly" => On(c, t.at)
        <3>1. OnTime(c, r) /\ IsNext(c, t.at, r.at)
            BY <1>1, <1>3, <2>1, <2>3, AfterIsNextOccurrence DEF r
        <3> QED BY <3>1 DEF r, OnTime, DueTime
    <2> QED BY <2>2, <2>3
<1> QED
    BY <1>1, <1>2, <1>3

(* The anchor of catch_up_all is the latest instant that has ended. *)
LEMMA AnchorIsLatest ==
    ASSUME TimesInv
    PROVE  /\ Anchor = Nil <=> ended = {}
           /\ ended # {} => Anchor \in ended /\ \A u \in ended : u.at <= Anchor.at
<1>1. \A t \in ended : t # Nil
    BY DueTimeIsTime DEF TimesInv
<1>2. ASSUME ended # {} PROVE Anchor \in ended /\ \A u \in ended : u.at <= Anchor.at
    BY <1>2 DEF TimesInv, Anchor
<1> QED
    BY <1>1, <1>2 DEF Anchor

(* What a resume leaves the schedule due for: nothing when create_schedule   *)
(* has let through a policy that is none of the three.                       *)
LEMMA ResumedOnTime ==
    ASSUME TimesInv, NEW p \in ProposedTimes
    PROVE  /\ \/ ResumedNextRun(p) = Nil
              \/ /\ DueTime(config, ResumedNextRun(p))
                 /\ config.catchUpPolicy \in {"catch_up_all", "skip_missed", "catch_up_latest_only"}
           /\ config.catchUpPolicy = "catch_up_all" =>
                ResumedNextRun(p) = IF ended = {}
                                    THEN ComputeNextRunOnOrAfter(config, config.firstRunAt)
                                    ELSE ComputeNextRunAfter(config, Anchor)
           /\ p.zone = 0 \/ config.cadence = "interval" =>
                /\ config.catchUpPolicy = "skip_missed" =>
                     IF p.at < config.firstRunAt.at
                     THEN ResumedNextRun(p) = config.firstRunAt
                     ELSE IF config.cadence = "weekly"
                     THEN WithinWeek(p, ResumedNextRun(p).at)
                     ELSE IsNext(config, p.at, ResumedNextRun(p).at)
                /\ config.catchUpPolicy = "catch_up_latest_only" =>
                     IF p.at < config.firstRunAt.at
                     THEN ResumedNextRun(p) = config.firstRunAt
                     ELSE IsLast(config, p.at, ResumedNextRun(p).at)
<1> DEFINE c == config
<1>1. c \in Configs /\ c.firstRunAt.at \in Nat
    BY FirstIsOn DEF TimesInv
<1>2. p \in [at : Int, zone : (1 - TicksPerDay)..(TicksPerDay - 1)] /\ p.at + p.zone >= 0
      /\ p.at \in Int /\ p.zone \in Int
    BY TimesAssumption, CalendarAssumption
<1>3. Readable(c, p)
    BY <1>2 DEF Readable
<1>4. DueTime(c, c.firstRunAt)
    BY <1>1, FirstIsDueTime
<1>5. CASE c.catchUpPolicy \notin {"catch_up_all", "skip_missed", "catch_up_latest_only"}
    BY <1>5 DEF ResumedNextRun
<1>6. CASE c.catchUpPolicy = "catch_up_all"
    <2>1. ResumedNextRun(p) = IF Anchor = Nil THEN ComputeNextRunOnOrAfter(c, c.firstRunAt)
                              ELSE ComputeNextRunAfter(c, Anchor)
        BY <1>6 DEF ResumedNextRun
    <2>2. ResumedNextRun(p) = IF ended = {} THEN ComputeNextRunOnOrAfter(c, c.firstRunAt)
                              ELSE ComputeNextRunAfter(c, Anchor)
        BY <2>1, AnchorIsLatest
    <2>3. ended # {} => DueTime(c, ComputeNextRunAfter(c, Anchor))
        <3>1. ended # {} => DueTime(c, Anchor)
            BY AnchorIsLatest DEF TimesInv
        <3> QED BY <1>1, <3>1, AfterOwnInstant
    <2>4. DueTime(c, ComputeNextRunOnOrAfter(c, c.firstRunAt))
        BY <1>1, FirstDue DEF OnTime, DueTime
    <2> QED BY <1>6, <2>2, <2>3, <2>4
<1>7. CASE c.catchUpPolicy = "skip_missed"
    <2> DEFINE r == ComputeNextRunAfter(c, p)
    <2>1. ResumedNextRun(p) = r
        BY <1>7 DEF ResumedNextRun
    <2>2. /\ p.at < c.firstRunAt.at => r = c.firstRunAt
          /\ p.at >= c.firstRunAt.at /\ c.cadence # "weekly" =>
               /\ OnTime(c, r)
               /\ p.zone = 0 \/ c.cadence = "interval" => IsNext(c, p.at, r.at)
          /\ p.at >= c.firstRunAt.at /\ c.cadence = "weekly" =>
               /\ r = Shifted(c.firstRunAt, r.at) /\ r.at \in Int
               /\ (r.at - c.firstRunAt.at) % TicksPerDay = 0
               /\ p.zone = 0 => WithinWeek(p, r.at)
        BY <1>1, <1>3, AfterIsNextOccurrence
    <2> HIDE DEF r
    <2>3. CASE p.at < c.firstRunAt.at
        BY <1>4, <1>7, <2>1, <2>2, <2>3
    <2>4. CASE p.at >= c.firstRunAt.at /\ c.cadence # "weekly"
        <3>1. DueTime(c, r)
            BY <2>2, <2>4 DEF OnTime, DueTime
        <3>2. ~(p.at < c.firstRunAt.at)
            BY <1>1, <1>2, <2>4
        <3> QED BY <1>7, <2>1, <2>2, <2>4, <3>1, <3>2
    <2>5. CASE p.at >= c.firstRunAt.at /\ c.cadence = "weekly"
        <3>1. DueTime(c, r)
            BY <1>7, <2>2, <2>5 DEF Off, DueTime
        <3>2. ~(p.at < c.firstRunAt.at)
            BY <1>1, <1>2, <2>5
        <3> QED BY <1>7, <2>1, <2>2, <2>5, <3>1, <3>2
    <2> QED BY <1>1, <1>2, <2>3, <2>4, <2>5
<1>8. CASE c.catchUpPolicy = "catch_up_latest_only"
    <2> DEFINE latest == ComputeLatestRunOnOrBefore(c, p, Nil)
    <2>1. ResumedNextRun(p) = IF latest = Nil THEN c.firstRunAt ELSE latest
        BY <1>8 DEF ResumedNextRun
    <2>2. /\ p.at < c.firstRunAt.at => latest = Nil
          /\ p.at >= c.firstRunAt.at =>
               /\ latest # Nil /\ OnTime(c, latest)
               /\ p.zone = 0 \/ c.cadence = "interval" => IsLast(c, p.at, latest.at)
        BY <1>1, <1>3, LatestIsLastOccurrence
    <2> HIDE DEF latest
    <2>3. CASE p.at < c.firstRunAt.at
        BY <1>4, <1>8, <2>1, <2>2, <2>3
    <2>4. CASE p.at >= c.firstRunAt.at
        <3>1. DueTime(c, latest)
            BY <2>2, <2>4 DEF OnTime, DueTime
        <3>2. ~(p.at < c.firstRunAt.at)
            BY <1>1, <1>2, <2>4
        <3> QED BY <1>8, <2>1, <2>2, <2>4, <3>1, <3>2
    <2> QED BY <1>1, <1>2, <2>3, <2>4
<1> QED
    BY <1>5, <1>6, <1>7, <1>8

(* Every operation leaves the schedule and its executions on its           *)
(* recurrence.                                                             *)
LEMMA TimesKept ==
    ASSUME TimesInv, [Next]_vars
    PROVE  TimesInv'
<1> USE DEF Statuses
<1>1. config \in Configs
    BY DEF TimesInv
<1>2. config' = config
    BY DEF Next, CreateSchedule, PauseSchedule, ResumeSchedule, ClaimExecution, EndExecution, vars
<1>3. Nil # "active" /\ Nil # "paused"
    BY NilAssumption
<1>4. CASE CreateSchedule
    <2>1. nextRunAt' = ComputeNextRunOnOrAfter(config, config.firstRunAt)
        BY <1>4 DEF CreateSchedule
    <2>2. DueTime(config, nextRunAt')
        BY <1>1, <2>1, FirstDue DEF OnTime, DueTime
    <2>3. status' = "active" /\ inFlight' = inFlight /\ ended' = ended
          /\ inFlight \cup ended = {}
        BY <1>4 DEF CreateSchedule, TimesInv
    <2> QED BY <1>1, <1>2, <2>2, <2>3 DEF TimesInv
<1>5. CASE PauseSchedule
    <2>1. status = "active" /\ status' = "paused" /\ nextRunAt' = Nil
          /\ inFlight' = inFlight /\ ended' = ended
        BY <1>5 DEF PauseSchedule
    <2> QED BY <1>2, <1>3, <2>1 DEF TimesInv
<1>6. ASSUME NEW p \in ProposedTimes, ResumeSchedule(p) PROVE TimesInv'
    <2>1. status = "paused" /\ status' = "active" /\ nextRunAt' = ResumedNextRun(p)
          /\ inFlight' = inFlight /\ ended' = ended
        BY <1>6 DEF ResumeSchedule
    <2>2. nextRunAt' # Nil => DueTime(config, nextRunAt')
        BY <2>1, ResumedOnTime
    <2> QED BY <1>2, <1>3, <2>1, <2>2 DEF TimesInv
<1>7. CASE ClaimExecution
    <2>1. status = "active" /\ nextRunAt # Nil /\ inFlight' = inFlight \cup {nextRunAt}
          /\ status' = status /\ nextRunAt' = nextRunAt /\ ended' = ended
        BY <1>7 DEF ClaimExecution
    <2> QED BY <1>2, <1>3, <2>1 DEF TimesInv
<1>8. ASSUME NEW t \in inFlight, EndExecution(t) PROVE TimesInv'
    <2>1. inFlight' = inFlight \ {t} /\ ended' = ended \cup {t} /\ status' = status
          /\ nextRunAt' = IF status = "active" THEN ComputeNextRunAfter(config, t)
                          ELSE nextRunAt
        BY <1>8 DEF EndExecution
    <2>2. DueTime(config, t)
        BY <1>8 DEF TimesInv
    <2>3. DueTime(config, ComputeNextRunAfter(config, t))
        BY <1>1, <2>2, AfterOwnInstant
    <2>4. nextRunAt' # Nil => DueTime(config, nextRunAt')
        BY <2>1, <2>3 DEF TimesInv
    <2>5. \E m \in ended' : \A u \in ended' : u.at <= m.at
        <3>1. t.at \in Int /\ \A u \in ended : u.at \in Int
            BY <1>1, <2>2, DueTimeIsTime DEF TimesInv
        <3>2. CASE ended = {}
            BY <2>1, <3>1, <3>2
        <3>3. CASE ended # {}
            <4>1. PICK m \in ended : \A u \in ended : u.at <= m.at
                BY <3>3 DEF TimesInv
            <4>2. CASE t.at <= m.at
                BY <2>1, <4>1, <4>2
            <4>3. CASE t.at > m.at
                <5>1. \A u \in ended' : u.at <= t.at
                    BY <2>1, <3>1, <4>1, <4>3
                <5> QED BY <2>1, <5>1
            <4> QED BY <3>1, <4>2, <4>3
        <3> QED BY <3>2, <3>3
    <2>6. status # Nil
        BY <1>8 DEF TimesInv
    <2> QED BY <1>2, <2>1, <2>2, <2>4, <2>5, <2>6 DEF TimesInv
<1>9. CASE UNCHANGED vars
    BY <1>9 DEF TimesInv, vars
<1> QED
    BY <1>4, <1>5, <1>6, <1>7, <1>8, <1>9 DEF Next

(* No schedule and no execution is off the recurrence to begin with. *)
LEMMA TimesInitially ==
    ASSUME Init
    PROVE  TimesInv
<1>1. config \in Configs /\ status = Nil /\ nextRunAt = Nil /\ inFlight = {} /\ ended = {}
    BY DEF Init
<1> QED
    BY <1>1 DEF TimesInv

(* Before any execution has ended, the first occurrence is due. *)
LEMMA FirstDueOfAll ==
    ASSUME NEW c \in Configs
    PROVE  LET first == ComputeNextRunOnOrAfter(c, c.firstRunAt).at
           IN  /\ EndedBefore(c, first, {})
               /\ \A due : EndedBefore(c, due, {}) => due = first
<1> DEFINE first == ComputeNextRunOnOrAfter(c, c.firstRunAt).at
<1>1. first \in Nat /\ Occurs(c, first) /\ \A u \in Int : u < first => ~Occurs(c, u)
    BY FirstDue
<1> HIDE DEF first
<1>2. \A u \in 0..(first - 1) : ~Occurs(c, u)
    BY <1>1
<1>3. ASSUME NEW due, EndedBefore(c, due, {}) PROVE due = first
    <2>1. due \in Nat /\ Occurs(c, due) /\ {u \in 0..(due - 1) : Occurs(c, u)} = {}
        BY <1>3 DEF EndedBefore
    <2>2. ~(due < first)
        BY <1>1, <2>1
    <2>3. ~(first < due)
        BY <1>1, <2>1
    <2> QED BY <1>1, <2>1, <2>2, <2>3
<1>4. EndedBefore(c, first, {})
    BY <1>1, <1>2 DEF EndedBefore
<1> QED
    BY <1>3, <1>4 DEF first

(* The next occurrence after the latest one ended is the one that is due. *)
LEMMA DueAfterLatest ==
    ASSUME NEW c \in Configs, NEW due, NEW done, EndedBefore(c, due, done),
           NEW a \in done, \A u \in done : u.at \in Int /\ u.at <= a.at,
           NEW r \in Int, IsNext(c, a.at, r)
    PROVE  r = due
<1>1. a.at < r /\ Occurs(c, r)
      /\ \A u \in Int : a.at < u /\ u < r => ~Occurs(c, u)
    BY DEF IsNext
<1>2. a.at \in 0..(due - 1) /\ due \in Nat /\ Occurs(c, due)
    <2>1. a.at \in {t.at : t \in done}
        OBVIOUS
    <2> QED BY <2>1 DEF EndedBefore
<1>3. ~(due < r)
    BY <1>1, <1>2
<1>4. ~(r < due)
    <2>1. SUFFICES ASSUME r < due PROVE FALSE
        OBVIOUS
    <2>2. r \in {t.at : t \in done}
        BY <1>1, <1>2, <2>1 DEF EndedBefore
    <2>3. PICK t \in done : t.at = r
        BY <2>2
    <2> QED BY <1>1, <1>2, <2>3
<1> QED
    BY <1>1, <1>2, <1>3, <1>4

(* When the execution that was due has ended, the next occurrence is. *)
LEMMA DueWhenEnded ==
    ASSUME NEW c \in Configs, NEW done, NEW t, EndedBefore(c, t.at, done),
           NEW r \in Int, IsNext(c, t.at, r)
    PROVE  EndedBefore(c, r, done \cup {t})
<1>1. t.at < r /\ Occurs(c, r)
      /\ \A u \in Int : t.at < u /\ u < r => ~Occurs(c, u)
    BY DEF IsNext
<1>2. t.at \in Nat /\ Occurs(c, t.at)
      /\ {v.at : v \in done} = {u \in 0..(t.at - 1) : Occurs(c, u)}
    BY DEF EndedBefore
<1>3. {v.at : v \in done \cup {t}} = {v.at : v \in done} \cup {t.at}
    OBVIOUS
<1>4. \A u \in 0..(r - 1) : Occurs(c, u) <=> (u \in 0..(t.at - 1) /\ Occurs(c, u)) \/ u = t.at
    BY <1>1, <1>2
<1>5. {u \in 0..(r - 1) : Occurs(c, u)} = {u \in 0..(t.at - 1) : Occurs(c, u)} \cup {t.at}
    BY <1>1, <1>2, <1>4
<1> QED
    BY <1>1, <1>2, <1>3, <1>5 DEF EndedBefore

(* To begin with, the first occurrence is due. *)
LEMMA CatchUpInitially ==
    ASSUME Init
    PROVE  CatchUpInv
<1>1. config \in Configs /\ nextRunAt = Nil /\ inFlight = {} /\ ended = {}
    BY DEF Init
<1>2. EndedBefore(config, ComputeNextRunOnOrAfter(config, config.firstRunAt).at, ended)
    BY <1>1, FirstDueOfAll
<1> QED
    BY <1>1, <1>2 DEF CatchUpInv

(* Every operation leaves the same occurrence due, or the next when it has *)
(* ended.                                                                  *)
LEMMA CatchUpKept ==
    ASSUME TimesInv, CatchUpInv, [Next]_vars
    PROVE  CatchUpInv'
<1>1. config \in Configs /\ config' = config
    BY DEF TimesInv, Next, CreateSchedule, PauseSchedule, ResumeSchedule, ClaimExecution,
           EndExecution, vars
<1>2. SUFFICES ASSUME config.catchUpPolicy = "catch_up_all"
               PROVE  \E due : /\ EndedBefore(config, due, ended')
                               /\ \A t \in inFlight' : t.at = due
                               /\ nextRunAt' # Nil => nextRunAt'.at = due
    BY <1>1 DEF CatchUpInv
<1>3. PICK due : /\ EndedBefore(config, due, ended)
                 /\ \A t \in inFlight : t.at = due
                 /\ nextRunAt # Nil => nextRunAt.at = due
    BY <1>2 DEF CatchUpInv
<1>4. CASE CreateSchedule
    <2>1. /\ nextRunAt' = ComputeNextRunOnOrAfter(config, config.firstRunAt)
          /\ inFlight' = inFlight /\ ended' = ended /\ ended = {}
        BY <1>4 DEF CreateSchedule, TimesInv
    <2>2. due = ComputeNextRunOnOrAfter(config, config.firstRunAt).at
        BY <1>1, <1>3, <2>1, FirstDueOfAll
    <2> QED BY <1>3, <2>1, <2>2
<1>5. CASE PauseSchedule
    BY <1>3, <1>5 DEF PauseSchedule
<1>6. ASSUME NEW p \in ProposedTimes, ResumeSchedule(p)
      PROVE  \E d : /\ EndedBefore(config, d, ended')
                    /\ \A t \in inFlight' : t.at = d
                    /\ nextRunAt' # Nil => nextRunAt'.at = d
    <2>1. nextRunAt' = ResumedNextRun(p) /\ inFlight' = inFlight /\ ended' = ended
        BY <1>6 DEF ResumeSchedule
    <2>2. ResumedNextRun(p) = IF ended = {}
                              THEN ComputeNextRunOnOrAfter(config, config.firstRunAt)
                              ELSE ComputeNextRunAfter(config, Anchor)
        BY <1>2, ResumedOnTime
    <2>3. CASE ended = {}
        <3>1. due = ComputeNextRunOnOrAfter(config, config.firstRunAt).at
            BY <1>1, <1>3, <2>3, FirstDueOfAll
        <3> QED BY <1>3, <2>1, <2>2, <2>3, <3>1
    <2>4. CASE ended # {}
        <3>1. Anchor \in ended /\ DueTime(config, Anchor)
              /\ \A u \in ended : u.at \in Int /\ u.at <= Anchor.at
            BY <1>1, <2>4, AnchorIsLatest, DueTimeIsTime DEF TimesInv
        <3>2. PICK r : r = ComputeNextRunAfter(config, Anchor)
            OBVIOUS
        <3>3. Occurs(config, Anchor.at)
            <4>1. Anchor.at \in {t.at : t \in ended}
                BY <3>1
            <4> QED BY <1>3, <4>1 DEF EndedBefore
        <3>5. IsNext(config, Anchor.at, r.at) /\ r.at \in Int
            BY <1>1, <3>1, <3>2, <3>3, AfterOwnInstant DEF DueTime
        <3>4. r.at = due
            BY <1>1, <1>3, <3>1, <3>5, DueAfterLatest
        <3> QED BY <1>3, <2>1, <2>2, <2>4, <3>2, <3>4
    <2> QED BY <2>3, <2>4
<1>7. CASE ClaimExecution
    <2>1. nextRunAt # Nil /\ inFlight' = inFlight \cup {nextRunAt}
          /\ nextRunAt' = nextRunAt /\ ended' = ended
        BY <1>7 DEF ClaimExecution
    <2> QED BY <1>3, <2>1
<1>8. ASSUME NEW t \in inFlight, EndExecution(t)
      PROVE  \E d : /\ EndedBefore(config, d, ended')
                    /\ \A v \in inFlight' : v.at = d
                    /\ nextRunAt' # Nil => nextRunAt'.at = d
    <2>1. inFlight' = inFlight \ {t} /\ ended' = ended \cup {t} /\ status' = status
          /\ nextRunAt' = IF status = "active" THEN ComputeNextRunAfter(config, t)
                          ELSE nextRunAt
        BY <1>8 DEF EndExecution
    <2>2. PICK r : r = ComputeNextRunAfter(config, t)
        OBVIOUS
    <2>3. t.at = due /\ DueTime(config, t) /\ Occurs(config, t.at)
        BY <1>3, <1>8 DEF TimesInv, EndedBefore
    <2>4. IsNext(config, t.at, r.at) /\ r.at \in Int
        BY <1>1, <2>2, <2>3, AfterOwnInstant DEF DueTime
    <2>5. EndedBefore(config, r.at, ended')
        BY <1>1, <1>3, <2>1, <2>3, <2>4, DueWhenEnded
    <2>6. inFlight' = {}
        BY <1>3, <2>1, <2>3 DEF TimesInv, DueTime
    <2>7. nextRunAt' # Nil => nextRunAt' = r
        BY <2>1, <2>2 DEF TimesInv
    <2> QED BY <2>5, <2>6, <2>7
<1>9. CASE UNCHANGED vars
    BY <1>3, <1>9 DEF vars
<1> QED
    BY <1>4, <1>5, <1>6, <1>7, <1>8, <1>9 DEF Next

-----------------------------------------------------------------------------
(* The properties. *)

(* The invariant holds of every history of the schedule. *)
LEMMA Invariant == Spec => []IInv
<1>1. Init => IInv
    BY TimesInitially, CatchUpInitially DEF IInv
<1>2. IInv /\ [Next]_vars => IInv'
    BY TimesKept, CatchUpKept DEF IInv
<1> QED
    BY <1>1, <1>2, PTL DEF Spec

(* Whatever was paused, resumed or ended late, a schedule is only due at   *)
(* instants of its recurrence: all that moves next_run_at starts from an   *)
(* instant of the recurrence or finds one. Only the day of the week of a   *)
(* skip_missed schedule and the first run of a monthly one may be off it.  *)
THEOREM OnlyDueAtOccurrences == Spec => []DueAtOccurrences
<1>1. IInv => DueAtOccurrences
    BY OnConfig DEF IInv, TimesInv, DueTime, DueAtOccurrences
<1> QED
    BY <1>1, Invariant, PTL

(* A catch_up_all schedule leaves no occurrence out and repeats none, in   *)
(* any cadence: a late end and a resume move it to the same occurrence.    *)
THEOREM NoOccurrenceLeftOut == Spec => []CatchUpAllInOrder
<1>1. ASSUME IInv PROVE CatchUpAllInOrder
    <2>1. SUFFICES ASSUME config.catchUpPolicy = "catch_up_all", nextRunAt # Nil
                   PROVE  {u \in 0..(nextRunAt.at - 1) : Occurrence(u)} = {t.at : t \in ended}
        BY DEF CatchUpAllInOrder
    <2>2. EndedBefore(config, nextRunAt.at, ended)
        BY <1>1, <2>1 DEF IInv, CatchUpInv
    <2>3. {u \in 0..(nextRunAt.at - 1) : Occurrence(u)}
          = {u \in 0..(nextRunAt.at - 1) : Occurs(config, u)}
        BY OnConfig
    <2> QED BY <2>2, <2>3 DEF EndedBefore
<1> QED
    BY <1>1, Invariant, PTL

(* What a resume finds, in terms of the property. *)
Nearest(p, due) ==
    LET first == config.firstRunAt.at
    IN  /\ OnTimetable(first) => due >= first
        /\ config.catchUpPolicy = "skip_missed" =>
             /\ due > p.at
             /\ config.cadence # "weekly" => NoneBetween(p.at, due)
             /\ config.cadence = "weekly" =>
                  \/ p.at < first /\ due = first
                  \/ /\ due <= p.at + DaysPerWeek * TicksPerDay
                     /\ Weekday(UTC(due)) = Weekday(p)
        /\ config.catchUpPolicy = "catch_up_latest_only" =>
             \/ p.at < first /\ due = first
             \/ due <= p.at /\ NoneBetween(due, p.at + 1)

LEMMA NearestFound ==
    ASSUME IInv, NEW p \in ProposedTimes, ResumeSchedule(p), nextRunAt' # Nil,
           p.zone = 0 \/ config.cadence = "interval"
    PROVE  Nearest(p, nextRunAt'.at)
<1> DEFINE first == config.firstRunAt.at
<1>1. TimesInv /\ config \in Configs
    BY DEF IInv, TimesInv
<1>2. first \in Nat /\ p.at \in Int
    BY <1>1, FirstIsOn, TimesAssumption
<1>3. PICK r : r = ResumedNextRun(p) /\ nextRunAt' = r /\ r # Nil
    BY DEF ResumeSchedule
<1>4. /\ r.at \in Int
      /\ config.catchUpPolicy \in {"catch_up_all", "skip_missed", "catch_up_latest_only"}
      /\ config.catchUpPolicy = "catch_up_all" =>
           r = IF ended = {} THEN ComputeNextRunOnOrAfter(config, config.firstRunAt)
               ELSE ComputeNextRunAfter(config, Anchor)
      /\ config.catchUpPolicy = "skip_missed" =>
           IF p.at < first THEN r = config.firstRunAt
           ELSE IF config.cadence = "weekly" THEN WithinWeek(p, r.at)
           ELSE IsNext(config, p.at, r.at)
      /\ config.catchUpPolicy = "catch_up_latest_only" =>
           IF p.at < first THEN r = config.firstRunAt ELSE IsLast(config, p.at, r.at)
    BY <1>1, <1>3, ResumedOnTime DEF DueTime
<1>5. \A u \in Int : u < first => ~Occurrence(u)
    BY <1>2 DEF Occurrence
<1>6. CASE config.catchUpPolicy = "catch_up_all"
    <2>1. Occurs(config, r.at)
        <3>1. CASE ended = {}
            BY <1>1, <1>4, <1>6, <3>1, FirstDue
        <3>2. CASE ended # {}
            <4>1. DueTime(config, Anchor) /\ Anchor \in ended
                BY <1>1, <3>2, AnchorIsLatest DEF TimesInv
            <4>2. Occurs(config, Anchor.at)
                <5>1. PICK due : EndedBefore(config, due, ended)
                    BY <1>6 DEF IInv, CatchUpInv
                <5>2. Anchor.at \in {t.at : t \in ended}
                    BY <4>1
                <5> QED BY <5>1, <5>2 DEF EndedBefore
            <4>3. IsNext(config, Anchor.at, ComputeNextRunAfter(config, Anchor).at)
                BY <1>1, <4>1, <4>2, AfterOwnInstant
            <4> QED BY <1>4, <1>6, <3>2, <4>3 DEF IsNext
        <3> QED BY <3>1, <3>2
    <2> QED BY <1>3, <1>6, <2>1 DEF Nearest, Occurs
<1>7. CASE config.catchUpPolicy = "skip_missed"
    <2>1. CASE p.at < first
        <3>1. r.at = first
            BY <1>4, <1>7, <2>1
        <3>2. NoneBetween(p.at, first)
            BY <1>2, <1>5 DEF NoneBetween
        <3> QED BY <1>2, <1>3, <1>7, <2>1, <3>1, <3>2 DEF Nearest
    <2>2. CASE ~(p.at < first) /\ config.cadence = "weekly"
        <3>1. WithinWeek(p, r.at)
            BY <1>4, <1>7, <2>2
        <3>2. r.at > p.at /\ r.at >= first
            BY <1>2, <1>4, <2>2, <3>1 DEF WithinWeek
        <3> QED BY <1>3, <1>7, <2>2, <3>1, <3>2 DEF Nearest, WithinWeek
    <2>3. CASE ~(p.at < first) /\ config.cadence # "weekly"
        <3>1. /\ r.at > p.at
              /\ \A u \in Int : p.at < u /\ u < r.at => ~Occurs(config, u)
            BY <1>4, <1>7, <2>3 DEF IsNext
        <3>2. \A u \in (p.at + 1)..(r.at - 1) : ~Occurs(config, u)
            BY <1>2, <1>4, <3>1
        <3>3. NoneBetween(p.at, r.at)
            BY <3>2, OnConfig DEF NoneBetween
        <3>4. r.at >= first
            BY <1>2, <1>4, <2>3, <3>1
        <3> QED BY <1>3, <1>7, <2>3, <3>1, <3>3, <3>4 DEF Nearest
    <2> QED BY <2>1, <2>2, <2>3
<1>8. CASE config.catchUpPolicy = "catch_up_latest_only"
    <2>1. CASE p.at < first
        <3>1. r.at = first
            BY <1>4, <1>8, <2>1
        <3> QED BY <1>2, <1>3, <1>8, <2>1, <3>1 DEF Nearest
    <2>2. CASE ~(p.at < first)
        <3>1. /\ r.at <= p.at
              /\ \A u \in Int : r.at < u /\ u <= p.at => ~Occurs(config, u)
            BY <1>4, <1>8, <2>2 DEF IsLast
        <3>2. \A u \in (r.at + 1)..((p.at + 1) - 1) : ~Occurs(config, u)
            BY <1>2, <1>4, <3>1
        <3>3. NoneBetween(r.at, p.at + 1)
            BY <3>2, OnConfig DEF NoneBetween
        <3>4. OnTimetable(first) => Occurs(config, first)
            BY <1>2, OnConfig DEF Occurs
        <3>5. OnTimetable(first) => r.at >= first
            BY <1>2, <1>4, <2>2, <3>1, <3>4
        <3> QED BY <1>3, <1>8, <3>1, <3>3, <3>5 DEF Nearest
    <2> QED BY <2>1, <2>2
<1> QED
    BY <1>4, <1>6, <1>7, <1>8

(* A schedule resumed by a proposer whose clock shows UTC is due for the   *)
(* nearest occurrence its policy asks for; a weekly one that skips what it *)
(* missed, within a week on the day of the week it is resumed on.          *)
THEOREM ResumedToNearest == Spec => ResumeFindsNearest
<1>1. IInv /\ [Next]_vars =>
        [\A p \in ProposedTimes :
           ResumeSchedule(p) /\ nextRunAt' # Nil
           /\ (p.zone = 0 \/ config.cadence = "interval") =>
              LET due == nextRunAt'.at
                  first == config.firstRunAt.at
              IN  /\ OnTimetable(first) => due >= first
                  /\ config.catchUpPolicy = "skip_missed" =>
                       /\ due > p.at
                       /\ config.cadence # "weekly" => NoneBetween(p.at, due)
                       /\ config.cadence = "weekly" =>
                            \/ p.at < first /\ due = first
                            \/ /\ due <= p.at + DaysPerWeek * TicksPerDay
                               /\ Weekday(UTC(due)) = Weekday(p)
                  /\ config.catchUpPolicy = "catch_up_latest_only" =>
                       \/ p.at < first /\ due = first
                       \/ due <= p.at /\ NoneBetween(due, p.at + 1)]_vars
    BY NearestFound DEF Nearest
<1> QED
    BY <1>1, Invariant, PTL DEF Spec, ResumeFindsNearest
=============================================================================
