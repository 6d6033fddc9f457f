# TLA+ development for the raft scheduler

This directory specifies and verifies the distributed scheduler in `src/`: a
Go service in which a raft group replicates a database of tenants, schedules,
executions and attempts, and the raft leader runs a loop that claims due
occurrences, sends their HTTP callbacks, and records what came of them.

* [The system](#the-system): components, state, operations, what is hard
* [The modules](#the-modules): which module models which part
* [The runs](#the-runs): what TLC checks, on which instances, and why they suffice
* [Fairness](#fairness)
* [Disagreements found](#disagreements-found)
* [The proofs](#the-proofs)
* [Not modelled](#not-modelled) and [the plan](#the-plan)

Paths below are relative to `src/internal/`.

## The system

### Components

| component | source | state | operations |
|---|---|---|---|
| command handlers | `command/*.go` | none; they map a bolt transaction to its writes | `Dispatch` and one `Apply*` per command: `create_tenant`, `create_schedule`, `update_schedule`, `pause_schedule`, `resume_schedule`, `cancel_schedule`, `claim_execution`, `adopt_execution`, `record_attempt`, `complete_execution`, `fail_execution_timeout` |
| state machine | `statemachine/statemachine.go` | the bolt database | `Apply` (one entry, one transaction), `Snapshot`, `Persist`, `Restore` |
| storage | `storage/storage.go` | tenants, schedules, executions, attempts, and the index buckets (executions by schedule and by status, attempts by execution) | `Put*`, `Get*`, `List*` |
| rows | `model/schedule.go`, `execution.go`, `attempt.go`, `tenant.go` | the fields of the rows and their enumerations | |
| recurrence | `model/recurrence.go` | none | first occurrence on or after, strictly after, and last on or before an instant, for interval, daily, weekly and monthly cadences |
| raft node | `raftnode/raftnode.go` | hashicorp/raft, its stores and transport | `Propose`, leader-only reads, bootstrap, `Shutdown` |
| supervisor | `scheduler/supervisor.go` | `sv.cancel`, a wait group | start the leader loop when elected, stop and await it when deposed or shut down |
| worker | `scheduler/worker.go` | the context, the task queue, the pool | `Run`: `runRecover` (adopt or complete what is in flight), then `runTick` on a ticker (list due schedules, claim, scan what is in flight, wait), `freshFireTask.run`, `runRetry`, `runFinalize` |
| callback calls | `http.Client` in `scheduler/worker.go` | none | one POST with the schedule's `call_timeout`; the status code, or an error, is the outcome |
| node | `node/node.go`, `cmd/scheduler/main.go` | the parts | start the parts in order, stop them in reverse |
| configuration | `config/config.go` | flags | parsing |
| stubs | `scheduler/scheduler.go`, `api/api.go`, `callback/callback.go` | none | empty types; nothing in the repository builds the supervisor or serves clients yet, so `Supervisor` and `Worker` are modelled as their own code and tests run them |

### How they interact

Writes go through the log: a worker (or, one day, an API handler) calls
`RaftNode.Propose`; raft commits the entry; every node's `StateMachine.Apply`
dispatches it to a handler inside one bolt transaction; `Propose` returns the
handler's answer, or an error that does not say whether the entry was
committed.  A handler that refuses returns a `CommandError`, which rolls the
transaction back and is not an error of raft.  Reads go straight to the node's
own database, and are refused only when `raft.State()` is not `Leader`.  Raft
tells the supervisor of its leadership through a channel with one slot in which
a newer value replaces an older one; the supervisor and the worker share a
context and a wait group; the ticks and the pool share a queue and a second
wait group.

### What is hard

* Two nodes may both run a leader loop for a while: a deposed leader still
  drains its callbacks, and raft does not stop it from proposing, only from
  committing.
* A restarted node has its database, but not how far the log was applied to it:
  raft applies the log again, onto rows from its own future.
* The wall clock that stamps an entry is shown in the leader's time zone, and
  the calendar functions take its date for a date in UTC.
* Everything the loop decides, it decides on rows read earlier: the due
  instant it claims, the owner it adopts from, the attempt count that makes a
  failure terminal.
* A claim leaves `next_run_at` where it is, so one occurrence is offered again
  and again until its execution ends.
* The pair `status` / `next_run_at` of a schedule is written by six handlers
  that may come in any order; completing an execution writes the schedule, too.
* A process may stop between recording the last attempt and completing the
  execution; a lost answer looks the same.
* ULIDs made on different nodes order the attempts of an execution by wall
  clocks, not by the log.

`PROJECT.json` lists these and the rest under `hazards`, at their lines.

### What makes each component correct

| component | properties |
|---|---|
| handlers, state machine | an occurrence has at most one execution; an ended execution never changes; attempts are appended by the owner, numbered without gap, summarised exactly; a stopped schedule is due at no instant, and an active one at one if its policy is known; a schedule runs only at instants of its recurrence; a one-time schedule runs once; `catch_up_all` leaves nothing out |
| recurrence | the functions return the nearest occurrence in the direction they name, and skip none |
| supervisor | never two leader loops on a node; a deposed or cancelled one ends; an elected node runs one |
| worker | no two callbacks of one execution at once on a node; a verdict is that of an attempt; the summary and the keys name the same last attempt; what was attempted is brought to an end; what it proposes is a log of the state machine |
| worker's pool | `Run` returns with nothing queued or running; ticks do not overlap; whatever panics, everything due is reached |
| schedule over a calendar | due only on its grid; a resume finds the nearest occurrence; `catch_up_all` leaves nothing out, for every cadence |
| state machine across restarts | replays and snapshots keep the rows sound, leave ended executions alone, and lead to the statuses the log defines |
| storage | the index buckets list exactly the rows they should; the attempt a row names as its last is on the list |
| node | raft never runs without its stores; no process is left waiting for one |

## The modules

```
Recurrence <- Commands <- StateMachine <- Worker <- MCWorker
    ^            ^  |         ^--- MCStateMachine
    |            |  `- INSTANCE Occurrences   (the abstract promise)
    |            `- Replication <- MCReplication   (INSTANCE StateMachine per node)
    `- Calendar <- Timetable <- MCTimetable
Storage <- MCStorage
Supervisor      Pool -- INSTANCE Runner   (what the supervisor relies on)
    ^--- Pool_proofs ---^
Startup
Commands_proofs <- StateMachine_proofs <- Worker_proofs
                <- Replication_proofs
Timetable_proofs, Storage_proofs, Startup_proofs
```

**`Recurrence`** has the three functions of the interval cadence.  Instants are
whole seconds from an arbitrary origin, so the float quotients and `math.Ceil`
/ `math.Floor` of the source are integer division (`FloorOfQuotient`).  The interval
is whatever integer the client gave, zero and negative included.

**`Commands`** has the rows and the handlers.  A handler `Apply*` maps the
database `tx` to the database after the entry; the conjunction of the checks it
makes first is its `*Accepted` predicate.  `CompleteExecution` and
`FailExecutionTimeout` share `EndExecution`, as their bodies are the same up to
the status.  Rows keep the fields some handler or the worker reads back; a key
`(tenant, id)` is one element of an id set, and the lists of the index buckets
are derived from the rows.  A schedule's type, policy and interval are stored as the
client sent them: `"unknown"` stands for every string the source has no name for, and
a recurring schedule without an interval panics in its handler
(`CreateSchedulePanics`).  No update of a schedule's recurrence is modelled
because `ApplyUpdateSchedule` copies none: it replaces callback fields, the
attempt limit and back-off only.

**`StateMachine`** is the log.  Its steps are the committed entries, in every
order: a worker is represented by what it may propose at all, with no
assumption on who believes to lead, whose replica is stale, or whose clock is
right.  `offered[s]` accumulates every `next_run_at` the schedule ever had and
that some reader may still hold; a claim is for any of them.  `stamp` is the
`proposedAt` of the last entry.  An entry a handler refuses rolls back, which is
a stuttering step.

**`Occurrences`** is what the scheduler promises about occurrences, with nothing
about schedules, owners, or replicas: started at most once, attempted, ended
once.  `StateMachine!RunOf` maps an execution to a run, and
`ImplementsOccurrences` is the abstract specification under that mapping.

**`Supervisor`** is `Supervisor.Run`: the select, `startWorker`, `stopWorker`
cut in two at `wg.Wait`, the `ctx.Done` branch, likewise cut, raft's one-slot
channel, and worker goroutines that may fail by themselves when `WorkersFail`.

**`Worker`** puts the leader loops of several nodes above the log of
`StateMachine`.  A node has a replica `seen[n]` (what it reads), a
leadership channel, a loop with a program counter
(`recover`, `adopt`, `idle`, `claim`, `scan`, `wait`, `drain`) and the list it
is working through (`todo`), and a set of tasks, each at a step (`queued`,
`calling`, `record`, `complete`).  One action is one step between two
observable points: a list read, a proposal and its outcome, the sending of a
callback, its return.

| actions | code |
|---|---|
| `ListInFlight`, `AdoptOrComplete` | `runRecover`, `classifyOne`, `adoptOrComplete` |
| `ListDue`, `Claim` | `runTick` up to the end of the claims |
| `ScanInFlight`, `SkipScan`, `EndTick` | the rest of `runTick` |
| `Dispatch`, `CallReturns`, `CallCanceled`, `Record`, `Complete` | `freshFireTask.run`, `runRetry`, with their returns before the call: the schedule is not active, or no request can be built |
| `Finalize`, `Complete` | `runFinalize` |
| `Answered`, `Unanswered` | `RaftNode.Propose`: committed and answered; committed with the leadership lost; never in the log |
| `StartLoop`, `StopLoop`, `Drained`, `GiveUp` | what a worker sees of the supervisor, the early returns on a done context or a failed read |
| `Elect`, `StepDown`, `Replicate`, `Stop`, `Client` | raft, the operating system, clients (external) |

A process that stops stays down here.  One that is started again replays its log
onto the database it kept, which is no prefix of anything the log went through, and
that is module `Replication`, where workers propose from any database any node ever
showed.  `Client` has every entry clients send: creates, and those of `update`,
`pause`, `resume` and `cancel` that `ClientCommands` names.  `ClocksAgree` states an
assumption about the surroundings, so that a property can be checked with and without
it: ULIDs made later in the log are larger.  A new leader reads its replica as it is:
raft's `State()` is `Leader` before the entries of older terms are applied, and the
node calls no barrier.

**`Calendar`** has the daily, weekly and monthly cadences, in the source's three
directions.  A `time.Time` is an instant and a zone: dates and clocks are read
in the zone and put together again in UTC, and what is below a second is lost,
as `time.Date` is called with it.  The calendar is a parameter: ticks a day and
the lengths of the months of a year.

**`Timetable`** is one recurring schedule over that calendar: create, pause,
resume by a proposal made at any instant in any zone, claim, and the end of an
execution.  `Occurrence` says what the recurrence means without a search.
`OffTimetable` names the two ways in which the code leaves that grid (items 5 and 17
below), and `ConfigsAssumption` the first runs its properties are not about (items 9
and 10).

**`Replication`** is the log and, on each node, the bolt file `scheduler.db` and
the process above it.  `Dispatch` is that of the source, over the handlers of
`Commands`.  `reference[i]` is the database a node has that applied each entry
once; `disk[r]` is node `r`'s file.

| actions | code |
|---|---|
| `ProposeByClient`, `ProposeByWorker` | `Propose`; a worker acts on any database some node showed, replaying ones included |
| `Apply`, `PanicInApply` | `StateMachine.Apply`; the second when the transaction cannot be begun or the handler panics (`EntryPanics`) |
| `Snapshot` | `Snapshot`, `Persist` |
| `Restart` | `New`, and raft's restore of the newest snapshot: applied again from there, or from the start |
| `InstallSnapshot` | `Restore`, of a snapshot from the leader |

**`Storage`** is the rows and index buckets of executions and attempts, below
the handlers: keys joined from ids that may contain colons, `PutExecution` and
`PutAttempt` with all the buckets they touch, the three lists, and bolt's
transactions with their puts one by one, beside readers.  An entry may be applied
again, as it is after a restart.

**`Pool`** is `Worker.Run` as goroutines and channels: the loop's select, the
tick that counts and sends its tasks, the buffered channel, the goroutines that
receive, panics and errors that are counted off, and the two waits.  **`Runner`**
is what the supervisor takes a leader loop for; `RunsAsSupervised` is that
specification under the mapping `running`, `told`.

**`Startup`** is the life of a node's processes: the files `New` opens in their
order, `NewRaft`, the bootstrap, `Shutdown`, crashes, and the lock bolt takes on
each file.  `storage.New` waits for its lock for a second; the raft stores are
opened without a timeout.

### Abstractions

* Two of a task's steps are one action where nothing between them can be
  observed: a check of the context and the proposal that follows it.
* In `Worker` the queue and the pool are a set of tasks; the channel, its bound
  and the goroutines are module `Pool`, which knows only whether an execution
  is due.
* A clock appears as the set of due schedules or elapsed retries a scan finds,
  any subset: clocks are arbitrary.
* The tenants are scanned one after the other in the code and together in the
  model; the worker run has one tenant.
* Rows of tenants and schedules have no index bucket and are left to `Commands`;
  `Storage` has the execution fields that the indexes and the summary use.
* A bolt transaction is durable when it commits; one cut short has not happened.
* Supervisor and worker are modelled separately.  `Worker` has the two
  interactions that matter to it: a node re-elected while it still holds a loop
  does not start another (and so does not recover), and a loop that returned
  by itself is remembered until a deposition.

## The runs

Symmetry is over sets the specification never orders or names: nodes, row ids.
It is not declared in runs with liveness properties, and not over the attempt
ids of `Worker`, which are ordered as ULIDs are.

| run | question | instance |
|---|---|---|
| `handlers` | do the handlers, in any order, keep schedules, executions and attempts right? does the log implement `Occurrences`? | 1 schedule of each of the kinds: once; every 2 s under each policy and an unknown one; intervals and types nobody checked; 2 executions, 2 attempts, 2 nodes, clocks 0 and 4 |
| `advance` | a statement of the source, refuted | the same with `skip_missed` |
| `index` | a statement of the source, refuted | the same with an unknown policy |
| `loop` | a supervisor under every order of elections, depositions, failures and shutdown | 2 goroutine identities, workers fail |
| `worker_log` | do leader loops keep to the log, with lagging replicas, processes that stop, lost answers? | 2 nodes, 1 one-time schedule, limit 2, 2 attempts, `ClocksAgree` |
| `worker_clients` | is what has been attempted ended? with updates of the limit, pauses, resumes, cancels, lost elections | 1 node, recurring, 1 execution, limits 1 and 2, 4 attempts, `ClocksAgree`; fair |
| `cadences` | do the calendar functions and the handlers that use them keep a schedule on its recurrence? | 31 schedules of all cadences and policies, monthly ones that do not begin on their day included, 2 ticks a day, months of 9, 3 and 5 days, clocks over two weeks, some of them half a day east or west, 3 executions |
| `replay` | does a node that applies its log again come to the database the log defines? | 7 workloads: pauses and resumes of a `catch_up_all` schedule (6 entries); updates, pauses, resumes and cancels of a `skip_missed` one (5); updates and cancels of a one-time one whose execution ends late (5); everything that happens to executions (6); snapshots on two nodes (4); a schedule without an interval (3); one of a type without a name (5); 1 restart a node |
| `panic` | a statement of the source, refuted | the snapshot workload |
| `lists` | do the lists match the rows? is the last attempt on them? | 2 tenants, 2 schedules, 2 executions, 1 attempt, 1 reader; ids with colons |
| `pool` | does `Run` return when told, with nothing left? is everything due reached? | 4 executions, a channel of 1, 2 goroutines; fair |
| `locks` | what do the file locks of a node's processes guarantee? | 3 processes, 2 with `--bootstrap`, snapshots restored |

### What the passing runs say

* `OneExecutionPerOccurrence`: however many workers claim an occurrence, from
  however stale a read, one execution exists.
* `DueWhileActive`, `OnlyOccurrencesRun`, `OnceRunsOnce`, `CatchUpAllInOrder`:
  the four facts about schedules that need several handlers to hold.
  `CatchUpAllInOrder` has two halves: an occurrence becomes due only when all
  earlier ones have ended, and an active schedule is never due for one that has
  ended.  The second half fails for the other policies; see below.
  `DueWhileActive` names the policies for which an active schedule is due, and
  `OnlyOccurrencesRun` is about intervals that describe occurrences (`HasOccurrences`).
* `StoppedForGood`: a canceled or completed schedule is never active or due
  again, whatever ends late.
* `AttemptsMatchSummary`, `OwnedWhileInFlight`, `EndedIsFinal`,
  `AttemptsAppendOnly`: the execution rows, including a late report by a former
  owner and a second completion.
* `OneLeaderLoop`, `DeposedStops`, `ShutdownCompletes`, `ElectedRuns`: the
  supervisor.  The last one names the one way in which a lasting leader runs no
  loop: the loop it had failed, and is remembered.
* `WorkersMakeLog`: each entry a loop gets committed is one `StateMachine`
  allows, so that everything checked or proved about the log holds of the
  cluster.
* `OneCallPerNode`: the wait at the end of a tick keeps a tick's retries apart
  from the callbacks of the tick before.  Two nodes may call back for the same
  execution at the same time; the code does not exclude that.
* `EndsAsAttempted`: an execution ends only with a verdict some attempt gave.  More is
  not so.  A node may read a row that is an attempt behind (it was re-elected before
  its supervisor noticed, or an answer was lost and the log not yet applied), and count
  and call back from it; and `update_schedule` may lower the limit below what is on
  record.  So there may be more attempts than the limit, and one after a final one; the
  source promises neither.
* `FinalizeFindsFinal`: the attempt the scan judges an execution by and the one the
  finalize task finds under the last key are the same, if ULIDs follow the log.
  Disagreement 4 below is what happens otherwise.
* `AttemptedEnds`: an execution that its steady leader owns and that has been
  attempted does not stay in flight for good while its schedule is active, whatever
  `update_schedule` does to its limit.  Its premise, `RequestsCanBeBuilt`, is that a
  request can be built from the callback URL, which nothing checks: with one that
  cannot, each task ends without an attempt and the execution is due again at every tick.
* `DueAtOccurrences`, `ResumeFindsNearest`, `CatchUpAllInOrder` (of `Timetable`):
  the three families of functions agree on one grid, in months that are too
  short as well; resumes follow their policy.  Where the code leaves the grid, the
  properties say so and say what it does instead: a weekly `skip_missed` schedule is due
  at its time of day on some weekday within a week of the resume, a monthly one at its
  first run or a day of the month before it.
* `ReplayKeepsRowsSound`, `ReplayKeepsEnded`: at every point of a replay, however
  it is cut short, the database satisfies what `StateMachine` shows of one pass
  over the log, and an ended execution stays as it is.  `ReplayConverges`: a node
  that has caught up agrees with one that never stopped on every schedule's
  status and every execution's owner and end.  It says nothing of attempts and,
  but for one-time and `catch_up_all` schedules, of due instants; see below.
* `ListsMatchRows`, `LastAttemptIsListed`: the index buckets and transactions.  The
  worker reads an execution in one transaction and lists its attempts in a later one;
  the last attempt it saw is among them, entries applied again included.
* `ReturnsDrained`, `TicksDoNotOverlap`, `DueIsReached`, `RunsAsSupervised`: the
  channel, the pool and the two waits.  The tick blocks on a full channel without
  looking at its context; the pool empties it whatever happens.
* `NobodyWaitsForStores`, `RaftHasItsStores`: the order in which files are opened
  and closed keeps two processes of a node apart.  Without restored snapshots
  the lock on `scheduler.db` is a lock on the whole node; `Restore` gives it up,
  and then a second process hangs in `NewBoltStore` until the first is gone.

### Bounds, and why they are enough

* Two nodes: the claims are about a former owner and its successor.  A third
  node could only be another successor.  `worker_clients` has one, as the temporal
  check of two takes too long: it goes through losing and regaining its leadership,
  but not through adoption by another; with one node there is one clock.
* Two executions per schedule: one may have ended, or be in flight, while
  another is offered, with a pause and a resume in between.  The theorems below
  hold for any number of executions, schedules, attempts and nodes.
* Interval 2 with clocks 0 and 4: a resume before the first occurrence, and one
  beyond several occurrences and off the grid, so that the three policies differ.
  `RetryTimes = {1}`: the log never compares a retry instant, it only stores it.
* A limit of 2 attempts: the first attempt may be retried, the second is
  terminal.  `worker_clients` has limits 1 and 2, which an update swaps, and 4 attempt
  ids: two more than the larger limit.
* One schedule in `Worker`: loops treat schedules independently.
* Months of 9, 3 and 5 days: a week straddles their ends, days 5 and 8 are
  missing in some of them, and the two weeks of clocks cover a year.  Two ticks a
  day put `first_run_at` at midnight or noon, and zones half a day away on either
  side of a date.
* A log of 4 to 6 entries: enough for a claim, an end, a pause and a resume around
  a second claim, or for a pause and a resume before an end that moves the
  schedule on, all replayed; one restart a node, since a second replay starts from
  a database that the first may have reached.  The workload that updates and
  cancels a one-time schedule is the one in which a replay ends with another
  attempt limit (item 16 below).
* A channel of 1 and 2 goroutines against 4 executions: the tick blocks on the
  full channel.  Three processes: one that goes, one that waits, one that comes.
* `replay`, `panic`, `pool`, `locks` and the three runs of `Worker` do not check for
  deadlock: the log ends at its bound, `Run` returns, refused processes are not started
  again, and every process of a cluster may have stopped.  The other runs do: a pause or
  another entry is always possible.

## Fairness

`Supervisor`: the goroutine is scheduled (weak fairness of each branch), workers
whose context is cancelled return (each callback has a timeout), and the
`ctx.Done` branch is taken if it is ready again and again (strong fairness),
since a Go `select` picks among its ready cases at random.  Raft, the caller and
a worker's failure owe no step.

`Pool`: the loop and each goroutine of the pool are scheduled, a task ends (its
callback and its proposals have timeouts), the ticker fires (weak fairness), and
the `ctx.Done` case is taken if it is ready again and again (strong fairness).
Nobody owes a cancellation, and a task may fail every time.  `Runner` asks only
that `Run` returns once told.

`Worker`: goroutines of a node are scheduled and replicas catch up (weak
fairness of `LoopStep`, of the tasks of each execution, and of `Replicate`); a
proposal by a node that stays leader is not refused forever, and a retry instant
is reached by the clock of a scan that runs again and again (strong fairness of
`Record` and `Complete` succeeding and of a scan that finds every retry
elapsed).  Elections, clients and a process that stops owe no step; `AttemptedEnds`
speaks of behaviours in which one node eventually leads for good, and in which a task
that is dispatched over and over sends a request (`RequestsCanBeBuilt`).

## Disagreements found

Three have runs with `expect: violation`; each quotes the line it disagrees with.

1. `advance`: `ApplyCompleteExecution` (`command/execution.go:289`) moves
   `next_run_at` to the occurrence after the completed one, even when a resume
   in the meantime moved the schedule further on; `storage.go:346` says the put
   is "to advance next_run_at".  A consequence: a `skip_missed` or
   `catch_up_latest_only` schedule may be put back on an occurrence that has
   already run.  Every claim of it conflicts, nothing completes, and the
   schedule stays there until it is paused and resumed.  (In the trace a worker gets a
   claim in that it decided on before a pause; a resume and the completion follow.)
   Resuming a `catch_up_latest_only` schedule just after its latest occurrence
   completed has the same effect.  This is why `CatchUpAllInOrder` is stated for
   `catch_up_all` alone.
2. `panic`: `Restore` closes the database and opens the snapshot as `sm.db`
   (`statemachine.go:82`), but `Apply` and the readers go on through
   `sm.storage`, whose database is the closed one.  The next entry panics, and
   again after every restart.
3. `index`: `create_schedule` does not check the catch-up policy, and the switch of
   `resume_schedule` (`command/schedule.go:270`) has no default.  A recurring schedule
   whose policy is none of the three is active and due at no instant after a resume,
   which `worker.go:637` calls an index invariant violated and the test at
   `schedule_test.go:716` a failure.  No scan finds it again.

The others shape a property or an instance above, at the place named:

4. The last attempt by key is not the last one recorded if a clock was
   set back in between, or if the execution moved to a node whose clock is behind.
   `runFinalize` (`worker.go:338`) then finds a "non-terminal last attempt outcome"
   (`worker.go:350`) and returns, at every tick, and the execution stays in flight.
   Recovery finds the same and adopts it.  This is why `AttemptedEnds` and
   `FinalOutcomeIsFound` are stated under `ClocksAgree`: in the instance of `worker_log`,
   with `ClocksAgree = FALSE`, TLC finds `FinalizeFindsFinal` violated.
5. `computeWeeklyAfter` (`model/recurrence.go:118`) starts from the date of its
   argument without looking for `first_run_at`'s weekday: a weekly `skip_missed`
   schedule resumed on another day of the week moves to that day and stays there.  The
   tests have the two other directions keep the weekday (`recurrence_test.go:198`).  `DueAtOccurrences` and
   `ResumeFindsNearest` have it as an exception (`OffTimetable`).
6. Completing the execution of a canceled one-time schedule sets it to
   `completed` (`command/execution.go:295`), against "you cannot modify a
   canceled schedule" (`command/schedule.go:126`).  `StoppedForGood` is stated for
   the two statuses together.
7. A worker that returns an error leaves `sv.cancel` set, and the next election is
   refused as "already running" (`supervisor.go:30`): the exception of
   `ElectedRuns`.
8. `claimed_at` is not updated by an adoption (`command/execution.go:157`),
   against `storage.go:344`.  Nothing reads it.
9. The calendar functions drop fractions of a second (`recurrence.go:27`), so a
   `first_run_at` with a fraction lies after its own candidate and the schedule
   starts an occurrence late, where `schedule_test.go:164` expects it at
   `first_run_at`.  `cadences` has whole seconds (`TicksPerSecond = 1`).
10. `Propose` stamps entries with local time (`raftnode.go:252`), and the calendar
   functions read its date as one in UTC (`recurrence.go:182`): resumed through a
   node in another zone, a `catch_up_latest_only` schedule may be due after the
   resume, or before its first run.  `ResumeFindsNearest` is stated for UTC.
11. Replayed onto the kept database, `record_attempt` of an execution in flight is
    accepted again and rewrites the attempt's row with the next number, and
    `attempt_count` goes up on this node alone.  `ReplayConverges` leaves attempts
    out.
12. A replayed resume moves a `skip_missed` schedule as it did before, but the
    completions that moved it on are refused, since their executions have ended:
    the node has the schedule due for an occurrence that has run, and every
    claim of it conflicts.  `ReplayConverges` compares due instants for
    one-time and `catch_up_all` schedules only.
13. An entry that was refused because its schedule did not exist yet is accepted
    when it is replayed: a pause takes effect after a restart.  It is the
    premise of `ReplayConverges` (`Early`).
14. Index keys join ids with colons (`storage.go:116`): the executions of a
    schedule `s:x` are on the list of schedule `s` of the same tenant, under ids
    nobody has, and every claim and resume of `s` fails (`storage.go:287`).  The
    ids of `lists` have colons, but none continues another.
15. With `--bootstrap` in its command, as `main.go:16-25` shows it, a node does not
    start a second time: `New` bootstraps again and fails (`raftnode.go:71`).
    `Startup` has it as `BootstrapRefused`; only the third process of `locks` is
    without the flag.
16. A one-time schedule that is canceled, refuses an update and then completes its
    execution (item 6) is `completed` when the log is applied to it again, and
    `ApplyUpdateSchedule` refuses only a canceled one (`command/schedule.go:126`): the
    update is accepted this time, and the restarted node has another attempt
    limit.  `ReplayConverges` compares the limits of schedules that are not
    completed.
17. A monthly schedule need not begin on its day of the month, and nothing compares
    the two.  Created, it is due on that day; resumed by `skip_missed` or
    `catch_up_latest_only` before its first run, it is due at the first run itself
    (`recurrence.go:123`), and by the latter between the first run and the day,
    at the day in the month before.  `DueAtOccurrences` has both as exceptions.
18. `Recurrence.Seconds` is an unchecked `*int`.  Left out, its dereference in
    `create_schedule` (`model/recurrence.go:78`) panics in `Apply`, on every node and at
    every replay (`CreateSchedulePanics`); zero or negative, it makes a schedule that is
    due for the same instant again or for ever earlier ones, of which the properties
    about occurrences say nothing (`HasOccurrences`).  `day_of_month` is a pointer too,
    and is taken to be given and positive (`ConfigsAssumption`).
19. A callback URL is not checked either: where no request can be built from it
    (`worker.go:219`, `worker.go:424`), no call is made and no attempt recorded, at each
    tick again (`RequestsCanBeBuilt`).
20. The limit is read when a callback is dispatched and the count when it was scanned,
    so that more attempts than `max_attempts` may be on record: after an update that
    lowers it, a stale read (`raftnode.go:204`) or a lost answer.  The source states no
    bound on the record, so there is no property of it.

Not disagreements, as the source promises nothing, but worth knowing: an
execution claimed but never attempted is adopted by each leader and never
dispatched (`worker.go:203` says so); an execution that recovery missed keeps
its former owner, is called back at each tick, and each report is refused.
`day_of_week` is never read; `first_run_at`'s weekday stands for it.  The result
of `raftNode.Shutdown` is ignored and the state machine's database is never
closed (`node.go:67`), which is what keeps its lock until the process is gone.
A retry delay beyond 63 bits of nanoseconds is converted from a float
(`model/schedule.go:76`) and may come out negative, below the cap.

## The proofs

| theorem | says | module |
|---|---|---|
| `AfterIsNext`, `LatestIsPrevious` | the interval functions return the nearest occurrence | `Commands_proofs` |
| `TypeCorrect` | `Spec => []TypeOK` | `StateMachine_proofs` |
| `OccurrencesRunOnce` | `Spec => []OneExecutionPerOccurrence` | |
| `SummaryIsExact` | `Spec => []AttemptsMatchSummary` | |
| `ActiveIsDue`, `InFlightIsOwned` | `Spec => []DueWhileActive`, `Spec => []OwnedWhileInFlight` | |
| `EndedStaysFinal`, `AttemptsOnlyAppended` | `Spec => EndedIsFinal`, `Spec => AttemptsAppendOnly` | |
| `StoppedStaysStopped` | `Spec => StoppedForGood` | |
| `RunsAreOccurrences`, `OnceMeansOnce` | `Spec => []OnlyOccurrencesRun`, `Spec => []OnceRunsOnce` | |
| `CatchUpLeavesNoneOut` | `Spec => []CatchUpAllInOrder` | |
| `LogKeepsPromise` | `Spec => ImplementsOccurrences` | |
| `WorkerTypeCorrect` | `WorkerSpec => []WorkerTypeOK` | `Worker_proofs` |
| `WorkersImplementLog` | `WorkerSpec => WorkersMakeLog` | |
| `ClusterRunsOnce`, `ClusterEndsForGood`, `ClusterKeepsPromise`, `ClusterCatchesUp` | the theorems about the log, of the cluster | |
| `CallsDoNotOverlap` | `WorkerSpec => []OneCallPerNode` | |
| `VerdictIsOfAnAttempt` | `WorkerSpec => []EndsAsAttempted` | |
| `FinalOutcomeIsFound` | `ClocksAgree => (WorkerSpec => []FinalizeFindsFinal)` | |
| `AfterIsNextOccurrence`, `LatestIsLastOccurrence` | the functions of all four cadences return the nearest occurrence, and what the weekly one does from another weekday | `Timetable_proofs` |
| `OnlyDueAtOccurrences`, `NoOccurrenceLeftOut` | `Spec => []DueAtOccurrences`, `Spec => []CatchUpAllInOrder` | |
| `ResumedToNearest` | `Spec => ResumeFindsNearest` | |
| `ReplicasAreTyped` | `Spec => []TypeOK` | `Replication_proofs` |
| `ReplayedRowsAreSound` | `Spec => []ReplayKeepsRowsSound` | |
| `ReplayLeavesEndedAlone` | `Spec => ReplayKeepsEnded` | |
| `RestartedNodesConverge` | `Spec => []ReplayConverges` | |
| `ListsShowTheRows` | `IdsApart => (Spec => []ListsMatchRows)` | `Storage_proofs` |
| `ReadersFindTheLastAttempt` | `IdsApart => (Spec => []LastAttemptIsListed)` | |
| `NoTaskIsLeft`, `OneTickAtATime` | `Spec => []ReturnsDrained`, `Spec => TicksDoNotOverlap` | `Pool_proofs` |
| `OneLoopAtATime` | `SupervisorSpec => []OneLeaderLoop` | |
| `StoresBehindRaft`, `StoresAreFree` | `Spec => []RaftHasItsStores`, `Spec => []NobodyWaitsForStores` | `Startup_proofs` |

### What they assume

They hold for all sets of ids, nodes, configurations, workloads and instants, for
any number of goroutines, readers and processes, under the assumptions the
modules name.  Those about `Nil` (the two named `NilAssumption`, `WorkerAssumption`,
`PoolAssumption`, `StorageAssumption`, `StartupAssumption`, `WorkersAssumption`) say that
it is none of the values it stands in for.  `InputAssumption` and
`ReplicationAssumption` say that clients send configurations (any type, any policy,
any interval or none; see item 18), that first runs and proposers' clocks are natural
numbers, and that limits are not negative; `PoolAssumption` that there are goroutines, a
channel with room, and finitely many executions.  `CalendarAssumption` says that a
day is a whole number of seconds and no month is empty; the length of a day, the
number of months in a year and their lengths are any.  The theorems of the cluster
hold whether or not `ClocksAgree`, with one exception, which has it as its premise:
without it what `FinalOutcomeIsFound` says is false (item 4).  The runs of `Worker` have
it, as skew nearly doubles the states of `worker_log`; for the rest see the theorems.

`ConfigsAssumption` and `TimesAssumption` are the restrictions of `Timetable`, none of
which the code enforces: first runs of daily, weekly and monthly schedules are in
UTC and whole seconds (items 9 and 10 say what happens else), the interval and the day
of the month are given and positive (item 18), and zones are less than a day from UTC.
Every cadence goes with every policy, known or not, and a monthly schedule may begin on
any day.  Nothing is assumed of the first runs of interval schedules, or of the order of
proposers' clocks.  `ResumedToNearest` is about proposers in UTC (item 10), and about all
for intervals; the other two theorems are about proposers in any zone.

The theorems of `Storage` have a premise, `IdsApart`: no id of a tenant, of a schedule
or of an execution continues another of its kind after a colon.  The ids the
service makes are ULIDs, which have no colon and one length; for those a
client chooses it is a restriction the code does not enforce, and item 14 says
what becomes of a list without it.  The ids of the run `lists` satisfy it.

### The log (`StateMachine_proofs`)

The inductive invariant is `IInv == TypeOK /\ Bounded(db)`.
`TypeOK` is not inductive alone: a resume sets `next_run_at` from the latest
ended execution, a `CHOOSE` of a maximum, which is an instant only if there is
one.  `Bounded` says that some instant is no earlier than any execution's;
`BoundedSetHasMax` makes a maximum of it (from the well-foundedness of finite
intervals), and `ResumedNextRunType` and `AfterExecutionType` use the arithmetic of
the recurrence.  `TypeStep` has one step per action.

From it, three lemmas reduce every entry to what it does, once for all theorems:
`StepEffect` says that a step leaves the executions and attempts alone, or
claims, adopts, records or finishes one, with the guard it did so under;
`ScheduleStep` says what it may do to the row of each schedule; `FateStep` joins the
two: the row is kept, created, stopped, resumed at what its policy finds, moved
past the occurrence that ended, or completed by it.

* `OccurrencesRunOnce`, `EndedStaysFinal` and `AttemptsOnlyAppended` follow from the
  five cases of `StepEffect`, `ActiveIsDue` from `ScheduleStep`, `StoppedStaysStopped` from
  `FateStep`.
* `InFlightIsOwned` needs that only an existing schedule was ever offered
  (`OfferedExist`), `SummaryIsExact` that each attempt belongs to an execution
  (`AttemptsHaveExecution`), so that the rows of a new execution's id are none.
* `RunsAreOccurrences`: `DueInv` adds to the property that no row shows an instant
  the log has not offered.  A claim is for an offered instant, an end moves the
  schedule to the next one on the grid (`AfterIsNext`), and a resume to one of
  three, each on the grid (`ResumedAtOccurrence`).
* `OnceMeansOnce`: a one-time schedule is `completed` exactly when its occurrence has
  ended (`CompletedOnceEnded`), which it may do after a pause or a cancel.
* `CatchUpLeavesNoneOut`: what ends a `catch_up_all` occurrence advances the schedule
  to the next one, and nothing lies between (`NothingBetween`); a resume goes to
  the first after the latest ended one, before which all have ended by induction
  over the log (`ResumedInOrder`).  An execution that ends late, behind the
  schedule, would move it back: that it cannot is the second half of the
  property, and why the two halves are one invariant.
* `LogKeepsPromise`: each effect of `StepEffect` is a start, an attempt, an end, or a
  stutter of `Occurrences` under `RunOf` (`PromiseStep`); a start needs that no other
  execution stands for the occurrence, which is `OneExecutionPerOccurrence`.

### The cluster (`Worker_proofs`)

A step of the cluster is an entry of the log only if the node proposes
something sound, and what it proposes was read earlier.  `WInv` carries that:
no replica shows a due instant the log never offered, a loop that claims holds
only such instants (`ProposalsSound`), and replicas are behind the log and have
the schedules of their executions, so that a task always finds its rows
(`ReplicasBehind`; this is why `OwnershipInv` is part of it).  `StepIsEntry` says that
under `WInv` each step of the cluster is a step of the log or leaves it alone;
with it the lemmas about the log carry over and `WorkerStep` shows `WInv`
inductive.

`TasksChange`, `LoopChange` and `ExecutionsChange` then say what any step does to the
tasks, to a loop and to an execution, as `StepEffect` does for the log.
`CallsInv` has the four reasons for one callback at a time: an execution whose
first task has not reported is unattempted (`FreshUnattempted`); a scan finds
only attempted ones, and what a stale replica calls attempted is
(`FoundAttempted`); a claim and a scan hand out each execution once
(`HandedOutOnce`); a tick begins when nothing of the one before is left
(`TicksWait`).  `OutcomesInv` follows a verdict back to its attempt: a task that
will complete an execution has seen a final attempt of it in the log or on its
replica, whose attempts the log has too.  The last attempt by key exists because
there are finitely many (`AttemptsBounded`).

`LastInv` says, where `ClocksAgree`, that ids are used in their order and that the
attempt an execution's row names as its last has the largest id of its attempts, and is
final unless the row has an instant for its retry.  `AttemptsChange` gives what the log's
`StepEffect` does not know of a recorded attempt: that its id is the next one, and that
it comes with that instant exactly when it is to be retried.

### Replays (`Replication_proofs`)

One pass over the log is an induction over it; a replay is not, as entries meet rows
that later entries wrote.  So the invariant traces the rows to the log
instead.  `LogSound` says what the log itself guarantees: ids of executions and
attempts occur once, a claim comes after its schedule's creation and, for a
one-time schedule, names its instant.  `DatabasesSound` says of each database,
however often and how far the log was applied to it, that its rows satisfy the
properties and that each stands for an entry with its id and contents
(`RowsAreLogged`); `Positions` bounds where the nodes are.  `DispatchSound` shows that
any entry of a sound log keeps any sound database sound, whatever was applied to
it before.  A claim that is replayed onto its own execution is refused because the
row, being the only one of its id, is for the same occurrence
(`ReplayedClaimIsRefused`); `EndedUntouched` adds the other entries for
`ReplayLeavesEndedAlone`.

`RestartedNodesConverge` compares a database with the one the pass had at the same
position, and between a restart and catching up the two differ: a replayed pause
undoes a later resume, and an owner may already be the one after next.  `ReplayInv`
says which differences there may be when a database that was once taken through the
first `q` entries has been taken through the first `p` of them again (`Replayed`):

* Its executions are those of the pass after `q`, for the same occurrences and with
  the same status.  An entry that ends an execution, replayed, ends nothing, as
  the execution had ended after it (`ExecutionsReplayStep`); this needs that it existed
  when the entry was proposed (`Proposable`).
* The owner of one in flight is the one the pass had after some entry `k` from `p` to
  `q`, and no adoption up to `k` takes the execution from it (`OwnerAhead`).  So the
  next adoption to succeed is the pass's own.  At a restart `k` is the first position
  with that owner: a worker names as previous owner one it has read, so no
  adoption of it is earlier (`ReplayRestarts`).
* A schedule's status is that of the pass after `q`, or both are active or paused and
  a pause or resume of it is still to come; its attempt limit likewise, with an
  update still to come (`SchedulesReplayed`, by `SchedulesReplayStep`).  This part has
  the premise that no entry names a schedule before it is created.

At `p = q` nothing is left to come, and the two agree (`ReplayStep` goes on from
there).  For `catch_up_all` the due instant is a function of the executions that ended
(`Due`): `ActiveIsDue` says that an active schedule is due for it, which the end of an
execution keeps because one in flight stands for it (`RunsDue`), which a claim keeps,
however old the row its proposer had read, because an occurrence that has once been
due still is, or has an execution (`OnceDue`).  `ExecutionsWritten` and
`SchedulesWritten` reduce each entry to what it does to one execution and one
schedule, and `Onwards` carries what holds at a position of the pass to later ones.

### The calendar (`Timetable_proofs`)

The properties speak of a grid of instants, the code searches days, weeks and
months of dates.  The proof puts both in the terms of `At(d, x)`, tick `x` of day `d`:
`AtOrder` and `EveryInstant` say that instants are such pairs in lexicographic
order, and `OnCalendar` that the grid of a schedule is the tick of its first run on
the days it runs on (`RunsOn`: every day, every seventh, or the slot of each month).
`monthStart` is a recursive function.  `MonthStarts` shows that it is what its
definition describes, and `MonthOfDay` that every day is in one month, by
`SetInduction`: a set of numbers with 0 and the successor of each of its members has
them all.  It follows from the well-foundedness of `<`, and being about a set it
needs no operator as a parameter.

`NextByDay` and `LastByDay` reduce the search for an occurrence to one for a day;
`DailyAfter`, `WeeklyLatest`, `MonthlyAfter` and the others show that each function
finds that day (the monthly ones within three months of the up to 120 they
search), from a date which may be a day off for a proposer outside UTC
(`DateRead`).  `computeWeeklyAfter` finds it only from a day the schedule runs on,
which is what the end of an execution gives it; from any other, `WeeklyAfterAnyDay` says
that it finds the same time of day within a week, on the weekday it was given.
`DueTime` says that either way a schedule is due at its own time of day, and
`MonthlyOnOrAfter` where a monthly one is first due that begins off its day.

The invariant has two parts.  `TimesInv`: what is due, in flight or ended is on the
grid and in the zone of the first run, so that the next search begins on it.
`CatchUpInv`: for a `catch_up_all` schedule there is one occurrence, `due`, such that the
executions that ended are for those before it exactly, and whatever is in flight or
due is for it; also while the schedule is paused, which is why it is not read off
`next_run_at`.  `DueWhenEnded` moves `due` on by the end of its execution, and
`DueAfterLatest` shows that a resume, which goes from the latest ended one, finds it
again.

### Storage, pool, processes

`Storage_proofs` reads keys as sequences.  `KeyParts` says that a key that begins
with a tenant and an id has been joined from these two, as neither continues
another; `BelowIds` that a prefix scan finds what was put below the prefix; `SameKey` and
`SameIndexKey` that keys of different rows differ, so that taking the old entry out
of `executions_by_status` takes no other.  `ExecutionWritten` and `AttemptWritten` show
that a put keeps each index the image of its rows.  The inductive invariant
`Transactions` says that committed and visible buckets are `Whole` (indexes exact,
every attempt a row names as its last among them, with its execution) and that
the pending ones will be when the puts that are left are made; `ClaimWhole`,
`RecordWhole` and `CompleteWhole` show it of each handler's puts.

In `Pool_proofs` the invariant counts: `wg` is the number of tasks being sent, in the
channel and run by a goroutine (`TasksCounted`), and `Phases` says when the loop may
send or have closed the channel.  In `Startup_proofs` it says that a lock is held
exactly by the process between opening and closing its file (`LocksMatch`), and that
raft runs only in between (`RaftUp`).  For the supervisor `OneLeaderLoop` is inductive
once `pc` and `alive` have their types.

### Only model-checked

Liveness (`DeposedStops`, `ShutdownCompletes`, `ElectedRuns`, `AttemptedEnds`,
`DueIsReached`, and `RunsAsSupervised`, whose point is that `Run` returns) is out of the
prover's reach and stays with TLC.  For `AttemptedEnds` that is one node, as the temporal
check of two takes too long.

## Not modelled

* hashicorp/raft itself: elections, replication, when it takes and sends
  snapshots.  Its calls into this code are external actions; so are HTTP calls,
  clients, and what an operating system does to a process.
* Schema versions and the JSON encoding of rows and entries, and entries that
  cannot be decoded.
* Delays: timers, tickers and back-offs fire at any instant.  The timeout task,
  which nothing enqueues, appears as its entry only.
* Configuration (parsing of flags), the error types of commands, and the stubs
  `scheduler.go`, `api.go` and `callback.go`, which have no behaviour.
* A process of `Worker` does not start again (see there): what a restart does to a
  database is in `Replication`, what it does to the files in `Startup`.
* `Restore` opens `state.db` with no timeout (`statemachine.go:78`), where `main` allows a
  second: `Startup` leaves that lock out, and no property of it depends on it.
* A `day_of_month` that is left out, zero or negative.
* `TransferLeadership` and `LeaderAddr`, which change nothing here.
* Cases in which a disagreement above leaves nothing to state are left out of the
  instances, as said there.

## The plan

Done: every component that has behaviour, with the runs above, and the theorems
above, which state every property of the passing runs but those of liveness.
