# A TLA+ model of tasklet

tasklet is an asynchronous cron library on Tokio: a scheduler polls a set of
tasks, each task is driven by a Tokio task of its own, and handles control both
from outside. This directory holds TLA+ modules of that machinery, TLC
configurations that check them on small instances, and TLAPS proofs of what
matters most for every value of the constants. Source paths below are relative
to the repository.

## 1. Inventory

| Component | State | Operations | Where it is hard |
|---|---|---|---|
| **Scheduler loop** (`src/scheduler.rs`, `TaskScheduler`) | `handles` (join handle, sender and `TaskShared` per task), the ticking interval, the `Notify` of shutdown, `next_id`, `task_gen` | `run`, `run_until`, `tick` (`run_task_gen`, `drain_spawns`, `dispatch_round`), `refresh_registry`, `shutdown_tasks`, `add_task` and its variants | decides on cells that drivers change meanwhile; must never wait for a task |
| **Task driver** (`src/task.rs`, `run_task`, `run_once`, `Task::init`, `reschedule`) | status, next instant, repeats left, receiver of a one-place channel | receive a run, run it, reschedule, publish, drain `pending`, return | two loops with different ends; five stores to shared cells per run; can be aborted at every await |
| **Shared cells** (`TaskShared`) | atomics `running`, `pending`, `finished`, `paused`, `remove_requested`, `runs`; mutexes `state`, `steps`, `history` | single loads and stores | every decision reads several of them one after the other |
| **Steps of a run** (`Task::run_task`, `run_and_notify`) | step states, attempt counters, status | attempt, retry after a delay, time out, skip the rest, callbacks | user code that fails, hangs or panics; a status that three places write |
| **History and observers** (`start_run`, `finish_run`, `publish_steps`, `RegEntry::to_state`) | a bounded queue of run records; the streamed step states | append and trim, close, read | read while it is written; limits 0 and 1 |
| **SchedulerHandle** (`src/scheduler.rs`) | the registry of entries | `trigger`, `pause`, `resume`, `remove`, `shutdown`, queries, lookup by name | `trigger` reads and then acts; the registry lags behind `handles` |
| **TaskSpawner, registration, names** (`src/scheduler.rs`) | the spawn channel, ids, names | `spawn`, `spawn_get_id`, `add_task_get_id` | requests that arrive around shutdown and removal; reuse of names |
| **TaskGenerator** (`src/generator.rs`) | its schedule and next instant | `new`, `run` | the end of the schedule |
| **RetryPolicy** (`src/retry.rs`) | none | `delay`, `jittered_delay` | saturating and capped arithmetic |
| **Blackboard** (`src/blackboard.rs`) | a mutex around a typed map | `set`, `get`, `get_or_insert`, `remove`, ... | calls are atomic one by one, sequences of them are not |
| **TaskBuilder** (`src/builders.rs`) | the configuration of a task | setters, `every` and its helpers, `build` | an invalid expression is remembered and refused only in `build` |
| **Examples** (`examples/`) | what their closures capture, their boards | the bodies of their steps | rely on when and how often they are called |
| **Errors, logging** (`src/errors.rs`, `src/lib.rs`) | none | messages | nothing |

Components interact in five ways: the scheduler sends `Run` through the
one-place channel of a task with `try_send`; drivers answer only by storing to
`TaskShared`; handles store to the same cells, or send to the same channel,
under the registry's mutex; the scheduler copies its `handles` to the registry
when a task is added and at the end of a round; and the scheduler aborts a driver when it is finished,
when its removal is asked for, and at shutdown.

What makes each component correct:

* *Scheduler*: it dispatches what is due and only that, whatever another task
  does; it reaps what has ended; shutdown reaches every driver.
* *Driver*: no more executions than `repeat(n)`; nothing is executed after the
  task has ended; a request that was accepted is served once or ends with the task.
* *Shared cells*: what the scheduler sees of an idle task is what the driver knows.
* *Steps*: attempts stay inside the policy, a time limit ends a hanging step,
  steps are done in order, every run is reported once to the right callback.
* *History*: it is the most recent runs in order; records agree with the steps.
* *Handle*: a trigger is not lost; a reaped task disappears from the registry.
* *Spawner, registration*: every request is answered while the loop runs; an id
  is given once; a name leads to the task that carries it; no task runs that
  nobody can find.
* *Generator*: one discovery per instant.
* *Retry*: delays are the documented ones up to the truncation to milliseconds,
  capped and free of overflow.
* *Blackboard*: an increment made of two calls is never counted twice, and lost
  only if somebody else was at the key.
* *Builder*: the last call of `every` decides, also when it is invalid.
* *Contexts*: every attempt has one of its own; a run store belongs to one run.

`PROJECT.json` lists the hazards line by line, with the properties that cover them.

## 2. Modules

| Module | Contents |
|---|---|
| `RunQueue` | abstract: what scheduler, handle and driver promise together about the runs of one task |
| `Dispatch` | the scheduler, the drivers and the handles, one action per access to a shared cell; its properties |
| `MCDispatch` | instances of `Dispatch` for TLC |
| `DispatchProofs`, `DriverProofs` | theorems about `Dispatch`; the second about drivers and the refinement to `RunQueue` |
| `TaskRun` | one task: its steps, retries, timeouts, callbacks, history and what observers read; its properties |
| `TaskRunProofs` | theorems about `TaskRun` |
| `Directory` | abstract: what a handle may rely on when it looks tasks up |
| `Registry` | how tasks are added, named, found, removed and dropped: owner, loop, spawners, generator, handles; its properties |
| `RegistryProofs` | theorems about `Registry` |
| `Retry`, `RetryProofs` | the arithmetic of retry policies, and theorems about it |
| `Blackboard` | the calls of a board |
| `Builder` | the setters of a builder, and `build` |
| `Programs` | `TaskRun` with tasks made by `Builder`, closures, contexts, boards and delays: the examples, and tasks about policies and schedules; its properties |
| `ProgramsProofs`, `ExampleProofs` | theorems about `Programs`, from those about `TaskRun` and `Retry`; the second about what the examples come to |
| `NaturalLemmas` | the least element of a set of numbers, and induction for a set |

### Dispatch

State: one function per cell of `TaskShared` (`running`, `pending`, `finished`,
`paused`, `removeRequested`, `runs`, `published`), `chan` for the channel (0 or
1 `Run`), the driver's `pc` and fields, the scheduler's `spc`, `todo`, `cur` and
`roundNow` for the local variables of a round, `permit` for the stored
notification of shutdown, and `trig` for a call of `trigger` between its read
and its write. `execs`, `onFinish` and `sent` are observations that no action reads.

The driver's counter follows the source: `spawned` (before `init`), `receive`,
`begin` (a run was taken), `steps`, `callbacks`, `notify` (rescheduled, perhaps
in `on_finish`), `retire` (`running` cleared), `publish` (`finished` set),
`loop`, and `done`, `gone` (cancelled) or `dead` (panicked). The
scheduler's follows a round: `select`, `reap`, `dispatch`, `due`, `busy`,
`send` or `queue`, and `stopped`.

Two kinds of runtime are distinguished by `MultiThread`. On worker threads every
action may interleave with every other. On a current-thread runtime an actor
keeps the thread until its next await: `ThreadFree`, `SchedulerTurn` and
`ClientTurn` say when an actor has it. Several claims of the source's comments
hold on the second kind only, so the distinction is part of the model.

`JoinHandle::abort` marks a driver; Tokio drops it at an await. A driver that is
being polled on another thread goes on, and it may find its await ready, so
`Cancel` is possible at an await and is not forced.

### TaskRun

One task, with a builder's configuration chosen in `Init` (number of steps,
retries, timeout, history limit, repeats). Each action is one store to a cell
that others read. Steps may succeed, succeed with errors, fail, ask for
removal, hang, or be cut off by the timeout. The driver's loops are there (a
run that was received, a run that was drained) because a task that finishes in
the second kind goes on waiting; whether a run is requested is left open, since
`Dispatch` is about that. `Die` stands for cancellation and for a panic.
A run that is refused because the task has already ended still opens and closes
a record, with what the run before left behind; the model has this, and
properties that compare records with steps name the exception.

### Registry

The set of tasks, which is fixed in `Dispatch`, is what `Registry` is about;
in turn a task is reduced to whether its driver lives and whether its removal
was asked for. `handles` and `nextId` are the scheduler's, `registry` is what
handles see. The owner has the scheduler to itself until it starts the loop and
again after it has stopped or its future was dropped (`Idle`); it adds tasks,
sets a generator or drops the scheduler. A tick is `BeginTick`, then `Discover`
or `ScheduleEnds` if the generator is due, `TakeSpawn` for each request in the
channel, `Reap` for each handle `Vec::retain` looks at, and `EndRound`, which
publishes. Registration (`AddTaskGetId`) is one step: it only waits for the
registry's mutex. A call by name is two lookups (`FindName`, `ActOnId`) with
anything in between. `run` and `run_until` differ in what stops them (`mode`):
only the first consumes the notification of `shutdown`.

`Drop` and `DropHandles` are the ends of ownership: a dropped scheduler detaches
its drivers and closes the spawn channel; the senders in the registry keep the
drivers until the last handle goes too.

`Directory` is the promise to handles: ids grow, a name is carried by one task at
a time, and a task never changes. `ImplementsDirectory` maps it to the registry.

### Programs

`Programs` extends `TaskRun` and gives its choices a cause. A task is the record
`Builder` makes of the calls in an example, and `Shape` hands `TaskRun` what
`run_task` reads of it. `CallStep` is `BeginAttempt` with the context that is
built and the closure that is called; the body then makes its calls to the run
store and the board one by one (`Put`, `Take`, `Fetch`, `Write`), with the other
task of a shared board in between, and its result decides which of `TaskRun`'s
actions is next. The delay before a retry is drawn from `Retry`. Three kinds of
program are initial states: the tasks of the examples, those with a board also
with a second task on it; for every policy of a small set a step that fails and
one that hangs; and for one or two calls of the schedule helpers, at the edges
of their ranges, a task that is built or refused.

## 3. Runs

| Run | Instance | Result |
|---|---|---|
| `dispatch_threads` | one queueing task, threads, panics, `MaxTime` 3, one call | holds: 529,320 states |
| `dispatch_one_thread` | two tasks, one thread, fair, `MaxTime` 1, one call | holds: 77,972 states |
| `task_run` | up to 2 steps, 1 retry, history 0 to 2, repeats 0 to 4, 3 runs | holds: 275,156 states |
| `registry` | one name, one client, 2 tasks, 2 starts, 2 calls, instants 1 and 2, fair | holds: 222,976 states |
| `programs` | 13 examples and variants, 195 policies with 2 bodies each, 462 schedules; up to 12 runs | holds: 201,402 states |
| `spawn_stopped`, `queue_spurious`, `finish_twice`, `run_in_flight`, `stranded_trigger`, `last_outcome`, `removed_tenth` | | refute a sentence of the documentation (section 6) |

*dispatch_threads* asks what survives every interleaving: `ParkedMeansPublished`,
`ExecutionsWithinRepeats`, `SentPerInstant`, `AnnouncedBeforeRetired`,
`RetiredNeverExecutes`, and `ImplementsRunQueue`, the refinement to `RunQueue`.
In the mapping the requests that wait are the channel's `Run` and the `pending`
flag, and a run starts when it is taken from either. *dispatch_one_thread* checks
what the source's comments say and only one thread guarantees (`OneRunInFlight`,
`NoStrandedPending`, `SentPerInstant`, `DispatchedOnlyIfDue`), and what must
eventually happen (`NoRequestLost`, `ReapableIsReaped`, `DueIsDispatched`,
`ShutdownEndsDrivers`). *task_run* checks the inside of a run and what observers
read. In *stranded_trigger* the task skips overlapping runs, so that only the trigger
can have set `pending`.

*registry* asks whether what handles see can be relied on while tasks come and
go: the refinement to `Directory`, the lag of the registry (`RegistryLagsOneRound`),
calls by name (`NameCallHitsNamedTask`), answers (`AnswerIsVisible`), drivers
that nobody could stop (`LiveIsRegistered`), the generator (`DiscoveryPerInstant`),
and that requests and removals are carried out (`SpawnAnswered`, `RemovalCompletes`).
*programs* asks what code of the user relies on.

**Bounds.** `t1` has the instants 1, 2 and 4, is executed twice and queues; `t2`
has the instant 1, no limit, and skips. With `MaxTime` 3 the clock passes two
instants of `t1` and one is left in the future, so that a task finishes by its
repeats, by the end of its schedule (`t2`), and not at all. One call of a handle,
at any moment and with any argument, is enough to race with one run; shutdown is
not counted. Two tasks are enough to have one hanging while the other is due.
The run on one thread stops the clock at the first instant of both tasks, since the
temporal properties are dear: a second run comes from the call, and after the first one
`t1` has an instant ahead that must not be dispatched yet. It has no panic; those are in
`dispatch_threads`. That its safety properties hold for panics, more instants and more
calls is proved (section 4). *removed_tenth* has no policies, which matter to none of
the examples.
In `TaskRun`, two steps give a step before, at and after a failure; one retry
separates the first from the last attempt; a history of at most two under three
runs is trimmed, and limits 0 and 1 are inside; four repeats exceed the three
runs and stand for no limit. In `Registry`, two tasks with one name, or none, are enough for a duplicate, a
reuse after a removal, an unnamed task beside a named one, and a request behind
another in the channel; two starts for a loop that is stopped or dropped and
started again; two instants for a discovery that is due in several rounds and
for the end of the schedule; two calls for a removal between the lookups of a
call by name. In `Programs`, twelve runs go past the eleventh,
in which an example removes itself; the widths are 31, 255 and four nanoseconds
to the millisecond, so that four retries of the policies reach every saturation;
another task makes two updates of a shared board, or two other changes.
Deadlock is checked in the `Dispatch` runs (a
handle can always ask for shutdown); `TaskRun` and `Programs` end when
the driver or its bound does and `Registry` when the scheduler was dropped, so there
it is not.

**Fairness.** `Dispatch`: weak fairness of the scheduler, since its interval
ticks for ever and the runtime polls it, and of the second half of `trigger`,
which holds a mutex and does not wait. A driver outside code of the user gets
strong fairness: on a shared thread it is ready again and again rather than
always, and Tokio's run queue does not pass over a ready task for ever. Steps
and callbacks may take for ever, the clock need not advance, and nobody has to
call anything. `TaskRun`: weak fairness of what the driver does without waiting
for code of the user, timers included. `Registry`: weak fairness of the loop; the owner, clients,
drivers and the clock are free to do nothing, and a future that the caller gave
to `run_until` may never resolve. `Programs` states safety only. A step that blocks its thread instead of
awaiting cannot be timed out by Tokio; the model's steps await.

Every property of a passing run has a mutant: a variant of one definition, the
way a plausible bug would change it, under which TLC refutes the property. They
stand next to the definition they replace, marked `Mutant`.

## 4. What is proved

Every safety property of the passing runs, both refinements included: for every set
of tasks, schedule, policy, number of steps, retries, records and repeats, and every
value of the bounds. The inductive invariants were checked by TLC on the instances of section 3 before they were
proved.

| Module | Theorem | Statement |
|---|---|---|
| `DispatchProofs` | `TypeCorrect` | `Spec => []TypeOK` |
| | `RepeatsRespected` | `Spec => []ExecutionsWithinRepeats` |
| | `FinishedIsFinal` | `Spec => RetiredNeverExecutes` |
| | `OneThreadOneRun` | without `MultiThread`: `Spec => []OneRunInFlight` |
| | `OneThreadNothingStranded` | without `MultiThread`: `Spec => []NoStrandedPending` |
| | `FewRunsPerInstant` | `Spec => []SentPerInstant`, on both kinds of runtime |
| `DriverProofs` | `IdleIsPublished` | `Spec => []ParkedMeansPublished` |
| | `FinishedIsAnnounced` | `Spec => []AnnouncedBeforeRetired` |
| | `TaskIsRunQueue` | `Spec => ImplementsRunQueue` |
| | `OneThreadDispatchesDue` | without `MultiThread`: `Spec => DispatchedOnlyIfDue` |
| `TaskRunProofs` | `TaskTypes` | `Spec => []TypeOK` |
| | `HistoryIsRecent`, `RunningHasRecord` | `Spec => []HistoryIsRecentRuns`, `[]RunningIsRecorded` |
| | `StreamIsInOrder`, `OutcomeIsTrue` | `Spec => []StreamedInOrder`, `[]OutcomeMatchesSteps` |
| | `ClosedRecordsStay` | `Spec => [][ClosedStays]_vars` |
| | `RunsAreReported`, `FinishIsFinal` | `Spec => []EachRunReported`, `NothingAfterFinish` |
| | `RetriesWithinPolicy` | `Spec => []AttemptsWithinPolicy` |
| `RegistryProofs` | `RegistryTypes` | `Spec => []TypeOK` |
| | `LagIsOneRound`, `LiveIsFound` | `Spec => []RegistryLagsOneRound`, `[]LiveIsRegistered` |
| | `CallsHitTheirTask`, `AnswersAreVisible` | `Spec => NameCallHitsNamedTask`, `AnswerIsVisible` |
| | `OneDiscoveryPerInstant` | `Spec => []DiscoveryPerInstant` |
| | `RegistryIsDirectory` | `Spec => ImplementsDirectory` |
| `RetryProofs` | `DelayIsDocumented` | the bounds of a delay, for every policy and retry |
| | `DelaysGrow` | with a factor of 1 or more, no delay before jitter is below the one before it |
| `ProgramsProofs` | `ProgramIsTaskRun` | `ProgramSpec => [][Next]_vars` |
| | `ProgramTypes` | `ProgramSpec => []ProgramTypeOK` |
| | `LastCallIsSchedule`, `DelayKeepsPromise` | `ProgramSpec => []ScheduleIsLastAsked`, `[]DelaysAsDocumented` |
| | `ContextsAreInOrder` | `ProgramSpec => ContextsInOrder` |
| | `StoreIsOfRun`, `TotalIsOfRuns` | `ProgramSpec => []RunStoreIsPrivate`, `[]TotalCountsRuns` |
| `ExampleProofs` | `ExamplesHold` | `ProgramSpec => []ExamplesAsCoded` |

**Assumptions.** Those the modules name: `ConstantsAssumption` of `Dispatch` and
`Registry` (in the latter `MaxTasks` is at least one, as a type of ids needs an
id), `BoundsAssumption` of `TaskRun`, `WidthsAssumption` of `Retry` (the widths are
positive and `u64` is no wider than `u128`) and `ProgramsAssumption` of `Programs`
(what policies are made of are natural numbers). TLC evaluates each of them.

**Dispatch.** *Executions.* That `execs` stays below the limit is not inductive:
a step must know that a task that is `Scheduled` still has an execution left. `CountInv`
says that executions done and left make up the limit, that a scheduled task has
one left (or has not run at all: `repeat(0)` is looked at after a run), and that
only terminal tasks are marked finished. The last part gives `FinishedIsFinal`:
a finished task is terminal, and a terminal task is refused.
*One thread.* `ThreadInv` says that nothing moves beside a round or a call
(`Turns`), and ties each driver's place to its cells: `running` is set exactly
inside a run, the channel holds a `Run` only while the driver waits, what the
scheduler has read in `busy` or a caller in `trigger` still holds when it acts.
Turn-taking is needed: with threads each part is false, which is what
`run_in_flight` and `stranded_trigger` show. `RoundInv` adds what the scheduler
has read by each point of a round, which makes a dispatch one of a due task.
*Runs per instant.* `SentInv` accounts for each `Run` sent since the last
publication: it is in the channel or in the driver's hands. That gives two in
general; one thread leaves no moment for the second.
*Drivers.* `PlaceInv` says what each driver has stored by each of its places.
It is what `ImplementsRunQueue` needs: that a run starts only for a request and
never beside another follows step by step, each action against one of `RunQueue`.

**TaskRun.** `HistInv` places the open record: it is the newest, and there is one
exactly inside a run. `StepInv` describes the step states by the first step that
is not done (`Rest`), which one formula covers the middle of a run, its failure
and its end. `StatusInv` and `CallsInv` say which status each place of the driver
allows and which callbacks were called by then; `EachRunReported` is not
inductive without the first. `AttemptInv` counts attempts by the steps passed, and
`OutcomeInv` carries what the run came to from the last step to the record.
`ClosedRecordsStay` needs more than that a step writes the newest record only: a
closed record may move when an older one is evicted, and it is told from the others
by its number. `RecordsCome` traces every record of the next state to one of this
state, to `start_run` or to `finish_run`.

**Registry.** `TypeInv` adds to the types that the tasks handed in, registered or in
the channel, stay within the bound. `RegInv` says that ids in the registry are below
`nextId` and distinct, that what the scheduler has is in it, and where the two
differ: only between a `retain` or an abort and the next refresh, and only by tasks
that are aborted; this gives the refinement, the calls by name and the answers.
`GenInv` ties discoveries to the next instant.

**Retry.** The delays are proved by induction on the retries, for powers of the
factor of any size (`Power` is a recursive function, whose equation `PowExists`
and `PowerNext` establish). The library's induction takes a predicate
as a parameter, which the provers cannot instantiate; `SetInduction` of
`NaturalLemmas` states it for a set, from the well-foundedness of the numbers.

**Programs.** `ProgramIsTaskRun` brings the invariants of `TaskRunProofs` in, since
they were proved from `[Next]_vars`. `Described` says that the task is what some
sequence of builder calls gave, `WaitInv` that the delay was drawn for the present
attempt, `ContextInv` where the last context stands against the next, `LineInv` and
`StoreInv` what the body in progress has put and taken. `TotalInv` is the deepest:
between `get_or_insert` and `set` of one task the other may write or remove the
key, so each pending total is at most one ahead of the writes; alone on its board
a task's total is exactly the writes, and these are the runs executed plus one while
the present run has written and is not over (`Totalled`).

**The examples.** None of the sentences of `ExamplesAsCoded` is inductive, and
`MaxRuns` may be any number, so TLC's twelve runs do not settle them. The argument
counts. `QuotaInv`: the executed runs and the repeats left add up to what the builder
was asked for, so a task that is `Finished` was executed as often as that, and one
without `repeat` never is. `CountInv`: what the closure has captured is the number of
executed runs, and one more while the present run has called it. `RunsInv`: a task
without `repeat` refuses no run before it is removed, so the number of a run is the
number of executed runs before it. Together, in `RemoveInv`, the call that sees 10 in
its counter is in the run numbered 10, and in `OddInv` the run that the closure fails
is the one with an even number; the latter holds of every record in the history,
since closed records are not rewritten. `FlakyInv` follows the one run of the retried
task attempt by attempt: the third succeeds, and its policy allows four.

**Only model-checked.** `ReapableIsReaped`, `DueIsDispatched`, `ShutdownEndsDrivers`
and `NoRequestLost` of `Dispatch`, `TimeoutEndsRun` of `TaskRun`, `SpawnAnswered` and
`RemovalCompletes` of `Registry`: liveness under fairness is outside what the prover
handles. The violations of section 6 are counterexamples, for which one instance is
enough.

## 5. What is abstracted or left out

* Instants are numbers and a schedule is a set of them; time zones and the cron
  grammar are the `cron` crate's. `Upcoming` is the instants strictly after now.
* The result of a step is a choice. `Dispatch` also makes the whole run one
  choice (`Executed`, `Failed`, `ForceRemoved` or refused).
* Atomics are sequentially consistent, as all accesses in the source are `SeqCst`.
* `InitTask` makes `publish` and the store of `finished` one step: nobody acts on
  the difference. `Reap` reads two flags that are only ever set in one step.
* In `TaskRun`, `on_failure` and `on_finish` of a removed task are one step; the
  callback of a finishing task and `reschedule` are one step, and likewise
  `on_finish` and the store of `running` in `Dispatch`. The length of a delay is in
  `Programs` and `Retry`.
* `Registry` leaves the dispatch of a round to `Dispatch`: what a handle does to
  a task it found, other than its removal, changes nothing there. A request does
  not carry whether its caller awaits the reply; the reply is the step that takes
  the request. `Reap` of one handle is one step, as in `Dispatch`.
* `Parses` is the cron crate's verdict on the expressions the helpers write;
  expressions written out in the examples are taken to parse.
* Durations in `Programs` are small numbers; that a delay lasts as long as it
  should is Tokio's. A delay drawn with jitter is any of the range.
* The second task on a shared board is a variation of the examples: in
  `control_and_observability` the consumer only reads.

**Not modelled.** A snapshot of `to_state` that mixes two moments: it reads five
cells one after the other, and nothing is decided on it. `len`, `is_empty` and
`keys` of a board, `Debug` and `Display`, serialisation, logging and the error
messages. The schedulers, clients and sleeps around the tasks of the examples.

## 6. Where the documentation says more than the code does

* `OverlapPolicy::Queue` queues a run whenever a round finds the task still
  running, although no occurrence was missed (`queue_spurious`).
* A task that finishes in a drained run keeps waiting; a trigger before it is
  reaped calls `on_finish` again (`finish_twice`).
* With threads, a second `Run` for the same instant can be in flight
  (`run_in_flight`), and a trigger can leave `pending` set behind a driver that
  waits (`stranded_trigger`); the latter is served by the next run, if there is one.
* `TaskState::last_outcome` is empty while a run is in progress (`last_outcome`).
* A spawn after `run` has returned is accepted, and `spawn_get_id` waits until the
  scheduler runs again or is dropped (`spawn_stopped`).
* `force_remove_example` says that its task is removed on the 10th execution; the counter
  is read before it is advanced, and the removal is in the 11th (`removed_tenth`).

Seen while modelling, without a run of its own: the generator skips the last
occurrence of its schedule (`ScheduleEnds` of `Registry`); the base of an
exponential delay is cut to whole milliseconds, so a base below one never waits
(`DelaysAsDocumented` allows for it); a shutdown requested during a `run_until`
stops the next `run` at once; a task whose schedule has no instant at all ends without
`on_finish`; `StepStatus` and `StepState` are documented as the last completed
run and are streamed live; a panic leaves `running` set for ever.

## 7. Plan

The modules were written in the order of section 2, and each was proved about once
TLC had checked it. What could follow:

1. The run of `Dispatch` as an abstraction of `TaskRun`. The two meet in the driver's
   places, flags and callbacks, but `TaskRun` leaves open who asks for a run and
   `Dispatch` has the channel, the scheduler and the handles: the two would have to
   share a third module, the driver of one task with its requests left open.
2. The liveness properties for every set of tasks, with a prover that handles `ENABLED`.
3. A reader of `to_state` between its five loads, if the documentation comes to
   promise anything about a snapshot.

## 8. Running it

    tlc -workers 2 -config dispatch_threads.cfg MCDispatch.tla
    tlc -workers 2 -config task_run.cfg TaskRun.tla
    tlc -workers 2 -config registry.cfg Registry.tla
    tlc -workers 2 -config programs.cfg Programs.tla
    for m in Dispatch Driver TaskRun Registry Retry Programs Example; do tlapm ${m}Proofs.tla; done
    tlapm NaturalLemmas.tla
