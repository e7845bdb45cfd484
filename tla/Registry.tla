------------------------------ MODULE Registry ------------------------------
(***************************************************************************)
(* How tasks come to a scheduler, how they are named and found, and how    *)
(* they go.                                                                *)
(*                                                                         *)
(* The owner of a TaskScheduler adds tasks and a generator while the loop  *)
(* does not run, starts it, drops its future, or drops the scheduler.  In  *)
(* the loop each tick runs the generator, takes what callers of a          *)
(* TaskSpawner have queued, reaps, and copies the tasks to the registry,   *)
(* where callers of a SchedulerHandle look them up.  Spawners and handles  *)
(* act at any moment, from other threads.                                  *)
(*                                                                         *)
(* An action is one access to the spawn channel, to the registry (a mutex  *)
(* held for the whole lookup) or to the flags of a task.  Which tasks a    *)
(* round dispatches, and what pause, resume and trigger do to a task once  *)
(* it is found, is in Dispatch.                                            *)
(***************************************************************************)
EXTENDS Naturals, Sequences, FiniteSets

CONSTANTS
  Name, NoName,
  Client,       \* callers of a SchedulerHandle
  GenSlots,     \* the instants of the generator's schedule
  MaxTime,      \* bound: the clock stops there
  MaxTasks,     \* bound: how many tasks are added or asked for
  MaxStarts,    \* bound: how often the loop is started
  MaxCalls      \* bound: how many lookups are made through handles

ASSUME ConstantsAssumption ==
  /\ NoName \notin Name
  /\ GenSlots \subseteq Nat \ {0}
  /\ {MaxTime, MaxTasks, MaxStarts, MaxCalls} \subseteq Nat
  /\ MaxTasks # 0

VARIABLES
  now,
  (* TaskScheduler, and the registry its handles share. *)
  handles,          \* the tasks, in the order they were added: [id, name]
  nextId,
  registry,         \* what handles see
  (* One cell per id that was given. *)
  driver,           \* the Tokio task that runs it
  removeRequested,
  (* The loop. *)
  spc,
  mode,             \* which future stops it: "run", its own, or "until"
  starts,
  pos,              \* where Vec::retain has come to
  permit,           \* the Notify of shutdown
  (* The generator. *)
  genNext,          \* its next instant, 0 without a generator
  (* The spawn channel: the names in the requests that wait in it. *)
  queue,
  tasks,            \* how many tasks were handed in, for the bound
  (* A call by name between its two lookups. *)
  call, calls,
  (* Observation, read by no action. *)
  discoveries       \* how often the discovery function was invoked

owned  == <<handles, nextId, registry>>
cells  == <<driver, removeRequested>>
loop   == <<spc, mode, starts, pos, permit>>
client == <<call, calls>>
gen    == <<genNext, discoveries>>
vars == <<now, tasks, owned, cells, loop, queue, client, gen>>

Ids == 0..MaxTasks - 1
Names == Name \union {NoName}
IdsOf(entries) == {entries[k].id : k \in DOMAIN entries}
Idle == spc \in {"setup", "stopped"}       \* the owner has the scheduler to itself
Looping == spc \in {"select", "discover", "drain", "reap"}

-----------------------------------------------------------------------------
(* Registration: add_task_get_id, which runs on the owner's thread or in   *)
(* the loop and does not wait.                                             *)

HandIn == tasks < MaxTasks /\ tasks' = tasks + 1

(* A name can be carried by one task at a time. *)
Taken(name) == name # NoName /\ \E k \in DOMAIN handles : handles[k].name = name

(* Mutant: an id is the number of tasks there are.                         *)
IdByLength == Len(handles)

(* Mutant: the counter is incremented before it is read.                   *)
IdAfterIncrement == nextId + 1
NewId == nextId

(* Mutant: a new task is left for the next round to publish.               *)
PublishedPerRound == IF spc = "reap" THEN handles' ELSE registry

(* Mutant: only a new task is published, not what a round has reaped.      *)
PublishedOnAdd == IF spc = "reap" THEN registry ELSE handles'

(* TaskScheduler::refresh_registry, of the handles after the step. *)
Refreshed == handles'

(* The driver is spawned, the handle pushed and the registry rebuilt. *)
Register(name) ==
  /\ handles' = Append(handles, [id |-> NewId, name |-> name])
  /\ driver' = [driver EXCEPT ![NewId] = "live"]
  /\ removeRequested' = [removeRequested EXCEPT ![NewId] = FALSE]
  /\ nextId' = nextId + 1
  /\ registry' = Refreshed

(* A duplicate name is rejected and changes nothing. *)
AddTaskGetId(name, result) ==
  \/ ~Taken(name) /\ Register(name) /\ result = "added"
  \/ Taken(name) /\ result = "duplicate" /\ UNCHANGED <<owned, cells>>

-----------------------------------------------------------------------------
(* The owner of the scheduler, who has it while the loop does not run.     *)

(* add_task and add_task_get_id; a task that could not be built and a      *)
(* duplicate are returned as errors and leave everything as it was.        *)
AddTask ==
  /\ Idle
  /\ HandIn
  /\ \E name \in Names : AddTaskGetId(name, "added")
  /\ UNCHANGED <<now, loop, queue, client, gen>>

(* Schedule::upcoming(now).next(): the next instant strictly after now, 0  *)
(* if the schedule has ended.                                              *)
Upcoming == LET later == {s \in GenSlots : s > now}
            IN  IF later = {} THEN 0 ELSE CHOOSE s \in later : \A r \in later : s <= r

(* TaskGenerator::new refuses a schedule without an upcoming instant. *)
SetTaskGen ==
  /\ Idle
  /\ Upcoming # 0
  /\ genNext' = Upcoming
  /\ UNCHANGED <<now, tasks, owned, cells, loop, queue, client, discoveries>>

(* run and run_until. *)
StartRun ==
  /\ Idle
  /\ starts < MaxStarts
  /\ starts' = starts + 1
  /\ mode' \in {"run", "until"}
  /\ spc' = "select"
  /\ UNCHANGED <<now, tasks, owned, cells, pos, permit, queue, client, gen>>

(* The future of run is dropped where it waits: the tasks stay, and a      *)
(* notification that reached it goes back to the Notify.                   *)
CancelRun ==
  /\ spc = "select"
  /\ spc' = "setup"
  /\ mode' = "run"
  /\ UNCHANGED <<now, tasks, owned, cells, starts, pos, permit, queue, client, gen>>

(* The scheduler is dropped: its drivers are detached, the channel is      *)
(* closed, and dropping the requests in it tells their callers.            *)
Drop ==
  /\ Idle
  /\ spc' = "dropped"
  /\ handles' = <<>>
  /\ queue' = <<>>
  /\ UNCHANGED <<now, tasks, nextId, registry, cells, mode, starts, pos, permit, client, gen>>

(* After that the last SchedulerHandle is dropped, with the registry and   *)
(* the senders in it: the drivers find their channel closed and return.    *)
DropHandles ==
  /\ spc = "dropped"
  /\ registry # <<>>
  /\ \A h \in Client : call[h].name = NoName
  /\ registry' = <<>>
  /\ driver' = [i \in Ids |-> IF driver[i] = "live" THEN "returned" ELSE driver[i]]
  /\ UNCHANGED <<now, tasks, handles, nextId, removeRequested, loop, queue, client, gen>>

-----------------------------------------------------------------------------
(* The loop of run_until: biased, the shutdown first.                      *)

StopAsked == mode = "run" /\ permit

(* shutdown_tasks: every driver is aborted and the handles are cleared, *)
StopTasks ==
  /\ spc = "select"
  /\ \/ StopAsked /\ permit' = FALSE
     \/ mode = "until" /\ UNCHANGED permit    \* the caller's own future resolves
  /\ driver' = [i \in Ids |-> IF i \in IdsOf(handles) THEN "aborted" ELSE driver[i]]
  /\ handles' = <<>>
  /\ spc' = "stopping"
  /\ mode' = "run"
  /\ UNCHANGED <<now, tasks, nextId, registry, removeRequested, starts, pos, queue, client, gen>>

(* and then the registry; the channel of the spawners stays open. *)
ClearRegistry ==
  /\ spc = "stopping"
  /\ registry' = <<>>
  /\ spc' = "stopped"
  /\ UNCHANGED <<now, tasks, handles, nextId, cells, mode, starts, pos, permit, queue, client, gen>>

(* run_task_gen: tg.next_exec <= now *)
GenDue == genNext # 0 /\ genNext <= now

(* Mutant: without tasks there is nothing else to do in a tick.            *)
NothingWithoutTasks ==
  IF GenDue THEN "discover" ELSE IF handles = <<>> THEN "select" ELSE "drain"

AfterCheck == IF GenDue THEN "discover" ELSE "drain"

(* tick: the generator first, if it is due. *)
BeginTick ==
  /\ spc = "select"
  /\ ~StopAsked
  /\ spc' = AfterCheck
  /\ UNCHANGED <<now, tasks, owned, cells, mode, starts, pos, permit, queue, client, gen>>

(* TaskGenerator::run at the end of its schedule: the ? returns before the *)
(* discovery, and next_exec stays where it was.                            *)
ScheduleEnds ==
  /\ spc = "discover"
  /\ Upcoming = 0
  /\ spc' = "drain"
  /\ UNCHANGED <<now, tasks, owned, cells, mode, starts, pos, permit, queue, client, gen>>

(* Mutant: only a discovery that yields a task moves the generator on.     *)
RescheduleIfAdded == IF handles' # handles THEN Upcoming ELSE genNext
Rescheduled == Upcoming

(* Otherwise the discovery function yields a task, nothing, or a task that *)
(* could not be built; add_task's result is ignored.                       *)
Discover ==
  /\ spc = "discover"
  /\ Upcoming # 0
  /\ \/ UNCHANGED <<owned, cells, tasks>>
     \/ HandIn /\ \E name \in Names : AddTaskGetId(name, "added")
  /\ genNext' = Rescheduled
  /\ discoveries' = discoveries + 1
  /\ spc' = "drain"
  /\ UNCHANGED <<now, mode, starts, pos, permit, queue, client>>

(* drain_spawns: one request after the other.  Whoever waits in            *)
(* spawn_get_id is sent the result; nothing depends on whether somebody    *)
(* still does.                                                             *)
TakeSpawn ==
  /\ spc = "drain"
  /\ queue # <<>>
  /\ \E result \in {"added", "duplicate"} : AddTaskGetId(Head(queue), result)
  /\ queue' = Tail(queue)
  /\ UNCHANGED <<now, tasks, loop, client, gen>>

(* until the channel is empty. *)
BeginRound ==
  /\ spc = "drain"
  /\ queue = <<>>
  /\ spc' = "reap"
  /\ UNCHANGED <<now, tasks, owned, cells, mode, starts, pos, permit, queue, client, gen>>

(* Mutant: only finished tasks are reaped.                                 *)
ReapsFinished(i) == driver[i] = "finished"
Reaps(i) == driver[i] = "finished" \/ removeRequested[i]

(* Mutant: a handle that is not retained is dropped and no more.           *)
DropHandle(i) == driver

(* JoinHandle::abort *)
Abort(i) == [driver EXCEPT ![i] = "aborted"]

(* dispatch_round, the retain: one handle is looked at. *)
Reap ==
  /\ spc = "reap"
  /\ pos \in DOMAIN handles
  /\ LET i == handles[pos].id
     IN  \/ /\ Reaps(i)
            /\ driver' = Abort(i)
            /\ handles' = SubSeq(handles, 1, pos - 1) \o SubSeq(handles, pos + 1, Len(handles))
            /\ UNCHANGED pos
         \/ /\ ~Reaps(i)
            /\ pos' = pos + 1
            /\ UNCHANGED <<driver, handles>>
  /\ UNCHANGED <<now, tasks, nextId, registry, removeRequested, spc, mode, starts, permit, queue,
                 client, gen>>

(* The rest of the round: the dispatch, for which see Dispatch, and the    *)
(* refresh of the registry.                                                *)
EndRound ==
  /\ spc = "reap"
  /\ pos \notin DOMAIN handles
  /\ UNCHANGED handles
  /\ registry' = Refreshed
  /\ spc' = "select"
  /\ pos' = 1
  /\ UNCHANGED <<now, tasks, nextId, cells, mode, starts, permit, queue, client, gen>>

-----------------------------------------------------------------------------
(* TaskSpawner: spawn and spawn_get_id.                                    *)

(* The receiver goes with the scheduler, not with the end of run. *)
Closed == spc = "dropped"

(* The request is queued.  A build error comes back before that, and a     *)
(* closed channel is an error too: neither changes anything here.          *)
Spawn ==
  /\ ~Closed
  /\ HandIn
  /\ \E name \in Names : queue' = Append(queue, name)
  /\ UNCHANGED <<now, owned, cells, loop, client, gen>>

-----------------------------------------------------------------------------
(* SchedulerHandle.                                                        *)

(* Notify::notify_one *)
Shutdown ==
  /\ ~permit
  /\ permit' = TRUE
  /\ UNCHANGED <<now, tasks, owned, cells, spc, mode, starts, pos, queue, client, gen>>

(* The entry for an id: with_entry, state_of, history and step_states. *)
Entry(i) == CHOOSE e \in {registry[k] : k \in DOMAIN registry} : e.id = i

(* id_of_name, under the registry's mutex; the calls by name then look the *)
(* id up again under the mutex of their own.                               *)
FindName(h) ==
  /\ call[h].name = NoName
  /\ calls < MaxCalls
  /\ \E k \in DOMAIN registry :
       /\ registry[k].name # NoName
       /\ call' = [call EXCEPT ![h] = registry[k]]
  /\ calls' = calls + 1
  /\ UNCHANGED <<now, tasks, owned, cells, loop, queue, gen>>

(* with_entry(id, f): f is the store of remove, or one of those that       *)
(* Dispatch is about.                                                      *)
WithEntry(i) ==
  \/ /\ i \in IdsOf(registry)
     /\ \/ removeRequested' = [removeRequested EXCEPT ![i] = TRUE]
        \/ UNCHANGED removeRequested
  \/ /\ i \notin IdsOf(registry)
     /\ UNCHANGED removeRequested

(* remove_name, pause_name, resume_name, trigger_name: the second lookup. *)
ActOnId(h) ==
  /\ call[h].name # NoName
  /\ WithEntry(call[h].id)
  /\ call' = [call EXCEPT ![h] = [id |-> 0, name |-> NoName]]
  /\ UNCHANGED <<now, tasks, owned, driver, loop, queue, calls, gen>>

(* remove, pause, resume, trigger with an id the client was told. *)
CallById(h) ==
  /\ call[h].name = NoName
  /\ calls < MaxCalls
  /\ \E i \in IdsOf(registry) : WithEntry(i)
  /\ calls' = calls + 1
  /\ UNCHANGED <<now, tasks, owned, driver, loop, queue, call, gen>>

-----------------------------------------------------------------------------
(* A task is over: its driver stores finished. *)
DriverFinishes(i) ==
  /\ driver[i] = "live"
  /\ driver' = [driver EXCEPT ![i] = "finished"]
  /\ UNCHANGED <<now, tasks, owned, removeRequested, loop, queue, client, gen>>

Advance ==
  /\ now < MaxTime
  /\ now' = now + 1
  /\ UNCHANGED <<tasks, owned, cells, loop, queue, client, gen>>

-----------------------------------------------------------------------------
Init ==
  /\ now = 0
  /\ tasks = 0
  /\ handles = <<>> /\ nextId = 0 /\ registry = <<>>
  /\ driver = [i \in Ids |-> "none"]
  /\ removeRequested = [i \in Ids |-> FALSE]
  /\ spc = "setup" /\ mode = "run" /\ starts = 0 /\ pos = 1 /\ permit = FALSE
  /\ genNext = 0 /\ discoveries = 0
  /\ queue = <<>>
  /\ call = [h \in Client |-> [id |-> 0, name |-> NoName]]
  /\ calls = 0

(* What the loop does once it was started, its caller's future apart. *)
Loop ==
  \/ (StopAsked /\ StopTasks) \/ ClearRegistry
  \/ BeginTick \/ ScheduleEnds \/ Discover \/ TakeSpawn \/ BeginRound \/ Reap \/ EndRound

Owner == AddTask \/ SetTaskGen \/ StartRun \/ CancelRun \/ Drop \/ DropHandles

Others ==
  \/ Spawn
  \/ \E h \in Client : FindName(h) \/ ActOnId(h) \/ CallById(h)
  \/ Shutdown
  \/ \E i \in Ids : DriverFinishes(i)
  \/ Advance

Next == Loop \/ StopTasks \/ Owner \/ Others

Spec == Init /\ [][Next]_vars

(* The interval ticks for ever and the runtime polls the loop. *)
FairSpec == Spec /\ WF_vars(Loop)

-----------------------------------------------------------------------------
(* Properties.                                                             *)

(* Every cell holds a value of its type. *)
TypeOK ==
  /\ now \in Nat /\ tasks \in Nat /\ nextId \in Nat /\ starts \in Nat /\ pos \in Nat
  /\ genNext \in Nat /\ discoveries \in Nat /\ calls \in Nat
  /\ handles \in Seq([id : Ids, name : Names]) /\ registry \in Seq([id : Ids, name : Names])
  /\ driver \in [Ids -> {"none", "live", "finished", "aborted", "returned"}]
  /\ removeRequested \in [Ids -> BOOLEAN]
  /\ spc \in {"setup", "select", "discover", "drain", "reap", "stopping", "stopped", "dropped"}
  /\ mode \in {"run", "until"} /\ permit \in BOOLEAN
  /\ queue \in Seq(Names)
  /\ call \in [Client -> [id : Ids, name : Names]]

(* What handles see is exactly what the scheduler has, but for the moments *)
(* between a retain or an abort and the refresh after it, and then all     *)
(* they see besides is tasks whose driver was aborted: a call on such a    *)
(* task returns true and does nothing.                                     *)
RegistryLagsOneRound ==
  /\ spc \notin {"reap", "stopping", "dropped"} => registry = handles
  /\ IdsOf(handles) \subseteq IdsOf(registry)
  /\ spc # "dropped" =>
       \A i \in IdsOf(registry) \ IdsOf(handles) : driver[i] = "aborted"

(* A driver that lives can be found by handles, and the scheduler will     *)
(* abort it, unless it has been dropped itself; so no task runs on that    *)
(* nobody can stop.  It holds too for a task whose id spawn_get_id has     *)
(* just returned.                                                          *)
LiveIsRegistered ==
  \A i \in Ids : driver[i] = "live" =>
    /\ i \in IdsOf(registry)
    /\ spc # "dropped" => i \in IdsOf(handles)

(* The generator looks for tasks at most once per instant of its schedule, *)
(* and not before the instant, however many rounds see it due and whether  *)
(* or not it finds a task.                                                 *)
DiscoveryPerInstant == discoveries <= Cardinality({s \in GenSlots : s <= now})

(* Registration and reaping keep the promise of Directory to handles.      *)
D == INSTANCE Directory WITH
       dir <- {registry[k] : k \in DOMAIN registry}, fresh <- nextId
ImplementsDirectory == D!Spec

(* A call by name makes two lookups.  The task the second one finds, if it *)
(* finds one, carries that name: what came or went in between is never     *)
(* removed, paused, resumed or triggered in its place.                     *)
NameCallHitsNamedTask ==
  [][\A h \in Client :
       call[h].name # NoName /\ call'[h].name = NoName /\ call[h].id \in IdsOf(registry) =>
         Entry(call[h].id).name = call[h].name]_vars

(* When a request is answered, handles can see why: either the task of the *)
(* request, under the id the caller is told, or the task that carries its  *)
(* name, even if both were queued for the same round.                      *)
AnswerIsVisible ==
  [][spc = "drain" /\ Len(queue') < Len(queue) =>
       \E k \in DOMAIN registry' :
         /\ registry'[k].name = Head(queue)
         /\ nextId' # nextId => registry'[k].id = nextId
         /\ nextId' = nextId => Head(queue) # NoName]_vars

(* spawn_get_id does not wait for ever while the loop runs.                *)
SpawnAnswered == queue # <<>> ~> (queue = <<>> \/ ~Looping)

(* A task that was removed is reaped while the loop runs, which frees its  *)
(* name: a spawn under that name succeeds in the end.                      *)
RemovalCompletes ==
  \A i \in Ids :
    (i \in IdsOf(handles) /\ removeRequested[i]) ~> (i \notin IdsOf(handles) \/ ~Looping)

(* TaskSpawner::spawn: "Returns TaskError::ExecutionError if the scheduler *)
(* has already stopped", and so spawn_get_id.                              *)
StoppedRefusesSpawns == [][spc = "stopped" => Len(queue') <= Len(queue)]_vars
=============================================================================
