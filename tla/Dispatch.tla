------------------------------ MODULE Dispatch ------------------------------
(***************************************************************************)
(* How tasklet decides that a task runs.                                   *)
(*                                                                         *)
(* Three kinds of actor meet in the cells of a task's TaskShared and in    *)
(* its one-place command channel:                                          *)
(*   - the scheduler, one round after the other (TaskScheduler::run_until, *)
(*     tick, dispatch_round, shutdown_tasks);                              *)
(*   - one driver per task, the Tokio task that task::run_task is;         *)
(*   - any number of callers of a SchedulerHandle (trigger, pause, resume, *)
(*     remove, shutdown).                                                  *)
(* Every action below is one access to a shared cell together with the     *)
(* local computation around it, so on a multi-threaded runtime the actors  *)
(* interleave exactly where the source lets them.  On a current-thread     *)
(* runtime an actor keeps the thread until its next await.                 *)
(*                                                                         *)
(* The tasks are registered before the loop starts.  What a run does step  *)
(* by step, its history and the registration of tasks are not told apart   *)
(* here.                                                                   *)
(***************************************************************************)
EXTENDS Naturals

CONSTANTS
  Task,         \* the registered tasks, by id
  NoTask,       \* not a task: the scheduler is between two handles
  Overlap,      \* Overlap[t]: "Skip" or "Queue"
  Repeats,      \* Repeats[t]: how many executions are asked for, or Forever
  Forever,      \* Repeats[t] of a task built without repeat(n)
  Slots,        \* Slots[t]: the instants of t's cron schedule
  MultiThread,  \* TRUE: worker threads run in parallel; FALSE: one thread
  MayPanic,     \* whether a step may panic
  MaxTime,      \* bound: the clock stops there
  MaxCalls      \* bound: how many calls of a handle are made, shutdown apart

ASSUME ConstantsAssumption ==
  /\ NoTask \notin Task
  /\ Forever \notin Nat
  /\ Overlap \in [Task -> {"Skip", "Queue"}]
  /\ Repeats \in [Task -> Nat \union {Forever}]
  /\ Slots \in [Task -> SUBSET (Nat \ {0})]
  /\ MultiThread \in BOOLEAN
  /\ MayPanic \in BOOLEAN
  /\ MaxTime \in Nat
  /\ MaxCalls \in Nat

VARIABLES
  (* The clock, in the granularity of the cron schedules. *)
  now,
  (* TaskShared, one cell of each kind per task. *)
  running, pending, finished, paused, removeRequested,
  runs,        \* runs started over the task's lifetime
  published,   \* SharedState: [status, next], what the scheduler sees
  (* The command channel of a task: how many Run are in it, 0 or 1. *)
  chan,
  (* The driver of a task: its program counter and the fields of its Task. *)
  pc,
  inner,       \* the run in progress comes from the drain of pending
  status, next, left,
  aborted,     \* JoinHandle::abort has been called
  (* The scheduler. *)
  handles,     \* TaskScheduler::handles
  registry,    \* the entries a SchedulerHandle sees
  spc, todo, cur, roundNow,
  permit,      \* the Notify of shutdown: 1 when a request is stored
  (* A call of SchedulerHandle::trigger between its read and its write. *)
  trig, calls,
  (* Observations, read by no action. *)
  execs,       \* how often the steps of a task were executed
  onFinish,    \* how often its on_finish callback was invoked
  sent         \* Runs the scheduler put in the channel since the last publish

sharedVars == <<running, pending, finished, paused, removeRequested, runs, published, chan>>
driverVars == <<pc, inner, status, next, left>>
schedVars  == <<handles, registry, spc, todo, cur, roundNow, permit, aborted>>
clientVars == <<trig, calls>>
seenVars   == <<execs, onFinish, sent>>
vars == <<now, sharedVars, driverVars, schedVars, clientVars, seenVars>>

None == 0      \* next_exec = None; an instant of a schedule is positive

Statuses == {"Init", "Scheduled", "Failed", "Executed", "Finished", "ForceRemoved"}
Terminal(t) == status[t] \in {"Finished", "ForceRemoved"}   \* Task::is_terminal

(* The driver has ended: it returned, was cancelled, or a step panicked.   *)
Ended(t) == pc[t] \in {"done", "gone", "dead"}

(* Between the Run a driver took and the publication of its result.        *)
InRun(t) == pc[t] \in {"begin", "steps", "callbacks", "notify", "retire", "publish"}

(* A driver inside a step or a callback, which is code of the user.        *)
InUserCode(t) ==
  \/ pc[t] \in {"steps", "callbacks"}
  \/ pc[t] = "notify" /\ status[t] = "Finished"

(* Mutant: a driver that waits for a Run is not cancelled. *)
AtAwaitOfUser(t) == pc[t] = "spawned" \/ InUserCode(t)

(* Places where a driver is suspended in an await and can be cancelled.    *)
AtAwait(t) == pc[t] \in {"spawned", "receive"} \/ InUserCode(t)

(* The registry mutex is held from the read of trigger to its write.       *)
RegistryFree == \A t \in Task : trig[t] = "no"

(* On one thread an actor goes on only while all others are suspended, and *)
(* a driver that was aborted while suspended is not polled again.          *)
SchedulerSuspended == spc \in {"select", "stopped"}
ThreadFree(t) ==
  \/ MultiThread
  \/ /\ SchedulerSuspended /\ RegistryFree
     /\ \A u \in Task \ {t} : AtAwait(u) \/ Ended(u)
DriverTurn(t) == ThreadFree(t) /\ (MultiThread \/ ~aborted[t])
SchedulerTurn ==
  \/ MultiThread
  \/ RegistryFree /\ \A t \in Task : AtAwait(t) \/ Ended(t)
ClientTurn ==
  \/ MultiThread
  \/ SchedulerSuspended /\ \A t \in Task : AtAwait(t) \/ Ended(t)

-----------------------------------------------------------------------------
(* The clock and the cron schedule.                                        *)

Tick ==
  /\ now < MaxTime
  /\ now' = now + 1
  /\ UNCHANGED <<sharedVars, driverVars, schedVars, clientVars, seenVars>>

(* schedule.upcoming(tz): the instants strictly after the present one.     *)
Upcoming(t) == {s \in Slots[t] : s > now}
IsFirst(s, S) == s \in S /\ \A r \in S : s <= r

-----------------------------------------------------------------------------
(* The driver of a task: run_task, run_once.                               *)

(* Task::init, publish, and the early return of a task without upcoming    *)
(* instant.  The store of finished follows publish at once; both are one   *)
(* step because what publish changes there no other actor acts on.         *)
InitTask(t) ==
  /\ DriverTurn(t)
  /\ pc[t] = "spawned"
  /\ \/ /\ Upcoming(t) = {}
        /\ status' = [status EXCEPT ![t] = "Finished"]
        /\ published' = [published EXCEPT ![t] = [status |-> "Finished", next |-> None]]
        /\ finished' = [finished EXCEPT ![t] = TRUE]
        /\ pc' = [pc EXCEPT ![t] = "done"]
        /\ chan' = [chan EXCEPT ![t] = 0]
        /\ UNCHANGED next
     \/ \E s \in Upcoming(t) :
        /\ IsFirst(s, Upcoming(t))
        /\ status' = [status EXCEPT ![t] = "Scheduled"]
        /\ next' = [next EXCEPT ![t] = s]
        /\ published' = [published EXCEPT ![t] = [status |-> "Scheduled", next |-> s]]
        /\ pc' = [pc EXCEPT ![t] = "receive"]
        /\ UNCHANGED <<finished, chan>>
  /\ UNCHANGED <<now, running, pending, paused, removeRequested, runs, inner, left,
                 schedVars, clientVars, seenVars>>

(* receiver.recv() returns a Run. *)
Receive(t) ==
  /\ DriverTurn(t)
  /\ pc[t] = "receive"
  /\ chan[t] = 1
  /\ chan' = [chan EXCEPT ![t] = 0]
  /\ inner' = [inner EXCEPT ![t] = FALSE]
  /\ pc' = [pc EXCEPT ![t] = "begin"]
  /\ UNCHANGED <<now, running, pending, finished, paused, removeRequested, runs, published,
                 status, next, left, schedVars, clientVars, seenVars>>

(* run_once up to its first await: start_run counts the run, then running. *)
StartRun(t) ==
  /\ DriverTurn(t)
  /\ pc[t] = "begin"
  /\ runs' = [runs EXCEPT ![t] = @ + 1]
  /\ running' = [running EXCEPT ![t] = TRUE]
  /\ pc' = [pc EXCEPT ![t] = "steps"]
  /\ UNCHANGED <<now, pending, finished, paused, removeRequested, published, chan, inner,
                 status, next, left, schedVars, clientVars, seenVars>>

(* Mutant: only a task that asked for its removal is refused. *)
MayRunUnlessRemoved(t) == status[t] # "ForceRemoved"

(* run_task refuses a task in any other status. *)
MayRun(t) == status[t] = "Scheduled"

(* Mutant: the remaining repeats are not counted down. *)
SameRepeats(r) == r

(* repeats.map(|r| r.saturating_sub(1)) *)
OneLess(r) == IF r \in Nat /\ r > 0 THEN r - 1 ELSE r

(* Task::run_task: a task that is not Scheduled is refused and left as it  *)
(* is; otherwise its steps run, with one of three results.                 *)
RunSteps(t) ==
  /\ DriverTurn(t)
  /\ pc[t] = "steps"
  /\ \/ /\ ~MayRun(t)
        /\ UNCHANGED <<status, left, execs>>
     \/ /\ MayRun(t)
        /\ \E s \in {"Executed", "Failed", "ForceRemoved"} :
              status' = [status EXCEPT ![t] = s]
        /\ left' = [left EXCEPT ![t] = OneLess(@)]
        /\ execs' = [execs EXCEPT ![t] = @ + 1]
  /\ pc' = [pc EXCEPT ![t] = "callbacks"]
  /\ UNCHANGED <<now, sharedVars, inner, next, schedVars, clientVars, onFinish, sent>>

(* A step or a callback panics: the Tokio task ends there and nothing      *)
(* clears its cells.  A task that is refused calls neither before on_finish. *)
UserCodePanics(t) ==
  /\ MayPanic
  /\ DriverTurn(t)
  /\ InUserCode(t)
  /\ pc[t] = "steps" => MayRun(t)
  /\ pc[t] = "callbacks" => status[t] # "Finished"
  /\ pc' = [pc EXCEPT ![t] = "dead"]
  /\ chan' = [chan EXCEPT ![t] = 0]
  /\ UNCHANGED <<now, running, pending, finished, paused, removeRequested, runs, published,
                 inner, status, next, left, schedVars, clientVars, seenVars>>

(* The callbacks of run_and_notify return (on_finish among them when the   *)
(* task is ForceRemoved) and Task::reschedule moves the task on.           *)
Reschedule(t) ==
  /\ DriverTurn(t)
  /\ pc[t] = "callbacks"
  /\ onFinish' = [onFinish EXCEPT ![t] = IF status[t] = "ForceRemoved" THEN @ + 1 ELSE @]
  /\ \/ /\ status[t] \notin {"Executed", "Failed"}
        /\ UNCHANGED <<status, next>>
     \/ /\ status[t] \in {"Executed", "Failed"}
        /\ left[t] = 0 \/ Upcoming(t) = {}
        /\ status' = [status EXCEPT ![t] = "Finished"]
        /\ UNCHANGED next
     \/ /\ status[t] \in {"Executed", "Failed"}
        /\ left[t] # 0
        /\ \E s \in Upcoming(t) :
           /\ IsFirst(s, Upcoming(t))
           /\ next' = [next EXCEPT ![t] = s]
           /\ status' = [status EXCEPT ![t] = "Scheduled"]
  /\ pc' = [pc EXCEPT ![t] = "notify"]
  /\ UNCHANGED <<now, sharedVars, inner, left, schedVars, clientVars, execs, sent>>

(* Mutant: on_finish is called at the end of the schedule, not after the last repeat. *)
CallOnFinishAtScheduleEnd(t) ==
  onFinish' = [onFinish EXCEPT ![t] = IF status[t] = "Finished" /\ left[t] # 0 THEN @ + 1 ELSE @]

(* if self.status == Status::Finished { fire_callback(on_finish) } *)
CallOnFinish(t) ==
  onFinish' = [onFinish EXCEPT ![t] = IF status[t] = "Finished" THEN @ + 1 ELSE @]

(* The rest of reschedule_and_notify, and running.store(false). *)
ClearRunning(t) ==
  /\ DriverTurn(t)
  /\ pc[t] = "notify"
  /\ CallOnFinish(t)
  /\ running' = [running EXCEPT ![t] = FALSE]
  /\ pc' = [pc EXCEPT ![t] = "retire"]
  /\ UNCHANGED <<now, pending, finished, paused, removeRequested, runs, published, chan,
                 inner, status, next, left, schedVars, clientVars, execs, sent>>

(* if task.is_terminal() { finished.store(true) } *)
Retire(t) ==
  /\ DriverTurn(t)
  /\ pc[t] = "retire"
  /\ finished' = [finished EXCEPT ![t] = @ \/ Terminal(t)]
  /\ pc' = [pc EXCEPT ![t] = "publish"]
  /\ UNCHANGED <<now, running, pending, paused, removeRequested, runs, published, chan,
                 inner, status, next, left, schedVars, clientVars, seenVars>>

(* Mutant: the scheduler goes on seeing the instant of the run that ended. *)
PublishStatusOnly(t) ==
  /\ DriverTurn(t)
  /\ pc[t] = "publish"
  /\ published' = [published EXCEPT ![t].status = status[t]]
  /\ sent' = [sent EXCEPT ![t] = 0]
  /\ pc' = [pc EXCEPT ![t] = "loop"]
  /\ UNCHANGED <<now, running, pending, finished, paused, removeRequested, runs, chan,
                 inner, status, next, left, schedVars, clientVars, execs, onFinish>>

(* publish: the scheduler now sees the new status and instant. *)
Publish(t) ==
  /\ DriverTurn(t)
  /\ pc[t] = "publish"
  /\ published' = [published EXCEPT ![t] = [status |-> status[t], next |-> next[t]]]
  /\ sent' = [sent EXCEPT ![t] = 0]
  /\ pc' = [pc EXCEPT ![t] = "loop"]
  /\ UNCHANGED <<now, running, pending, finished, paused, removeRequested, runs, chan,
                 inner, status, next, left, schedVars, clientVars, execs, onFinish>>

(* Mutant: a task paused meanwhile forgets its pending run. *)
DrainsUnlessPaused(t) == pending[t] /\ ~Terminal(t) /\ ~paused[t]

(* pending.swap(false) && !task.is_terminal() *)
Drains(t) == pending[t] /\ ~Terminal(t)

(* The loops of run_task.  A finished task leaves the outer loop after a   *)
(* run that was received; after a run drained from pending the break       *)
(* leaves the inner loop only, and the driver waits for a Run again.       *)
Loop(t) ==
  /\ DriverTurn(t)
  /\ pc[t] = "loop"
  /\ \/ /\ finished[t] /\ ~inner[t]
        /\ pc' = [pc EXCEPT ![t] = "done"]
        /\ chan' = [chan EXCEPT ![t] = 0]
        /\ UNCHANGED <<pending, inner>>
     \/ /\ finished[t] /\ inner[t]
        /\ pc' = [pc EXCEPT ![t] = "receive"]
        /\ UNCHANGED <<chan, pending, inner>>
     \/ /\ ~finished[t]
        /\ pending' = [pending EXCEPT ![t] = FALSE]
        /\ inner' = [inner EXCEPT ![t] = Drains(t)]
        /\ pc' = [pc EXCEPT ![t] = IF Drains(t) THEN "begin" ELSE "receive"]
        /\ UNCHANGED chan
  /\ UNCHANGED <<now, running, finished, paused, removeRequested, runs, published,
                 status, next, left, schedVars, clientVars, seenVars>>

(* The runtime cancels an aborted driver at an await.  A driver that is    *)
(* being polled goes on to its next await first, and may not stop there    *)
(* when what it awaits is ready.                                           *)
Cancel(t) ==
  /\ ThreadFree(t)
  /\ aborted[t]
  /\ AtAwait(t)
  /\ pc' = [pc EXCEPT ![t] = "gone"]
  /\ chan' = [chan EXCEPT ![t] = 0]
  /\ UNCHANGED <<now, running, pending, finished, paused, removeRequested, runs, published,
                 inner, status, next, left, schedVars, clientVars, seenVars>>

DriverStep(t) ==
  \/ InitTask(t) \/ Receive(t) \/ StartRun(t) \/ RunSteps(t) \/ UserCodePanics(t)
  \/ Reschedule(t) \/ ClearRunning(t) \/ Retire(t) \/ Publish(t) \/ Loop(t) \/ Cancel(t)

-----------------------------------------------------------------------------
(* The scheduler: run_until, tick, dispatch_round, shutdown_tasks.         *)

(* Mutant: mpsc::channel(2). *)
TrySendToTwo(t) ==
  chan' = [chan EXCEPT ![t] = IF Ended(t) \/ @ = 2 THEN @ ELSE @ + 1]

(* sender.try_send(Run): dropped when the channel is full or closed. *)
TrySend(t) == chan' = [chan EXCEPT ![t] = IF Ended(t) THEN @ ELSE 1]

(* interval.tick() wins the select; dispatch_round reads the clock once. *)
StartRound ==
  /\ SchedulerTurn
  /\ spc = "select"
  /\ permit = 0
  /\ roundNow' = now
  /\ todo' = handles
  /\ spc' = "reap"
  /\ UNCHANGED <<now, sharedVars, driverVars, handles, registry, cur, permit,
                 aborted, clientVars, seenVars>>

(* Mutant: a request of removal is not looked at. *)
Retired(t) == finished[t]

Reapable(t) == finished[t] \/ removeRequested[t]

(* One handle of handles.retain.  The two flags are only ever set, so      *)
(* reading them together loses no outcome of reading them in turn.         *)
Reap(t) ==
  /\ SchedulerTurn
  /\ spc = "reap"
  /\ t \in todo
  /\ todo' = todo \ {t}
  /\ \/ /\ Reapable(t)
        /\ handles' = handles \ {t}
        /\ aborted' = [aborted EXCEPT ![t] = TRUE]
     \/ /\ ~Reapable(t)
        /\ UNCHANGED <<handles, aborted>>
  /\ UNCHANGED <<now, sharedVars, driverVars, registry, spc, cur, roundNow, permit,
                 clientVars, seenVars>>

ReapDone ==
  /\ SchedulerTurn
  /\ spc = "reap"
  /\ todo = {}
  /\ todo' = handles
  /\ spc' = "dispatch"
  /\ UNCHANGED <<now, sharedVars, driverVars, handles, registry, cur, roundNow,
                 permit, aborted, clientVars, seenVars>>

(* The next handle: a paused task is passed over. *)
VisitHandle(t) ==
  /\ SchedulerTurn
  /\ spc = "dispatch"
  /\ t \in todo
  /\ todo' = todo \ {t}
  /\ \/ /\ paused[t]
        /\ UNCHANGED <<spc, cur>>
     \/ /\ ~paused[t]
        /\ spc' = "due"
        /\ cur' = t
  /\ UNCHANGED <<now, sharedVars, driverVars, handles, registry, roundNow, permit,
                 aborted, clientVars, seenVars>>

(* Mutants: a comparison off by one, in either direction. *)
DueEarly(t) == published[t].next # None /\ roundNow + 1 >= published[t].next
DueLate(t) == published[t].next # None /\ roundNow > published[t].next

(* Whether the published instant has come, at the clock of the round. *)
Due(t) == published[t].next # None /\ roundNow >= published[t].next

CheckDue ==
  /\ SchedulerTurn
  /\ spc = "due"
  /\ \/ /\ Due(cur)
        /\ spc' = "busy"
        /\ UNCHANGED cur
     \/ /\ ~Due(cur)
        /\ spc' = "dispatch"
        /\ cur' = NoTask
  /\ UNCHANGED <<now, sharedVars, driverVars, handles, registry, todo, roundNow,
                 permit, aborted, clientVars, seenVars>>

(* Mutant: a run in progress is not looked at. *)
NeverBusy ==
  /\ SchedulerTurn
  /\ spc = "busy"
  /\ spc' = "send"
  /\ UNCHANGED <<now, sharedVars, driverVars, handles, registry, todo, cur, roundNow,
                 permit, aborted, clientVars, seenVars>>

(* running.load(): the overlap policy is applied to a run in progress. *)
CheckRunning ==
  /\ SchedulerTurn
  /\ spc = "busy"
  /\ \/ /\ ~running[cur]
        /\ spc' = "send"
        /\ UNCHANGED cur
     \/ /\ running[cur] /\ Overlap[cur] = "Queue"
        /\ spc' = "queue"
        /\ UNCHANGED cur
     \/ /\ running[cur] /\ Overlap[cur] = "Skip"
        /\ spc' = "dispatch"
        /\ cur' = NoTask
  /\ UNCHANGED <<now, sharedVars, driverVars, handles, registry, todo, roundNow,
                 permit, aborted, clientVars, seenVars>>

SendRun ==
  /\ SchedulerTurn
  /\ spc = "send"
  /\ TrySend(cur)
  /\ sent' = [sent EXCEPT ![cur] = IF chan'[cur] # chan[cur] THEN @ + 1 ELSE @]
  /\ spc' = "dispatch"
  /\ cur' = NoTask
  /\ UNCHANGED <<now, running, pending, finished, paused, removeRequested, runs, published,
                 driverVars, handles, registry, todo, roundNow, permit, aborted,
                 clientVars, execs, onFinish>>

QueueRun ==
  /\ SchedulerTurn
  /\ spc = "queue"
  /\ pending' = [pending EXCEPT ![cur] = TRUE]
  /\ spc' = "dispatch"
  /\ cur' = NoTask
  /\ UNCHANGED <<now, running, finished, paused, removeRequested, runs, published, chan,
                 driverVars, handles, registry, todo, roundNow, permit, aborted,
                 clientVars, seenVars>>

(* refresh_registry ends the round. *)
Refresh ==
  /\ SchedulerTurn
  /\ spc = "dispatch"
  /\ todo = {}
  /\ RegistryFree
  /\ registry' = handles
  /\ spc' = "select"
  /\ UNCHANGED <<now, sharedVars, driverVars, handles, todo, cur, roundNow, permit,
                 aborted, clientVars, seenVars>>

(* The shutdown future wins the select: every driver is aborted. *)
StopLoop ==
  /\ SchedulerTurn
  /\ spc = "select"
  /\ permit = 1
  /\ RegistryFree
  /\ permit' = 0
  /\ aborted' = [t \in Task |-> aborted[t] \/ t \in handles]
  /\ handles' = {}
  /\ registry' = {}
  /\ spc' = "stopped"
  /\ UNCHANGED <<now, sharedVars, driverVars, todo, cur, roundNow, clientVars, seenVars>>

SchedulerStep ==
  \/ StartRound \/ ReapDone \/ CheckDue \/ CheckRunning \/ SendRun \/ QueueRun
  \/ Refresh \/ StopLoop
  \/ \E t \in Task : Reap(t) \/ VisitHandle(t)

-----------------------------------------------------------------------------
(* Callers of a SchedulerHandle.  with_entry keeps the registry locked.    *)

(* Mutant: the two branches of trigger are swapped. *)
TriggerSwapped(t) == IF running[t] THEN "send" ELSE "pend"

(* A run in progress is followed by the pending one; an idle task gets a Run. *)
TriggerKind(t) == IF running[t] THEN "pend" ELSE "send"

Called == calls < MaxCalls /\ calls' = calls + 1

TriggerReads(t) ==
  /\ ClientTurn
  /\ RegistryFree
  /\ t \in registry
  /\ Called
  /\ trig' = [trig EXCEPT ![t] = TriggerKind(t)]
  /\ UNCHANGED <<now, sharedVars, driverVars, schedVars, seenVars>>

TriggerActs(t) ==
  /\ \/ /\ trig[t] = "pend"
        /\ pending' = [pending EXCEPT ![t] = TRUE]
        /\ UNCHANGED chan
     \/ /\ trig[t] = "send"
        /\ TrySend(t)
        /\ UNCHANGED pending
  /\ trig' = [trig EXCEPT ![t] = "no"]
  /\ UNCHANGED <<now, running, finished, paused, removeRequested, runs, published,
                 driverVars, schedVars, calls, seenVars>>

Pause(t) ==
  /\ ClientTurn
  /\ RegistryFree
  /\ t \in registry
  /\ Called
  /\ paused' = [paused EXCEPT ![t] = TRUE]
  /\ UNCHANGED <<now, running, pending, finished, removeRequested, runs, published, chan,
                 driverVars, schedVars, trig, seenVars>>

Resume(t) ==
  /\ ClientTurn
  /\ RegistryFree
  /\ t \in registry
  /\ Called
  /\ paused' = [paused EXCEPT ![t] = FALSE]
  /\ UNCHANGED <<now, running, pending, finished, removeRequested, runs, published, chan,
                 driverVars, schedVars, trig, seenVars>>

Remove(t) ==
  /\ ClientTurn
  /\ RegistryFree
  /\ t \in registry
  /\ Called
  /\ removeRequested' = [removeRequested EXCEPT ![t] = TRUE]
  /\ UNCHANGED <<now, running, pending, finished, paused, runs, published, chan,
                 driverVars, schedVars, trig, seenVars>>

(* shutdown: notify_one stores a permit, so an early request is kept. *)
RequestStop ==
  /\ ClientTurn
  /\ permit' = 1
  /\ UNCHANGED <<now, sharedVars, driverVars, handles, registry, spc, todo, cur, roundNow,
                 aborted, clientVars, seenVars>>

ClientStep ==
  \/ RequestStop
  \/ \E t \in Task : Pause(t) \/ Resume(t) \/ Remove(t) \/ TriggerReads(t) \/ TriggerActs(t)

-----------------------------------------------------------------------------
Init ==
  /\ now = 0
  /\ running = [t \in Task |-> FALSE]
  /\ pending = [t \in Task |-> FALSE]
  /\ finished = [t \in Task |-> FALSE]
  /\ paused = [t \in Task |-> FALSE]
  /\ removeRequested = [t \in Task |-> FALSE]
  /\ runs = [t \in Task |-> 0]
  /\ published = [t \in Task |-> [status |-> "Init", next |-> None]]
  /\ chan = [t \in Task |-> 0]
  /\ pc = [t \in Task |-> "spawned"]
  /\ inner = [t \in Task |-> FALSE]
  /\ status = [t \in Task |-> "Init"]
  /\ next = [t \in Task |-> None]
  /\ left = Repeats
  /\ aborted = [t \in Task |-> FALSE]
  /\ handles = Task
  /\ registry = Task
  /\ spc = "select"
  /\ todo = {}
  /\ cur = NoTask
  /\ roundNow = 0
  /\ permit = 0
  /\ trig = [t \in Task |-> "no"]
  /\ calls = 0
  /\ execs = [t \in Task |-> 0]
  /\ onFinish = [t \in Task |-> 0]
  /\ sent = [t \in Task |-> 0]

Next ==
  \/ Tick
  \/ SchedulerStep
  \/ ClientStep
  \/ \E t \in Task : DriverStep(t)

(* The runtime polls what is ready, the interval ticks, and a call that    *)
(* was begun returns.  A driver is ready again and again rather than all   *)
(* the time when it shares its thread.  Code of the user may take forever, *)
(* nobody has to call anything, and the clock need not reach an instant.   *)
Fairness ==
  /\ WF_vars(SchedulerStep)
  /\ \A t \in Task : SF_vars(~InUserCode(t) /\ DriverStep(t)) /\ WF_vars(TriggerActs(t))

Spec == Init /\ [][Next]_vars
FairSpec == Spec /\ Fairness

-----------------------------------------------------------------------------
(* Properties of every runtime.                                            *)

(* Every cell holds a value of its type; the channel holds one Run at most. *)
TypeOK ==
  /\ now \in 0..MaxTime
  /\ running \in [Task -> BOOLEAN]
  /\ pending \in [Task -> BOOLEAN]
  /\ finished \in [Task -> BOOLEAN]
  /\ paused \in [Task -> BOOLEAN]
  /\ removeRequested \in [Task -> BOOLEAN]
  /\ runs \in [Task -> Nat]
  /\ published \in [Task -> [status : Statuses, next : Nat]]
  /\ chan \in [Task -> 0..1]
  /\ pc \in [Task -> {"spawned", "receive", "begin", "steps", "callbacks", "notify",
                      "retire", "publish", "loop", "done", "gone", "dead"}]
  /\ inner \in [Task -> BOOLEAN]
  /\ status \in [Task -> Statuses]
  /\ next \in [Task -> Nat]
  /\ left \in [Task -> Nat \union {Forever}]
  /\ aborted \in [Task -> BOOLEAN]
  /\ handles \subseteq Task
  /\ registry \subseteq Task
  /\ spc \in {"select", "reap", "dispatch", "due", "busy", "send", "queue", "stopped"}
  /\ todo \subseteq Task
  /\ cur \in Task \union {NoTask}
  /\ spc \in {"due", "busy", "send", "queue"} => cur \in Task
  /\ roundNow \in 0..MaxTime
  /\ permit \in 0..1
  /\ trig \in [Task -> {"no", "pend", "send"}]
  /\ calls \in 0..MaxCalls
  /\ execs \in [Task -> Nat]
  /\ onFinish \in [Task -> Nat]
  /\ sent \in [Task -> Nat]

(* A driver that waits for a Run has cleared running and published what it *)
(* knows, so what the scheduler sees of an idle task is never stale.       *)
ParkedMeansPublished ==
  \A t \in Task :
    pc[t] = "receive" =>
      ~running[t] /\ published[t] = [status |-> status[t], next |-> next[t]]

(* The steps of a task built with repeat(n) are executed at most n times,  *)
(* whatever asks for runs and however requests and retirement race; once   *)
(* for repeat(0), because the count is looked at after a run only.         *)
ExecutionsWithinRepeats ==
  \A t \in Task : Repeats[t] \in Nat => execs[t] <= (IF Repeats[t] = 0 THEN 1 ELSE Repeats[t])

(* After finished is set no step of the task is executed, although a Run   *)
(* may still be received and counted as a run.                             *)
RetiredNeverExecutes ==
  [][\A t \in Task : finished[t] => execs'[t] = execs[t]]_vars

(* Between two publications the scheduler sends at most one Run on a single *)
(* thread, and at most two when the driver can be between receiving a Run  *)
(* and setting running, or between clearing running and publishing.        *)
SentPerInstant == \A t \in Task : sent[t] <= (IF MultiThread THEN 2 ELSE 1)

(* finished makes the scheduler abort the driver, so on_finish has been    *)
(* called before finished is set, for every task that had a run.           *)
AnnouncedBeforeRetired ==
  \A t \in Task : finished[t] /\ runs[t] > 0 => onFinish[t] > 0

(* The channel, the pending flag and the driver of a task together are a   *)
(* queue of runs: a run starts only for a request, requests are dropped    *)
(* only with the task, and runs do not overlap.                            *)
PhaseOf(t) == IF Ended(t) THEN "over" ELSE IF InRun(t) THEN "busy" ELSE "idle"
WaitingOf(t) == IF Ended(t) THEN 0 ELSE chan[t] + (IF pending[t] THEN 1 ELSE 0)
StartedOf(t) == runs[t] + (IF pc[t] = "begin" THEN 1 ELSE 0)
Queue(t) == INSTANCE RunQueue WITH
  phase <- PhaseOf(t), waiting <- WaitingOf(t), started <- StartedOf(t)

ImplementsRunQueue ==
  /\ \A t \in Task : Queue(t)!Init
  /\ [][\A t \in Task : [Queue(t)!Next]_(Queue(t)!vars)]_vars

-----------------------------------------------------------------------------
(* Properties of a current-thread runtime, where an actor keeps the thread *)
(* until it awaits.                                                        *)

(* "at most one Run is ever in flight": no Run waits in the channel while  *)
(* the driver is busy with one.                                            *)
OneRunInFlight == \A t \in Task : chan[t] = 1 => ~InRun(t)

(* A run queued behind a run in progress is not left behind: the driver    *)
(* does not wait for a Run while pending is set, unless it has retired.    *)
NoStrandedPending ==
  \A t \in Task : pc[t] = "receive" /\ pending[t] => finished[t]

(* What a round read of a task still holds when it sends the Run: the task *)
(* is idle, its own next instant has come, it is not paused and nobody has *)
(* asked for its removal.                                                  *)
DispatchedOnlyIfDue ==
  [][\A t \in Task :
       spc = "send" /\ cur = t /\ chan'[t] # chan[t] =>
         /\ pc[t] = "receive"
         /\ next[t] # None /\ next[t] <= now
         /\ ~paused[t] /\ ~removeRequested[t] /\ ~finished[t]]_vars

(* Every request that was accepted is served or ends with the task, even   *)
(* if steps of this or of another task never return.                       *)
NoRequestLost == \A t \in Task : Queue(t)!Served

-----------------------------------------------------------------------------
(* Properties of the fair specification.                                   *)

(* A task that has finished, or whose removal was asked for, leaves the    *)
(* scheduler and the registry that handles see.                            *)
ReapableIsReaped ==
  \A t \in Task : (finished[t] \/ removeRequested[t]) ~> t \notin registry

(* The schedule of an idle task is followed although another task may be   *)
(* in a step that never returns.                                           *)
DueIsDispatched ==
  \A t \in Task :
    (pc[t] = "receive" /\ next[t] # None /\ next[t] <= now)
      ~> \/ pc[t] # "receive"
         \/ paused[t] \/ finished[t] \/ removeRequested[t]
         \/ permit = 1 \/ spc = "stopped"

(* After a request to stop no driver is left, except one that is inside a  *)
(* step or a callback, and no task is listed.                              *)
ShutdownEndsDrivers ==
  permit = 1 ~> [](registry = {} /\ \A t \in Task : Ended(t) \/ InUserCode(t))

-----------------------------------------------------------------------------
(* What the documentation says and the code does not do.                   *)

(* OverlapPolicy::Queue: "Run the missed occurrence once the current run   *)
(* completes".  A run is queued only if an instant of the schedule, later  *)
(* than the one that started the current run, has come meanwhile.          *)
QueuedOnlyWhenMissed ==
  [][\A t \in Task :
       spc = "queue" /\ cur = t /\ pending'[t] # pending[t] =>
         \E s \in Slots[t] : next[t] < s /\ s <= now]_vars

(* "on_finish fires once when the task reaches a terminal state". *)
FinishAnnouncedOnce == \A t \in Task : onFinish[t] <= 1
=============================================================================
