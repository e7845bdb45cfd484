---------------------------- MODULE DriverProofs ----------------------------
(***************************************************************************)
(* What holds of the driver of a task at each place of its loop, on every  *)
(* runtime, and that the cells of a task implement a queue of runs.        *)
(***************************************************************************)
EXTENDS DispatchProofs

USE DEF sharedVars, driverVars, schedVars, clientVars, seenVars

-----------------------------------------------------------------------------
(* The places of the driver's loop.                                        *)

(* What a driver has done when it is at a place: running is set in a run   *)
(* only, an idle task is published, a terminal task is marked finished     *)
(* before it is published, and on_finish has been called before that.  A   *)
(* task that is finished without a run has no driver any more.             *)
Placed(t) ==
  /\ pc[t] \in {"spawned", "receive", "begin", "retire", "publish", "loop"} => ~running[t]
  /\ pc[t] \in {"steps", "callbacks", "notify", "retire", "publish", "loop"} => runs[t] > 0
  /\ pc[t] = "spawned" => runs[t] = 0 /\ published[t].next = None
  /\ pc[t] \in {"receive", "loop"} => published[t] = [status |-> status[t], next |-> next[t]]
  /\ pc[t] \in {"publish", "loop"} /\ Terminal(t) => finished[t]
  /\ pc[t] = "notify" /\ status[t] = "ForceRemoved" => onFinish[t] > 0
  /\ pc[t] = "retire" /\ Terminal(t) => onFinish[t] > 0
  /\ finished[t] /\ runs[t] = 0 => pc[t] = "done"
  /\ finished[t] /\ runs[t] > 0 => onFinish[t] > 0

PlaceInv == \A t \in Task : Placed(t)

(* The invariant holds at the start. *)
LEMMA PlaceInit == Init => PlaceInv
<1> SUFFICES ASSUME Init, NEW t \in Task PROVE Placed(t)
  BY DEF PlaceInv
<1>1. /\ pc[t] = "spawned" /\ ~running[t] /\ ~finished[t] /\ runs[t] = 0
      /\ published[t].next = None
  BY DEF Init
<1> QED
  BY <1>1 DEF Placed

(* It depends on the cells of one task and the fields of its driver.       *)
LEMMA PlaceUntouched ==
  ASSUME NEW t \in Task, Placed(t),
         pc'[t] = pc[t], running'[t] = running[t], published'[t] = published[t],
         status'[t] = status[t], next'[t] = next[t], finished'[t] = finished[t],
         runs'[t] = runs[t], onFinish'[t] = onFinish[t]
  PROVE  Placed(t)'
  BY DEF Placed, Terminal

(* A driver that goes through its loop keeps its own task in place.        *)
LEMMA PlaceOwn ==
  ASSUME TypeOK, CountInv, NEW t \in Task, Placed(t), DriverStep(t)
  PROVE  Placed(t)'
<1>1. CASE InitTask(t)
  <2>1. CASE Upcoming(t) = {}
    BY <1>1, <2>1 DEF TypeOK, InitTask, Placed, Terminal
  <2>2. CASE Upcoming(t) # {}
    <3>1. PICK s \in Upcoming(t) :
            /\ status' = [status EXCEPT ![t] = "Scheduled"]
            /\ next' = [next EXCEPT ![t] = s]
            /\ published' = [published EXCEPT ![t] = [status |-> "Scheduled", next |-> s]]
            /\ pc' = [pc EXCEPT ![t] = "receive"]
            /\ UNCHANGED <<finished, chan>>
      BY <1>1, <2>2 DEF InitTask
    <3> QED
      BY <1>1, <3>1 DEF TypeOK, InitTask, Placed, Terminal
  <2> QED
    BY <2>1, <2>2
<1>2. CASE Receive(t)
  BY <1>2 DEF TypeOK, Receive, Placed, Terminal
<1>3. CASE StartRun(t)
  BY <1>3 DEF TypeOK, StartRun, Placed, Terminal
<1>4. CASE RunSteps(t)
  BY <1>4 DEF TypeOK, RunSteps, Placed, Terminal
<1>5. CASE UserCodePanics(t)
  BY <1>5 DEF TypeOK, UserCodePanics, Placed, Terminal, InUserCode
<1>6. CASE Reschedule(t)
  <2>1. /\ pc'[t] = "notify" /\ finished'[t] = finished[t] /\ runs'[t] = runs[t]
        /\ onFinish'[t] = IF status[t] = "ForceRemoved" THEN onFinish[t] + 1 ELSE onFinish[t]
    BY <1>6 DEF TypeOK, Reschedule
  <2>2. status'[t] = "ForceRemoved" => status[t] = "ForceRemoved"
    BY <1>6 DEF TypeOK, Reschedule
  <2>3. onFinish[t] \in Nat /\ pc[t] = "callbacks"
    BY <1>6 DEF TypeOK, Reschedule
  <2> QED
    BY <2>1, <2>2, <2>3 DEF Placed
<1>7. CASE ClearRunning(t)
  BY <1>7 DEF TypeOK, ClearRunning, CallOnFinish, Placed, Terminal
<1>8. CASE Retire(t)
  <2>1. /\ pc[t] = "retire" /\ pc'[t] = "publish"
        /\ finished'[t] = (finished[t] \/ Terminal(t))
        /\ UNCHANGED <<running, published, status, next, runs, onFinish>>
    BY <1>8 DEF TypeOK, Retire
  <2>2. Terminal(t)' = Terminal(t)
    BY <2>1 DEF Terminal
  <2>3. runs[t] \in Nat /\ onFinish[t] \in Nat
    BY DEF TypeOK
  <2>4. CASE Terminal(t)
    <3>1. finished'[t]
      BY <2>1, <2>4, Zenon
    <3> QED
      BY <2>1, <2>2, <2>3, <2>4, <3>1 DEF Placed
  <2>5. CASE ~Terminal(t)
    BY <2>1, <2>2, <2>3, <2>5 DEF Placed
  <2> QED
    BY <2>4, <2>5
<1>9. CASE Publish(t)
  BY <1>9 DEF TypeOK, Publish, Placed, Terminal
<1>10. CASE Loop(t)
  <2>1. pc[t] = "loop" /\ pc'[t] \in {"done", "receive", "begin"}
    BY <1>10 DEF TypeOK, Loop
  <2>2. finished[t] /\ runs[t] = 0 => FALSE
    BY <2>1 DEF Placed
  <2> QED
    BY <1>10, <2>1, <2>2 DEF Loop, Placed, Terminal
<1>11. CASE Cancel(t)
  BY <1>11 DEF TypeOK, Cancel, AtAwait, InUserCode, Placed, Terminal
<1> QED
  BY <1>1, <1>2, <1>3, <1>4, <1>5, <1>6, <1>7, <1>8, <1>9, <1>10, <1>11 DEF DriverStep

(* A driver touches the cells and the channel of its own task only.        *)
LEMMA DriverLocal ==
  ASSUME TypeOK, NEW t \in Task, DriverStep(t), NEW u \in Task \ {t}
  PROVE  /\ pc'[u] = pc[u] /\ running'[u] = running[u] /\ published'[u] = published[u]
         /\ status'[u] = status[u] /\ next'[u] = next[u] /\ finished'[u] = finished[u]
         /\ runs'[u] = runs[u] /\ onFinish'[u] = onFinish[u]
         /\ chan'[u] = chan[u] /\ pending'[u] = pending[u]
<1>1. CASE InitTask(t)
  <2>1. \/ UNCHANGED next
        \/ \E s \in Upcoming(t) : next' = [next EXCEPT ![t] = s]
    BY <1>1 DEF InitTask
  <2>2. \E p : published' = [published EXCEPT ![t] = p]
    BY <1>1, Zenon DEF InitTask
  <2>3. next'[u] = next[u] /\ published'[u] = published[u]
    BY <2>1, <2>2 DEF TypeOK
  <2> QED
    BY <1>1, <2>3 DEF TypeOK, InitTask
<1>2. CASE Receive(t)
  BY <1>2 DEF TypeOK, Receive
<1>3. CASE StartRun(t)
  BY <1>3 DEF TypeOK, StartRun
<1>4. CASE RunSteps(t)
  BY <1>4 DEF TypeOK, RunSteps
<1>5. CASE UserCodePanics(t)
  BY <1>5 DEF TypeOK, UserCodePanics
<1>6. CASE Reschedule(t)
  BY <1>6 DEF TypeOK, Reschedule
<1>7. CASE ClearRunning(t)
  BY <1>7 DEF TypeOK, ClearRunning, CallOnFinish
<1>8. CASE Retire(t)
  BY <1>8 DEF TypeOK, Retire
<1>9. CASE Publish(t)
  BY <1>9 DEF TypeOK, Publish
<1>10. CASE Loop(t)
  BY <1>10 DEF TypeOK, Loop
<1>11. CASE Cancel(t)
  BY <1>11 DEF TypeOK, Cancel
<1> QED
  BY <1>1, <1>2, <1>3, <1>4, <1>5, <1>6, <1>7, <1>8, <1>9, <1>10, <1>11 DEF DriverStep

(* The scheduler and the handles leave what a driver owns alone.           *)
LEMMA OthersPlaceNothing ==
  ASSUME SchedulerStep \/ ClientStep
  PROVE  UNCHANGED <<pc, running, published, status, next, finished, runs, onFinish>>
<1>1. CASE SchedulerStep
  BY <1>1
  DEF SchedulerStep, StartRound, Reap, ReapDone, VisitHandle, CheckDue, CheckRunning,
      SendRun, QueueRun, Refresh, StopLoop
<1>2. CASE ClientStep
  BY <1>2
  DEF ClientStep, RequestStop, Pause, Resume, Remove, TriggerReads, TriggerActs
<1> QED
  BY <1>1, <1>2

(* Every step keeps every task in place. *)
LEMMA PlaceStep ==
  ASSUME TypeOK, CountInv, PlaceInv, [Next]_vars
  PROVE  PlaceInv'
<1> SUFFICES ASSUME NEW u \in Task PROVE Placed(u)'
  BY DEF PlaceInv
<1>0. Placed(u)
  BY DEF PlaceInv
<1>1. ASSUME NEW t \in Task, DriverStep(t) PROVE Placed(u)'
  <2>1. CASE u = t
    BY <1>0, <1>1, <2>1, PlaceOwn
  <2>2. CASE u # t
    BY <1>0, <1>1, <2>2, DriverLocal, PlaceUntouched
  <2> QED
    BY <2>1, <2>2
<1>2. CASE SchedulerStep \/ ClientStep
  BY <1>0, <1>2, OthersPlaceNothing, PlaceUntouched
<1>3. CASE Tick \/ UNCHANGED vars
  BY <1>0, <1>3, PlaceUntouched DEF Tick, vars
<1> QED
  BY <1>1, <1>2, <1>3 DEF Next

(* Hence the places are an invariant of every behaviour. *)
LEMMA PlaceCorrect == Spec => []PlaceInv
  BY TypeCorrect, CountCorrect, PlaceInit, PlaceStep, PTL DEF Spec

(* A driver that waits for a Run has cleared running and published what it *)
(* knows: on every runtime, what the scheduler reads of an idle task is    *)
(* its present status and its present instant.                             *)
THEOREM IdleIsPublished == Spec => []ParkedMeansPublished
<1>1. PlaceInv => ParkedMeansPublished
  BY DEF PlaceInv, Placed, ParkedMeansPublished
<1> QED
  BY <1>1, PlaceCorrect, PTL

(* on_finish has been called before a task that had a run is marked        *)
(* finished, so a scheduler that aborts a finished driver cuts off no      *)
(* callback of it.                                                         *)
THEOREM FinishedIsAnnounced == Spec => []AnnouncedBeforeRetired
<1>1. PlaceInv => AnnouncedBeforeRetired
  BY DEF PlaceInv, Placed, AnnouncedBeforeRetired
<1> QED
  BY <1>1, PlaceCorrect, PTL

-----------------------------------------------------------------------------
(* The queue of runs.                                                      *)

(* What a step does to the queue that the cells of a task implement.       *)
QueueStep(u) == [Queue(u)!Next]_(Queue(u)!vars)

(* Nothing happens to the queue of a task whose driver, channel, pending   *)
(* flag and count of runs stay as they are.                                *)
LEMMA QueueUntouched ==
  ASSUME NEW u \in Task,
         pc'[u] = pc[u], chan'[u] = chan[u], pending'[u] = pending[u], runs'[u] = runs[u]
  PROVE  QueueStep(u)
  BY DEF QueueStep, Queue!Next, Queue!vars, PhaseOf, WaitingOf, StartedOf, Ended, InRun

(* A request that is accepted takes one of the two places of the queue.    *)
LEMMA RequestAccepted ==
  ASSUME TypeOK, NEW u \in Task, pc'[u] = pc[u], runs'[u] = runs[u],
         \/ chan'[u] = (IF Ended(u) THEN chan[u] ELSE 1) /\ pending'[u] = pending[u]
         \/ pending'[u] = TRUE /\ chan'[u] = chan[u]
  PROVE  QueueStep(u)
<1>1. CASE Ended(u)
  <2>1. Ended(u)'
    BY <1>1 DEF Ended
  <2> QED
    BY <1>1, <2>1 DEF QueueStep, Queue!vars, PhaseOf, WaitingOf, StartedOf, Ended
<1>2. CASE ~Ended(u)
  <2>1. ~Ended(u)' /\ InRun(u)' = InRun(u)
    BY <1>2 DEF Ended, InRun
  <2>2. chan[u] \in 0..1 /\ pending[u] \in BOOLEAN
    BY DEF TypeOK
  <2>3. PhaseOf(u)' = PhaseOf(u) /\ PhaseOf(u) # "over" /\ StartedOf(u)' = StartedOf(u)
    BY <1>2, <2>1 DEF PhaseOf, StartedOf
  <2>4. \/ WaitingOf(u)' = WaitingOf(u)
        \/ WaitingOf(u) < 2 /\ WaitingOf(u)' = WaitingOf(u) + 1
    BY <1>2, <2>1, <2>2 DEF WaitingOf
  <2> QED
    BY <2>3, <2>4 DEF QueueStep, Queue!Next, Queue!vars, Queue!Request, Queue!Capacity
<1> QED
  BY <1>1, <1>2

(* Each step of a driver is a step of the queue or leaves it alone: the    *)
(* Run received and the run drained are its starts, the publication its    *)
(* end, and what the driver never does is drop a request and go on.        *)
LEMMA DriverServes ==
  ASSUME TypeOK, PlaceInv, NEW u \in Task, DriverStep(u)
  PROVE  QueueStep(u)
<1> USE DEF QueueStep, Queue!Next, Queue!vars, PhaseOf, WaitingOf, StartedOf, Ended, InRun
<1>0. Placed(u) /\ chan[u] \in 0..1 /\ pending[u] \in BOOLEAN /\ runs[u] \in Nat
  BY DEF PlaceInv, TypeOK
<1>1. CASE InitTask(u)
  <2>1. \/ pc'[u] = "done"
        \/ pc'[u] = "receive" /\ UNCHANGED chan
    BY <1>1 DEF TypeOK, InitTask
  <2>2. pc[u] = "spawned" /\ UNCHANGED <<runs, pending>>
    BY <1>1 DEF InitTask
  <2> QED
    BY <2>1, <2>2 DEF Queue!Over
<1>2. CASE Receive(u)
  BY <1>0, <1>2 DEF TypeOK, Receive, Queue!Start
<1>3. CASE StartRun(u)
  BY <1>0, <1>3 DEF TypeOK, StartRun
<1>4. CASE RunSteps(u)
  BY <1>4 DEF TypeOK, RunSteps
<1>5. CASE UserCodePanics(u)
  BY <1>5 DEF TypeOK, UserCodePanics, InUserCode, Queue!Over
<1>6. CASE Reschedule(u)
  BY <1>6 DEF TypeOK, Reschedule
<1>7. CASE ClearRunning(u)
  BY <1>7 DEF TypeOK, ClearRunning
<1>8. CASE Retire(u)
  BY <1>8 DEF TypeOK, Retire
<1>9. CASE Publish(u)
  BY <1>9 DEF TypeOK, Publish, Queue!End
<1>10. CASE Loop(u)
  <2>0. pc[u] = "loop" /\ UNCHANGED runs
    BY <1>10 DEF Loop
  <2>1. CASE pc'[u] = "done"
    BY <2>0, <2>1 DEF Queue!Over
  <2>2. CASE finished[u] /\ pc'[u] # "done"
    <3>1. pc'[u] = "receive" /\ UNCHANGED <<chan, pending>>
      BY <1>10, <2>2 DEF TypeOK, Loop
    <3> QED
      BY <2>0, <3>1
  <2>3. CASE ~finished[u]
    <3>1. Drains(u) <=> pending[u]
      BY <1>0, <2>0, <2>3 DEF Placed, Drains
    <3>2. /\ ~pending'[u] /\ UNCHANGED chan
          /\ pc'[u] = IF Drains(u) THEN "begin" ELSE "receive"
      BY <1>10, <2>3 DEF TypeOK, Loop
    <3>3. CASE pending[u]
      BY <1>0, <2>0, <3>1, <3>2, <3>3 DEF Queue!Start
    <3>4. CASE ~pending[u]
      BY <2>0, <3>1, <3>2, <3>4
    <3> QED
      BY <3>3, <3>4
  <2> QED
    BY <2>1, <2>2, <2>3
<1>11. CASE Cancel(u)
  BY <1>11 DEF TypeOK, Cancel, AtAwait, InUserCode, Queue!Over
<1> QED
  BY <1>1, <1>2, <1>3, <1>4, <1>5, <1>6, <1>7, <1>8, <1>9, <1>10, <1>11 DEF DriverStep

(* The scheduler and the callers of handles make requests and no more. *)
LEMMA OthersRequest ==
  ASSUME TypeOK, SchedulerStep \/ ClientStep, NEW u \in Task
  PROVE  QueueStep(u)
<1>0. UNCHANGED <<pc, runs>>
  BY OthersPlaceNothing
<1>1. CASE SendRun
  <2>1. CASE cur = u
    BY <1>0, <1>1, <2>1, RequestAccepted DEF TypeOK, SendRun, TrySend
  <2>2. CASE cur # u
    BY <1>0, <1>1, <2>2, QueueUntouched DEF TypeOK, SendRun, TrySend
  <2> QED
    BY <2>1, <2>2
<1>2. CASE QueueRun
  <2>1. CASE cur = u
    BY <1>0, <1>2, <2>1, RequestAccepted DEF TypeOK, QueueRun
  <2>2. CASE cur # u
    BY <1>0, <1>2, <2>2, QueueUntouched DEF TypeOK, QueueRun
  <2> QED
    BY <2>1, <2>2
<1>3. ASSUME NEW t \in Task, TriggerActs(t) PROVE QueueStep(u)
  <2>1. CASE t = u
    BY <1>0, <1>3, <2>1, RequestAccepted DEF TypeOK, TriggerActs, TrySend
  <2>2. CASE t # u
    BY <1>0, <1>3, <2>2, QueueUntouched DEF TypeOK, TriggerActs, TrySend
  <2> QED
    BY <2>1, <2>2
<1>4. CASE ~SendRun /\ ~QueueRun /\ \A t \in Task : ~TriggerActs(t)
  <2>1. UNCHANGED <<chan, pending>>
    BY <1>4
    DEF SchedulerStep, StartRound, Reap, ReapDone, VisitHandle, CheckDue, CheckRunning,
        Refresh, StopLoop, ClientStep, RequestStop, Pause, Resume, Remove, TriggerReads
  <2> QED
    BY <1>0, <2>1, QueueUntouched
<1> QED
  BY <1>1, <1>2, <1>3, <1>4

(* The channel, the pending flag and the driver of every task implement a  *)
(* queue of runs on every runtime: a run starts only for a request that    *)
(* was accepted, runs of a task never overlap, no request starts two runs, *)
(* and an accepted request is dropped only together with the task.         *)
THEOREM TaskIsRunQueue == Spec => ImplementsRunQueue
<1> DEFINE Steps == \A t \in Task : [Queue(t)!Next]_(Queue(t)!vars)
           Starts == \A t \in Task : Queue(t)!Init
<1>1. ASSUME Init PROVE Starts
  <2>1. ASSUME NEW t \in Task PROVE Queue(t)!Init
    <3>1. pc[t] = "spawned" /\ chan[t] = 0 /\ ~pending[t] /\ runs[t] = 0
      BY <1>1 DEF Init
    <3> QED
      BY <3>1 DEF Queue!Init, PhaseOf, WaitingOf, StartedOf, Ended, InRun
  <2> QED
    BY <2>1
<1>2. ASSUME TypeOK, PlaceInv, [Next]_vars PROVE [Steps]_vars
  <2>1. ASSUME NEW t \in Task, DriverStep(t), NEW u \in Task PROVE QueueStep(u)
    <3>1. CASE u = t
      BY <1>2, <2>1, <3>1, DriverServes
    <3>2. CASE u # t
      BY <1>2, <2>1, <3>2, DriverLocal, QueueUntouched
    <3> QED
      BY <3>1, <3>2
  <2>2. ASSUME SchedulerStep \/ ClientStep, NEW u \in Task PROVE QueueStep(u)
    BY <1>2, <2>2, OthersRequest
  <2>3. ASSUME Tick, NEW u \in Task PROVE QueueStep(u)
    BY <2>3, QueueUntouched DEF Tick
  <2> QED
    BY <1>2, <2>1, <2>2, <2>3 DEF Next, QueueStep
<1>3. Spec => [][Steps]_vars
  BY <1>2, TypeCorrect, PlaceCorrect, PTL DEF Spec
<1>4. Spec => Starts
  BY <1>1 DEF Spec
<1> QED
  BY <1>3, <1>4 DEF ImplementsRunQueue

-----------------------------------------------------------------------------
(* A round of the scheduler on one thread.                                 *)

InRound == spc \in {"dispatch", "due", "busy", "send", "queue"}

(* What a round has read and still knows: a handle that was not reaped is  *)
(* not to be reaped, the present one is not paused, and, once that was     *)
(* looked at, its published instant has come.                              *)
RoundInv ==
  /\ roundNow <= now
  /\ spc = "reap" => \A t \in handles \ todo : ~Reapable(t)
  /\ InRound => \A t \in todo : ~Reapable(t)
  /\ InRound /\ spc # "dispatch" => ~Reapable(cur) /\ ~paused[cur]
  /\ spc \in {"busy", "send", "queue"} => Due(cur)

(* The invariant holds at the start. *)
LEMMA RoundInit == Init => RoundInv
  BY DEF Init, RoundInv, InRound

(* Each step of the scheduler adds what it reads. *)
LEMMA RoundScheduler ==
  ASSUME TypeOK, RoundInv, SchedulerStep
  PROVE  RoundInv'
<1> USE DEF RoundInv, InRound, Reapable, Due
<1>1. CASE StartRound
  BY <1>1 DEF TypeOK, StartRound
<1>2. CASE ReapDone
  BY <1>2 DEF TypeOK, ReapDone
<1>3. CASE CheckDue
  BY <1>3 DEF TypeOK, CheckDue
<1>4. CASE CheckRunning
  BY <1>4 DEF TypeOK, CheckRunning
<1>5. CASE SendRun
  BY <1>5 DEF TypeOK, SendRun
<1>6. CASE QueueRun
  BY <1>6 DEF TypeOK, QueueRun
<1>7. CASE Refresh
  BY <1>7 DEF TypeOK, Refresh
<1>8. CASE StopLoop
  BY <1>8 DEF TypeOK, StopLoop
<1>9. ASSUME NEW t \in Task, Reap(t) PROVE RoundInv'
  BY <1>9 DEF TypeOK, Reap
<1>10. ASSUME NEW t \in Task, VisitHandle(t) PROVE RoundInv'
  BY <1>10 DEF TypeOK, VisitHandle
<1> QED
  BY <1>1, <1>2, <1>3, <1>4, <1>5, <1>6, <1>7, <1>8, <1>9, <1>10 DEF SchedulerStep

(* Drivers, and callers but for the end of a trigger, act between rounds,  *)
(* and the clock only goes forward.                                        *)
LEMMA RoundOthers ==
  ASSUME TypeOK, ThreadInv, RoundInv, ~MultiThread,
         \/ \E t \in Task : DriverStep(t)
         \/ ClientStep
         \/ Tick
         \/ UNCHANGED vars
  PROVE  RoundInv'
<1>1. ASSUME NEW t \in Task, DriverStep(t) PROVE RoundInv'
  <2>1. SchedulerSuspended /\ UNCHANGED spc
    BY <1>1, DriverAlone
  <2>2. UNCHANGED <<roundNow, now>>
    BY <1>1
    DEF DriverStep, InitTask, Receive, StartRun, RunSteps, UserCodePanics, Reschedule,
        ClearRunning, Retire, Publish, Loop, Cancel
  <2> QED
    BY <2>1, <2>2 DEF RoundInv, InRound, SchedulerSuspended
<1>2. CASE ClientStep
  <2>0. UNCHANGED <<roundNow, now, spc>>
    BY <1>2
    DEF ClientStep, RequestStop, Pause, Resume, Remove, TriggerReads, TriggerActs
  <2>1. SchedulerSuspended
    BY <1>2
    DEF ClientStep, RequestStop, Pause, Resume, Remove, TriggerReads, TriggerActs, ClientTurn,
        ThreadInv, Turns, RegistryFree
  <2> QED
    BY <2>0, <2>1 DEF RoundInv, InRound, SchedulerSuspended
<1>3. CASE Tick
  BY <1>3 DEF TypeOK, Tick, RoundInv, InRound, Reapable, Due
<1>4. CASE UNCHANGED vars
  BY <1>4 DEF vars, RoundInv, InRound, Reapable, Due
<1> QED
  BY <1>1, <1>2, <1>3, <1>4

(* On one thread a round knows these things in every behaviour. *)
LEMMA RoundCorrect ==
  ASSUME ~MultiThread
  PROVE  Spec => []RoundInv
<1>1. ASSUME TypeOK, ThreadInv, RoundInv, [Next]_vars PROVE RoundInv'
  BY <1>1, RoundScheduler, RoundOthers DEF Next
<1> QED
  BY <1>1, RoundInit, TypeCorrect, ThreadCorrect, PTL DEF Spec

(* On a current-thread runtime every Run that the scheduler puts in a      *)
(* channel is due: its driver waits for it, the task's own instant has     *)
(* come, and it is neither paused, nor finished, nor to be removed.        *)
THEOREM OneThreadDispatchesDue ==
  ASSUME ~MultiThread
  PROVE  Spec => DispatchedOnlyIfDue
<1> DEFINE Sent(t) ==
             spc = "send" /\ cur = t /\ chan'[t] # chan[t] =>
               /\ pc[t] = "receive"
               /\ next[t] # None /\ next[t] <= now
               /\ ~paused[t] /\ ~removeRequested[t] /\ ~finished[t]
<1>1. ASSUME TypeOK, ThreadInv, PlaceInv, RoundInv, [Next]_vars, NEW t \in Task,
             spc = "send", cur = t, chan'[t] # chan[t]
      PROVE  /\ pc[t] = "receive"
             /\ next[t] # None /\ next[t] <= now
             /\ ~paused[t] /\ ~removeRequested[t] /\ ~finished[t]
  <2>1. Quiet /\ RegistryFree
    BY <1>1 DEF ThreadInv, Turns, SchedulerSuspended
  <2>2. SendRun
    <3>1. ASSUME NEW u \in Task, DriverStep(u) PROVE FALSE
      BY <1>1, <3>1, DriverAlone DEF SchedulerSuspended
    <3>2. CASE ClientStep
      BY <1>1, <2>1, <3>2
      DEF ClientStep, RequestStop, Pause, Resume, Remove, TriggerReads, TriggerActs, RegistryFree
    <3>3. CASE SchedulerStep
      BY <1>1, <3>3
      DEF SchedulerStep, StartRound, Reap, ReapDone, VisitHandle, CheckDue, CheckRunning,
          QueueRun, Refresh, StopLoop
    <3>4. CASE Tick \/ UNCHANGED vars
      BY <1>1, <3>4 DEF Tick, vars
    <3> QED
      BY <1>1, <3>1, <3>2, <3>3, <3>4 DEF Next
  <2>3. ~Ended(t)
    BY <1>1, <2>2 DEF TypeOK, SendRun, TrySend
  <2>4. ~running[t]
    BY <1>1 DEF ThreadInv, Consistent
  <2>5. pc[t] \in {"spawned", "receive"}
    BY <1>1, <2>1, <2>3, <2>4 DEF Quiet, AtAwait, InUserCode, ThreadInv, Consistent
  <2>6. published[t].next # None /\ roundNow >= published[t].next
    BY <1>1 DEF RoundInv, Due
  <2>7. pc[t] = "receive" /\ published[t].next = next[t]
    <3>1. Placed(t)
      BY <1>1 DEF PlaceInv
    <3>2. pc[t] = "receive"
      BY <2>5, <2>6, <3>1 DEF Placed
    <3>3. published[t] = [status |-> status[t], next |-> next[t]]
      BY <3>1, <3>2 DEF Placed
    <3> QED
      BY <3>2, <3>3
  <2>8. next[t] # None /\ next[t] <= now
    BY <1>1, <2>6, <2>7 DEF TypeOK, RoundInv
  <2>9. ~paused[t] /\ ~removeRequested[t] /\ ~finished[t]
    BY <1>1 DEF RoundInv, InRound, Reapable
  <2> QED
    BY <2>7, <2>8, <2>9
<1>2. TypeOK /\ ThreadInv /\ PlaceInv /\ RoundInv /\ [Next]_vars => [\A t \in Task : Sent(t)]_vars
  BY <1>1
<1>3. Spec => [][\A t \in Task : Sent(t)]_vars
  BY <1>2, TypeCorrect, ThreadCorrect, PlaceCorrect, RoundCorrect, PTL DEF Spec
<1> QED
  BY <1>3 DEF DispatchedOnlyIfDue

=============================================================================
