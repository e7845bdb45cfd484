--------------------------- MODULE DispatchProofs ---------------------------
(***************************************************************************)
(* What holds of Dispatch for every set of tasks, every schedule and every *)
(* bound, on both kinds of runtime.                                        *)
(***************************************************************************)
EXTENDS Dispatch, TLAPS

USE DEF sharedVars, driverVars, schedVars, clientVars, seenVars

-----------------------------------------------------------------------------
(* Types.                                                                  *)

(* The initial values have their types. *)
LEMMA TypeInit == Init => TypeOK
  BY ConstantsAssumption DEF Init, TypeOK, Statuses, None

(* A driver that initialises its task keeps the types. *)
LEMMA TypeInitTask ==
  ASSUME TypeOK, NEW t \in Task, InitTask(t)
  PROVE  TypeOK'
<1>1. CASE Upcoming(t) = {}
  <2>1. /\ status' = [status EXCEPT ![t] = "Finished"]
        /\ published' = [published EXCEPT ![t] = [status |-> "Finished", next |-> None]]
        /\ finished' = [finished EXCEPT ![t] = TRUE]
        /\ pc' = [pc EXCEPT ![t] = "done"]
        /\ chan' = [chan EXCEPT ![t] = 0]
        /\ UNCHANGED next
    BY <1>1 DEF InitTask
  <2>2. published' \in [Task -> [status : Statuses, next : Nat]]
    BY <2>1 DEF TypeOK, Statuses, None
  <2>3. status' \in [Task -> Statuses]
    BY <2>1 DEF TypeOK, Statuses
  <2> QED
    BY <2>1, <2>2, <2>3 DEF TypeOK, InitTask
<1>2. CASE Upcoming(t) # {}
  <2>1. PICK s \in Upcoming(t) :
          /\ status' = [status EXCEPT ![t] = "Scheduled"]
          /\ next' = [next EXCEPT ![t] = s]
          /\ published' = [published EXCEPT ![t] = [status |-> "Scheduled", next |-> s]]
          /\ pc' = [pc EXCEPT ![t] = "receive"]
          /\ UNCHANGED <<finished, chan>>
    BY <1>2 DEF InitTask
  <2>2. s \in Nat
    BY <2>1, ConstantsAssumption DEF Upcoming
  <2>3. published' \in [Task -> [status : Statuses, next : Nat]]
    BY <2>1, <2>2 DEF TypeOK, Statuses
  <2>4. status' \in [Task -> Statuses]
    BY <2>1 DEF TypeOK, Statuses
  <2> QED
    BY <2>1, <2>2, <2>3, <2>4 DEF TypeOK, InitTask
<1> QED
  BY <1>1, <1>2

(* The end of a run, which counts it down, keeps the types. *)
LEMMA TypeRunSteps ==
  ASSUME TypeOK, NEW t \in Task, RunSteps(t)
  PROVE  TypeOK'
<1>1. left' \in [Task -> Nat \union {Forever}]
  BY ConstantsAssumption DEF TypeOK, RunSteps, OneLess
<1>2. status' \in [Task -> Statuses]
  BY DEF TypeOK, RunSteps, Statuses
<1>3. execs' \in [Task -> Nat]
  BY DEF TypeOK, RunSteps
<1> QED
  BY <1>1, <1>2, <1>3 DEF TypeOK, RunSteps

(* A rescheduled task has an instant of its schedule and keeps the types. *)
LEMMA TypeReschedule ==
  ASSUME TypeOK, NEW t \in Task, Reschedule(t)
  PROVE  TypeOK'
<1>1. next' \in [Task -> Nat]
  <2>1. \A s \in Upcoming(t) : s \in Nat
    BY ConstantsAssumption DEF Upcoming
  <2> QED
    BY <2>1 DEF TypeOK, Reschedule
<1>2. status' \in [Task -> Statuses]
  <2>1. \/ UNCHANGED status
        \/ status' = [status EXCEPT ![t] = "Finished"]
        \/ status' = [status EXCEPT ![t] = "Scheduled"]
    BY Zenon DEF Reschedule
  <2> QED
    BY <2>1 DEF TypeOK, Statuses
<1>3. onFinish' \in [Task -> Nat]
  BY DEF TypeOK, Reschedule
<1>4. pc' \in [Task -> {"spawned", "receive", "begin", "steps", "callbacks", "notify",
                        "retire", "publish", "loop", "done", "gone", "dead"}]
  BY DEF TypeOK, Reschedule
<1>5. UNCHANGED <<now, sharedVars, inner, left, schedVars, clientVars, execs, sent>>
  BY DEF Reschedule
<1> QED
  BY <1>1, <1>2, <1>3, <1>4, <1>5 DEF TypeOK

(* The driver's way back to its receiver keeps the types. *)
LEMMA TypeLoop ==
  ASSUME TypeOK, NEW t \in Task, Loop(t)
  PROVE  TypeOK'
<1>1. inner' \in [Task -> BOOLEAN]
  <2>1. Drains(t) \in BOOLEAN
    BY Zenon DEF Drains
  <2> QED
    BY <2>1 DEF TypeOK, Loop
<1>2. pending' \in [Task -> BOOLEAN]
  BY DEF TypeOK, Loop
<1>3. chan' \in [Task -> 0..1]
  <2>1. UNCHANGED chan \/ chan' = [chan EXCEPT ![t] = 0]
    BY Zenon DEF Loop
  <2> QED
    BY <2>1 DEF TypeOK
<1>4. pc' \in [Task -> {"spawned", "receive", "begin", "steps", "callbacks", "notify",
                        "retire", "publish", "loop", "done", "gone", "dead"}]
  BY DEF TypeOK, Loop
<1>5. UNCHANGED <<now, running, finished, paused, removeRequested, runs, published,
                 status, next, left, schedVars, clientVars, seenVars>>
  BY DEF Loop
<1> QED
  BY <1>1, <1>2, <1>3, <1>4, <1>5 DEF TypeOK

(* A step of a driver keeps the types. *)
LEMMA TypeDriver ==
  ASSUME TypeOK, NEW t \in Task, DriverStep(t)
  PROVE  TypeOK'
<1>1. CASE InitTask(t)
  BY <1>1, TypeInitTask
<1>2. CASE Receive(t)
  BY <1>2 DEF TypeOK, Receive
<1>3. CASE StartRun(t)
  BY <1>3 DEF TypeOK, StartRun
<1>4. CASE RunSteps(t)
  BY <1>4, TypeRunSteps
<1>5. CASE UserCodePanics(t)
  BY <1>5 DEF TypeOK, UserCodePanics
<1>6. CASE Reschedule(t)
  BY <1>6, TypeReschedule
<1>7. CASE ClearRunning(t)
  BY <1>7 DEF TypeOK, ClearRunning, CallOnFinish
<1>8. CASE Retire(t)
  BY <1>8 DEF TypeOK, Retire, Terminal
<1>9. CASE Publish(t)
  BY <1>9 DEF TypeOK, Publish
<1>10. CASE Loop(t)
  BY <1>10, TypeLoop
<1>11. CASE Cancel(t)
  BY <1>11 DEF TypeOK, Cancel
<1> QED
  BY <1>1, <1>2, <1>3, <1>4, <1>5, <1>6, <1>7, <1>8, <1>9, <1>10, <1>11 DEF DriverStep

(* A step of the scheduler keeps the types. *)
LEMMA TypeScheduler ==
  ASSUME TypeOK, SchedulerStep
  PROVE  TypeOK'
<1>1. CASE StartRound
  BY <1>1 DEF TypeOK, StartRound
<1>2. CASE ReapDone
  BY <1>2 DEF TypeOK, ReapDone
<1>3. CASE CheckDue
  BY <1>3 DEF TypeOK, CheckDue
<1>4. CASE CheckRunning
  BY <1>4 DEF TypeOK, CheckRunning
<1>5. CASE SendRun
  BY <1>5 DEF TypeOK, SendRun, TrySend
<1>6. CASE QueueRun
  BY <1>6 DEF TypeOK, QueueRun
<1>7. CASE Refresh
  BY <1>7 DEF TypeOK, Refresh
<1>8. CASE StopLoop
  BY <1>8 DEF TypeOK, StopLoop
<1>9. ASSUME NEW t \in Task, Reap(t) PROVE TypeOK'
  BY <1>9 DEF TypeOK, Reap
<1>10. ASSUME NEW t \in Task, VisitHandle(t) PROVE TypeOK'
  BY <1>10 DEF TypeOK, VisitHandle
<1> QED
  BY <1>1, <1>2, <1>3, <1>4, <1>5, <1>6, <1>7, <1>8, <1>9, <1>10 DEF SchedulerStep

(* A call of a handle keeps the types. *)
LEMMA TypeClient ==
  ASSUME TypeOK, ClientStep
  PROVE  TypeOK'
<1>1. CASE RequestStop
  BY <1>1 DEF TypeOK, RequestStop
<1>2. ASSUME NEW t \in Task, Pause(t) PROVE TypeOK'
  BY <1>2, ConstantsAssumption DEF TypeOK, Pause, Called
<1>3. ASSUME NEW t \in Task, Resume(t) PROVE TypeOK'
  BY <1>3, ConstantsAssumption DEF TypeOK, Resume, Called
<1>4. ASSUME NEW t \in Task, Remove(t) PROVE TypeOK'
  BY <1>4, ConstantsAssumption DEF TypeOK, Remove, Called
<1>5. ASSUME NEW t \in Task, TriggerReads(t) PROVE TypeOK'
  BY <1>5, ConstantsAssumption DEF TypeOK, TriggerReads, TriggerKind, Called
<1>6. ASSUME NEW t \in Task, TriggerActs(t) PROVE TypeOK'
  <2>1. pending' \in [Task -> BOOLEAN]
    BY <1>6 DEF TypeOK, TriggerActs
  <2>2. chan' \in [Task -> 0..1]
    BY <1>6 DEF TypeOK, TriggerActs, TrySend
  <2>3. trig' \in [Task -> {"no", "pend", "send"}]
    BY <1>6 DEF TypeOK, TriggerActs
  <2> QED
    BY <1>6, <2>1, <2>2, <2>3 DEF TypeOK, TriggerActs
<1> QED
  BY <1>1, <1>2, <1>3, <1>4, <1>5, <1>6 DEF ClientStep

(* Type correctness: every cell of the program keeps a value of its type,  *)
(* and a command channel never holds more than one Run.                    *)
THEOREM TypeCorrect == Spec => []TypeOK
<1>1. ASSUME TypeOK, [Next]_vars PROVE TypeOK'
  <2>1. CASE Tick
    BY <1>1, <2>1, ConstantsAssumption DEF TypeOK, Tick
  <2>2. CASE UNCHANGED vars
    BY <1>1, <2>2 DEF TypeOK, vars
  <2> QED
    BY <1>1, <2>1, <2>2, TypeDriver, TypeScheduler, TypeClient DEF Next
<1> QED
  BY TypeInit, <1>1, PTL DEF Spec

-----------------------------------------------------------------------------
(* Executions.                                                             *)

Limit(t) == IF Repeats[t] = 0 THEN 1 ELSE Repeats[t]

(* What the fields of a task hold together: the executions done and those  *)
(* left make up the limit, a task that is Scheduled has one left, and only *)
(* a terminal task is marked finished.                                     *)
Counted(t) ==
  /\ finished[t] => Terminal(t)
  /\ pc[t] = "spawned" => status[t] = "Init" /\ execs[t] = 0
  /\ Repeats[t] \in Nat =>
       /\ left[t] \in Nat
       /\ \/ execs[t] = 0 /\ left[t] = Repeats[t]
          \/ execs[t] > 0 /\ execs[t] + left[t] = Limit(t)
       /\ status[t] = "Scheduled" => execs[t] = 0 \/ left[t] > 0

CountInv == \A t \in Task : Counted(t)

(* The invariant holds at the start. *)
LEMMA CountInit == Init => CountInv
  BY ConstantsAssumption DEF Init, CountInv, Counted, Limit

(* It is kept by what neither executes, retires, reschedules nor spawns.   *)
LEMMA CountUntouched ==
  ASSUME CountInv, UNCHANGED <<finished, status, left, execs>>,
         \A t \in Task : pc'[t] = "spawned" => pc[t] = "spawned"
  PROVE  CountInv'
  BY DEF CountInv, Counted, Limit, Terminal

(* It is kept when only the fields of one task change, if it holds of it.  *)
LEMMA CountOne ==
  ASSUME TypeOK, CountInv, NEW t \in Task, Counted(t)',
         \A u \in Task \ {t} :
           /\ finished'[u] = finished[u] /\ status'[u] = status[u]
           /\ left'[u] = left[u] /\ execs'[u] = execs[u] /\ pc'[u] = pc[u]
  PROVE  CountInv'
  BY DEF CountInv, Counted, Limit, Terminal

(* A step of a driver keeps the count. *)
LEMMA CountDriver ==
  ASSUME TypeOK, CountInv, NEW t \in Task, DriverStep(t)
  PROVE  CountInv'
<1>0. Counted(t)
  BY DEF CountInv
<1>1. CASE InitTask(t)
  <2>1. Counted(t)'
    BY <1>0, <1>1 DEF TypeOK, InitTask, Counted, Limit, Terminal
  <2>2. \A u \in Task \ {t} :
          /\ finished'[u] = finished[u] /\ status'[u] = status[u]
          /\ left'[u] = left[u] /\ execs'[u] = execs[u] /\ pc'[u] = pc[u]
    BY <1>1 DEF TypeOK, InitTask
  <2> QED
    BY <2>1, <2>2, CountOne
<1>2. CASE RunSteps(t)
  <2>1. Counted(t)'
    <3>1. pc'[t] = "callbacks" /\ finished'[t] = finished[t]
      BY <1>2 DEF TypeOK, RunSteps
    <3>2. CASE ~MayRun(t)
      BY <1>0, <1>2, <3>1, <3>2 DEF TypeOK, RunSteps, Counted, Limit, Terminal
    <3>3. CASE MayRun(t)
      <4>1. /\ status'[t] \in {"Executed", "Failed", "ForceRemoved"}
            /\ left'[t] = OneLess(left[t])
            /\ execs'[t] = execs[t] + 1
        BY <1>2, <3>3 DEF TypeOK, RunSteps
      <4>2. ~finished[t]
        BY <1>0, <3>3 DEF Counted, MayRun, Terminal
      <4>3. ASSUME Repeats[t] \in Nat
            PROVE  left'[t] \in Nat /\ execs'[t] > 0 /\ execs'[t] + left'[t] = Limit(t)
        <5>1. execs[t] \in Nat /\ left[t] \in Nat
          BY <1>0, <4>3 DEF TypeOK, Counted
        <5>2. CASE execs[t] = 0 /\ left[t] = Repeats[t]
          BY <4>1, <4>3, <5>1, <5>2 DEF OneLess, Limit
        <5>3. CASE execs[t] > 0 /\ left[t] > 0 /\ execs[t] + left[t] = Limit(t)
          BY <4>1, <4>3, <5>1, <5>3 DEF OneLess
        <5> QED
          BY <1>0, <3>3, <4>3, <5>1, <5>2, <5>3 DEF Counted, MayRun
      <4> QED
        BY <3>1, <4>1, <4>2, <4>3 DEF Counted, Limit, Terminal
    <3> QED
      BY <3>2, <3>3
  <2>2. \A u \in Task \ {t} :
          /\ finished'[u] = finished[u] /\ status'[u] = status[u]
          /\ left'[u] = left[u] /\ execs'[u] = execs[u] /\ pc'[u] = pc[u]
    BY <1>2 DEF TypeOK, RunSteps
  <2> QED
    BY <2>1, <2>2, CountOne
<1>3. CASE Reschedule(t)
  <2>1. Counted(t)'
    BY <1>0, <1>3 DEF TypeOK, Reschedule, Counted, Limit, Terminal
  <2>2. \A u \in Task \ {t} :
          /\ finished'[u] = finished[u] /\ status'[u] = status[u]
          /\ left'[u] = left[u] /\ execs'[u] = execs[u] /\ pc'[u] = pc[u]
    BY <1>3 DEF TypeOK, Reschedule
  <2> QED
    BY <2>1, <2>2, CountOne
<1>4. CASE Retire(t)
  <2>1. Counted(t)'
    BY <1>0, <1>4 DEF TypeOK, Retire, Counted, Limit, Terminal
  <2>2. \A u \in Task \ {t} :
          /\ finished'[u] = finished[u] /\ status'[u] = status[u]
          /\ left'[u] = left[u] /\ execs'[u] = execs[u] /\ pc'[u] = pc[u]
    BY <1>4 DEF TypeOK, Retire
  <2> QED
    BY <2>1, <2>2, CountOne
<1>5. CASE Receive(t)
  BY <1>5, CountUntouched DEF TypeOK, Receive
<1>6. CASE StartRun(t)
  BY <1>6, CountUntouched DEF TypeOK, StartRun
<1>7. CASE UserCodePanics(t)
  BY <1>7, CountUntouched DEF TypeOK, UserCodePanics
<1>8. CASE ClearRunning(t)
  BY <1>8, CountUntouched DEF TypeOK, ClearRunning
<1>9. CASE Publish(t)
  BY <1>9, CountUntouched DEF TypeOK, Publish
<1>10. CASE Loop(t)
  <2>1. \A u \in Task : pc'[u] = "spawned" => pc[u] = "spawned"
    BY <1>10 DEF TypeOK, Loop
  <2> QED
    BY <1>10, <2>1, CountUntouched DEF Loop
<1>11. CASE Cancel(t)
  BY <1>11, CountUntouched DEF TypeOK, Cancel
<1> QED
  BY <1>1, <1>2, <1>3, <1>4, <1>5, <1>6, <1>7, <1>8, <1>9, <1>10, <1>11 DEF DriverStep

(* The scheduler and the handles execute nothing. *)
LEMMA OthersExecuteNothing ==
  ASSUME SchedulerStep \/ ClientStep
  PROVE  UNCHANGED <<finished, status, left, execs, pc>>
<1>1. CASE SchedulerStep
  BY <1>1
  DEF SchedulerStep, StartRound, Reap, ReapDone, VisitHandle, CheckDue, CheckRunning,
      SendRun, QueueRun, Refresh, StopLoop
<1>2. CASE ClientStep
  BY <1>2
  DEF ClientStep, RequestStop, Pause, Resume, Remove, TriggerReads, TriggerActs
<1> QED
  BY <1>1, <1>2

(* Every step keeps the count. *)
LEMMA CountStep ==
  ASSUME TypeOK, CountInv, [Next]_vars
  PROVE  CountInv'
<1>1. ASSUME NEW t \in Task, DriverStep(t) PROVE CountInv'
  BY <1>1, CountDriver
<1>2. CASE SchedulerStep \/ ClientStep
  BY <1>2, OthersExecuteNothing, CountUntouched
<1>3. CASE Tick \/ UNCHANGED vars
  BY <1>3, CountUntouched DEF Tick, vars
<1> QED
  BY <1>1, <1>2, <1>3 DEF Next

(* Hence the count is an invariant of every behaviour. *)
LEMMA CountCorrect == Spec => []CountInv
  BY TypeCorrect, CountInit, CountStep, PTL DEF Spec

(* A task built with repeat(n) is executed n times at most, once if n is 0, *)
(* for every n, schedule and interleaving of requests and retirement.      *)
THEOREM RepeatsRespected == Spec => []ExecutionsWithinRepeats
<1>1. TypeOK /\ CountInv => ExecutionsWithinRepeats
  BY DEF TypeOK, CountInv, Counted, Limit, ExecutionsWithinRepeats
<1> QED
  BY <1>1, TypeCorrect, CountCorrect, PTL

(* Once a task is marked finished its steps are not executed again: a Run  *)
(* that still reaches its driver is refused.                               *)
THEOREM FinishedIsFinal == Spec => RetiredNeverExecutes
<1> DEFINE Rests == \A t \in Task : finished[t] => execs'[t] = execs[t]
<1>1. ASSUME TypeOK, CountInv, [Next]_vars PROVE [Rests]_vars
  <2>1. ASSUME NEW t \in Task, DriverStep(t) PROVE Rests
    <3>1. CASE RunSteps(t)
      BY <1>1, <3>1 DEF TypeOK, CountInv, Counted, Terminal, RunSteps, MayRun
    <3>2. CASE ~RunSteps(t)
      <4>1. UNCHANGED execs
        BY <2>1, <3>2
        DEF DriverStep, InitTask, Receive, StartRun, UserCodePanics, Reschedule,
            ClearRunning, Retire, Publish, Loop, Cancel
      <4> QED
        BY <4>1
    <3> QED
      BY <3>1, <3>2
  <2>2. CASE SchedulerStep \/ ClientStep
    BY <2>2, OthersExecuteNothing
  <2>3. CASE Tick
    BY <2>3 DEF Tick
  <2> QED
    BY <1>1, <2>1, <2>2, <2>3 DEF Next
<1> QED
  BY <1>1, TypeCorrect, CountCorrect, PTL DEF Spec, RetiredNeverExecutes

-----------------------------------------------------------------------------
(* One thread.                                                             *)

Quiet == \A t \in Task : AtAwait(t) \/ Ended(t)

(* Nothing runs beside a round of the scheduler or a call of a handle.     *)
Turns ==
  /\ ~SchedulerSuspended => Quiet /\ RegistryFree
  /\ ~RegistryFree => Quiet

(* What the cells of a task say of the place where its driver is, and what *)
(* the scheduler and a caller have read that still holds.                  *)
Consistent(t) ==
  /\ pc[t] \in {"steps", "callbacks", "notify"} => running[t]
  /\ pc[t] \in {"spawned", "receive", "begin", "retire", "publish", "loop"} => ~running[t]
  /\ pc[t] = "spawned" => ~pending[t]
  /\ pc[t] = "receive" /\ pending[t] => finished[t]
  /\ chan[t] = 1 => pc[t] \in {"spawned", "receive"}
  /\ cur = t /\ spc = "send" => ~running[t]
  /\ cur = t /\ spc = "queue" => running[t]
  /\ trig[t] = "send" => ~running[t]
  /\ trig[t] = "pend" => running[t]
  /\ sent[t] <= 1
  /\ pc[t] \in {"spawned", "receive"} => sent[t] <= chan[t]
  /\ pc[t] = "loop" => sent[t] = 0

ThreadInv == Turns /\ \A t \in Task : Consistent(t)

(* The invariant holds at the start. *)
LEMMA ThreadInit == Init => ThreadInv
  BY ConstantsAssumption
  DEF Init, ThreadInv, Turns, Consistent, Quiet, SchedulerSuspended, RegistryFree,
      AtAwait, InUserCode

(* A driver that has its turn leaves the others alone. *)
LEMMA DriverAlone ==
  ASSUME TypeOK, ThreadInv, ~MultiThread, NEW t \in Task, DriverStep(t)
  PROVE  /\ Turns'
         /\ SchedulerSuspended
         /\ RegistryFree
         /\ UNCHANGED <<spc, cur, trig>>
         /\ \A u \in Task \ {t} : Consistent(u)'
<1>1. /\ SchedulerSuspended
      /\ RegistryFree
      /\ UNCHANGED <<spc, cur, trig>>
  BY DEF DriverStep, DriverTurn, ThreadFree, InitTask, Receive, StartRun, RunSteps, UserCodePanics, Reschedule,
      ClearRunning, Retire, Publish, Loop, Cancel
<1>2. Turns'
  BY <1>1 DEF Turns, SchedulerSuspended, RegistryFree
<1>3. ASSUME NEW u \in Task \ {t}
      PROVE  /\ pc'[u] = pc[u] /\ running'[u] = running[u] /\ pending'[u] = pending[u]
             /\ finished'[u] = finished[u] /\ chan'[u] = chan[u] /\ sent'[u] = sent[u]
  <2>1. CASE InitTask(t)
    BY <1>3, <2>1 DEF TypeOK, InitTask
  <2>2. CASE Receive(t)
    BY <1>3, <2>2 DEF TypeOK, Receive
  <2>3. CASE StartRun(t)
    BY <1>3, <2>3 DEF TypeOK, StartRun
  <2>4. CASE RunSteps(t)
    BY <1>3, <2>4 DEF TypeOK, RunSteps
  <2>5. CASE UserCodePanics(t)
    BY <1>3, <2>5 DEF TypeOK, UserCodePanics
  <2>6. CASE Reschedule(t)
    BY <1>3, <2>6 DEF TypeOK, Reschedule
  <2>7. CASE ClearRunning(t)
    BY <1>3, <2>7 DEF TypeOK, ClearRunning
  <2>8. CASE Retire(t)
    BY <1>3, <2>8 DEF TypeOK, Retire
  <2>9. CASE Publish(t)
    BY <1>3, <2>9 DEF TypeOK, Publish
  <2>10. CASE Loop(t)
    BY <1>3, <2>10 DEF TypeOK, Loop
  <2>11. CASE Cancel(t)
    BY <1>3, <2>11 DEF TypeOK, Cancel
  <2> QED
    BY <2>1, <2>2, <2>3, <2>4, <2>5, <2>6, <2>7, <2>8, <2>9, <2>10, <2>11 DEF DriverStep
<1>4. ASSUME NEW u \in Task \ {t} PROVE Consistent(u)'
  <2>1. Consistent(u)
    BY DEF ThreadInv
  <2> QED
    BY <1>1, <1>3, <2>1 DEF Consistent
<1> QED
  BY <1>1, <1>2, <1>4

(* Each step of a driver keeps the invariant of its own task. *)
LEMMA DriverConsistent ==
  ASSUME TypeOK, ThreadInv, ~MultiThread, NEW t \in Task, DriverStep(t)
  PROVE  Consistent(t)'
<1> USE DriverAlone DEF SchedulerSuspended, RegistryFree
<1>0. Consistent(t) /\ spc' \notin {"send", "queue"} /\ trig'[t] = "no"
  BY DEF ThreadInv
<1>1. CASE InitTask(t)
  BY <1>0, <1>1 DEF TypeOK, InitTask, Consistent
<1>2. CASE Receive(t)
  BY <1>0, <1>2 DEF TypeOK, Receive, Consistent
<1>3. CASE StartRun(t)
  BY <1>0, <1>3 DEF TypeOK, StartRun, Consistent
<1>4. CASE RunSteps(t)
  BY <1>0, <1>4 DEF TypeOK, RunSteps, Consistent
<1>5. CASE UserCodePanics(t)
  BY <1>0, <1>5 DEF TypeOK, UserCodePanics, Consistent
<1>6. CASE Reschedule(t)
  BY <1>0, <1>6 DEF TypeOK, Reschedule, Consistent
<1>7. CASE ClearRunning(t)
  BY <1>0, <1>7 DEF TypeOK, ClearRunning, Consistent
<1>8. CASE Retire(t)
  BY <1>0, <1>8 DEF TypeOK, Retire, Consistent
<1>9. CASE Publish(t)
  BY <1>0, <1>9 DEF TypeOK, Publish, Consistent
<1>10. CASE Loop(t)
  <2>1. CASE finished[t]
    BY <1>0, <1>10, <2>1 DEF TypeOK, Loop, Consistent
  <2>2. CASE ~finished[t]
    <3>1. ~pending'[t] /\ pc'[t] \in {"begin", "receive"}
      BY <1>10, <2>2 DEF TypeOK, Loop
    <3> QED
      BY <1>0, <1>10, <2>2, <3>1 DEF TypeOK, Loop, Consistent
  <2> QED
    BY <2>1, <2>2
<1>11. CASE Cancel(t)
  BY <1>0, <1>11 DEF TypeOK, Cancel, Consistent
<1> QED
  BY <1>1, <1>2, <1>3, <1>4, <1>5, <1>6, <1>7, <1>8, <1>9, <1>10, <1>11 DEF DriverStep

(* A round of the scheduler decides on cells that nobody changes meanwhile. *)
LEMMA ThreadScheduler ==
  ASSUME TypeOK, ThreadInv, ~MultiThread, SchedulerStep
  PROVE  ThreadInv'
<1>1. Quiet /\ RegistryFree /\ UNCHANGED <<pc, status, running, trig, finished>>
  BY DEF SchedulerStep, SchedulerTurn, Quiet, StartRound, Reap, ReapDone, VisitHandle,
         CheckDue, CheckRunning, SendRun, QueueRun, Refresh, StopLoop
<1>2. Turns'
  BY <1>1 DEF Turns, Quiet, RegistryFree, AtAwait, Ended, InUserCode
<1>3. ASSUME NEW u \in Task PROVE Consistent(u)'
  <2>0. /\ Consistent(u) /\ trig[u] = "no"
        /\ pc[u] \in {"steps", "callbacks", "notify", "spawned", "receive"} \/ Ended(u)
    BY <1>1 DEF ThreadInv, Quiet, RegistryFree, AtAwait, InUserCode
  <2>1. CASE SendRun
    <3>1. CASE cur = u
      <4>1. ~running[u]
        BY <2>0, <2>1, <3>1 DEF SendRun, Consistent
      <4>2. pc[u] \in {"spawned", "receive"} \/ Ended(u)
        BY <2>0, <4>1 DEF Consistent
      <4> QED
        BY <1>1, <2>0, <2>1, <3>1, <4>1, <4>2 DEF TypeOK, SendRun, TrySend, Consistent, Ended
    <3>2. CASE cur # u
      <4>1. /\ chan'[u] = chan[u] /\ sent'[u] = sent[u] /\ pending'[u] = pending[u]
            /\ spc' = "dispatch"
        BY <2>1, <3>2 DEF TypeOK, SendRun, TrySend
      <4> QED
        BY <1>1, <2>0, <4>1 DEF Consistent
    <3> QED
      BY <3>1, <3>2
  <2>2. CASE QueueRun
    <3>1. cur = u => pc[u] \notin {"spawned", "receive"}
      BY <2>0, <2>2 DEF QueueRun, Consistent
    <3>2. /\ cur # u => pending'[u] = pending[u]
          /\ spc' = "dispatch" /\ UNCHANGED <<chan, sent>>
      BY <2>2 DEF TypeOK, QueueRun
    <3> QED
      BY <1>1, <2>0, <3>1, <3>2 DEF Consistent
  <2>3. CASE CheckRunning
    BY <1>1, <2>0, <2>3 DEF CheckRunning, Consistent
  <2>4. CASE ~SendRun /\ ~QueueRun /\ ~CheckRunning
    <3>1. spc' \notin {"send", "queue"} /\ UNCHANGED <<pending, chan, sent>>
      BY <2>4
      DEF SchedulerStep, StartRound, Reap, ReapDone, VisitHandle, CheckDue, Refresh, StopLoop
    <3> QED
      BY <1>1, <2>0, <3>1 DEF Consistent
  <2> QED
    BY <2>1, <2>2, <2>3, <2>4
<1> QED
  BY <1>2, <1>3 DEF ThreadInv

(* A call of a handle acts on what it has just read. *)
LEMMA ThreadClient ==
  ASSUME TypeOK, ThreadInv, ~MultiThread, ClientStep
  PROVE  ThreadInv'
<1>1. UNCHANGED <<pc, status, running, finished, spc, cur, sent>>
  BY DEF ClientStep, RequestStop, Pause, Resume, Remove, TriggerReads, TriggerActs
<1>2. CASE UNCHANGED <<trig, pending, chan>>
  BY <1>1, <1>2
  DEF ThreadInv, Turns, Consistent, Quiet, SchedulerSuspended, RegistryFree, AtAwait,
      InUserCode, Ended
<1>3. ASSUME NEW t \in Task, TriggerReads(t) PROVE ThreadInv'
  <2>1. SchedulerSuspended /\ Quiet /\ RegistryFree /\ UNCHANGED <<pending, chan>>
    BY <1>3 DEF TriggerReads, ClientTurn, Quiet
  <2>2. Turns'
    BY <1>1, <2>1 DEF Turns, Quiet, SchedulerSuspended, AtAwait, Ended, InUserCode
  <2>3. ASSUME NEW u \in Task PROVE Consistent(u)'
    <3>1. Consistent(u)
      BY DEF ThreadInv
    <3>2. trig'[u] = "send" => ~running[u]
      BY <1>3, <2>1 DEF TypeOK, TriggerReads, TriggerKind, RegistryFree
    <3>3. trig'[u] = "pend" => running[u]
      BY <1>3, <2>1 DEF TypeOK, TriggerReads, TriggerKind, RegistryFree
    <3> QED
      BY <1>1, <2>1, <3>1, <3>2, <3>3 DEF Consistent
  <2> QED
    BY <2>2, <2>3 DEF ThreadInv
<1>4. ASSUME NEW t \in Task, TriggerActs(t) PROVE ThreadInv'
  <2>1. ~RegistryFree
    BY <1>4 DEF TriggerActs, RegistryFree
  <2>2. SchedulerSuspended /\ Quiet
    BY <2>1 DEF ThreadInv, Turns
  <2>3. Turns'
    BY <1>1, <2>2 DEF Turns, Quiet, SchedulerSuspended, AtAwait, Ended, InUserCode
  <2>4. ASSUME NEW u \in Task PROVE Consistent(u)'
    <3>0. /\ Consistent(u)
          /\ pc[u] \in {"steps", "callbacks", "notify", "spawned", "receive"} \/ Ended(u)
      BY <2>2 DEF ThreadInv, Quiet, AtAwait, InUserCode
    <3>1. CASE u # t
      <4>1. trig'[u] = trig[u] /\ chan'[u] = chan[u] /\ pending'[u] = pending[u]
        BY <1>4, <3>1 DEF TypeOK, TriggerActs, TrySend
      <4> QED
        BY <1>1, <3>0, <4>1 DEF Consistent
    <3>2. CASE u = t /\ trig[t] = "pend"
      <4>1. trig'[t] = "no" /\ UNCHANGED chan
        BY <1>4, <3>2 DEF TypeOK, TriggerActs
      <4>2. pc[t] \notin {"spawned", "receive"}
        BY <3>0, <3>2 DEF Consistent
      <4> QED
        BY <1>1, <3>0, <3>2, <4>1, <4>2 DEF Consistent
    <3>3. CASE u = t /\ trig[t] = "send"
      <4>1. /\ trig'[t] = "no" /\ UNCHANGED pending
            /\ chan'[t] = (IF Ended(t) THEN chan[t] ELSE 1)
        BY <1>4, <3>3 DEF TypeOK, TriggerActs, TrySend
      <4>2. ~running[t]
        BY <3>0, <3>3 DEF Consistent
      <4>3. pc[t] \in {"spawned", "receive"} \/ Ended(t)
        BY <3>0, <3>3, <4>2 DEF Consistent
      <4>4. CASE pc[t] \in {"spawned", "receive"}
        <5>1. chan'[t] = 1 /\ sent[t] <= 1
          BY <3>0, <3>3, <4>1, <4>4 DEF Consistent, Ended
        <5> QED
          BY <1>1, <3>0, <3>3, <4>1, <4>2, <4>4, <5>1 DEF Consistent
      <4>5. CASE Ended(t)
        BY <1>1, <3>0, <3>3, <4>1, <4>2, <4>5 DEF Consistent, Ended
      <4> QED
        BY <4>3, <4>4, <4>5
    <3> QED
      BY <1>4, <3>1, <3>2, <3>3 DEF TriggerActs
  <2> QED
    BY <2>3, <2>4 DEF ThreadInv
<1> QED
  BY <1>2, <1>3, <1>4 DEF ClientStep, RequestStop, Pause, Resume, Remove

(* On one thread the invariant holds in every behaviour. *)
LEMMA ThreadCorrect ==
  ASSUME ~MultiThread
  PROVE  Spec => []ThreadInv
<1>1. ASSUME TypeOK, ThreadInv, [Next]_vars PROVE ThreadInv'
  <2>1. ASSUME NEW t \in Task, DriverStep(t) PROVE ThreadInv'
    BY <1>1, <2>1, DriverAlone, DriverConsistent DEF ThreadInv
  <2>2. CASE Tick \/ UNCHANGED vars
    BY <1>1, <2>2
    DEF Tick, vars, ThreadInv, Turns, Consistent, Quiet, SchedulerSuspended, RegistryFree,
        AtAwait, InUserCode, Ended
  <2> QED
    BY <1>1, <2>1, <2>2, ThreadScheduler, ThreadClient DEF Next
<1> QED
  BY <1>1, TypeCorrect, ThreadInit, PTL DEF Spec

(* "at most one Run is ever in flight" is true on a current-thread runtime, *)
(* for every set of tasks and every use of the handles.                    *)
THEOREM OneThreadOneRun ==
  ASSUME ~MultiThread
  PROVE  Spec => []OneRunInFlight
<1>1. ThreadInv => OneRunInFlight
  BY DEF ThreadInv, Consistent, OneRunInFlight, InRun
<1> QED
  BY <1>1, ThreadCorrect, PTL

(* On a current-thread runtime a run that was queued behind a run in       *)
(* progress is never left behind by a driver that goes back to waiting.    *)
THEOREM OneThreadNothingStranded ==
  ASSUME ~MultiThread
  PROVE  Spec => []NoStrandedPending
<1>1. ThreadInv => NoStrandedPending
  BY DEF ThreadInv, Consistent, NoStrandedPending
<1> QED
  BY <1>1, ThreadCorrect, PTL

-----------------------------------------------------------------------------
(* How often one instant is dispatched.                                    *)

(* Each Run sent since the last publication is still in the channel, or is *)
(* the one the driver is busy with.                                        *)
Accounted(t) ==
  /\ sent[t] <= 2
  /\ InRun(t) => sent[t] <= chan[t] + 1
  /\ ~InRun(t) /\ ~Ended(t) => sent[t] <= chan[t]

SentInv == \A t \in Task : Accounted(t)

(* A step of a driver moves a Run from the channel to the run, and forgets *)
(* the Runs it was sent when it publishes.                                 *)
LEMMA SentDriver ==
  ASSUME TypeOK, SentInv, NEW t \in Task, DriverStep(t), NEW u \in Task
  PROVE  Accounted(u)'
<1>0. Accounted(u)
  BY DEF SentInv
<1>1. CASE InitTask(t)
  BY <1>0, <1>1 DEF TypeOK, InitTask, Accounted, Ended, InRun
<1>2. CASE Receive(t)
  BY <1>0, <1>2 DEF TypeOK, Receive, Accounted, Ended, InRun
<1>3. CASE StartRun(t)
  BY <1>0, <1>3 DEF TypeOK, StartRun, Accounted, Ended, InRun
<1>4. CASE RunSteps(t)
  BY <1>0, <1>4 DEF TypeOK, RunSteps, Accounted, Ended, InRun
<1>5. CASE UserCodePanics(t)
  BY <1>0, <1>5 DEF TypeOK, UserCodePanics, Accounted, Ended, InRun
<1>6. CASE Reschedule(t)
  BY <1>0, <1>6 DEF TypeOK, Reschedule, Accounted, Ended, InRun
<1>7. CASE ClearRunning(t)
  BY <1>0, <1>7 DEF TypeOK, ClearRunning, Accounted, Ended, InRun
<1>8. CASE Retire(t)
  BY <1>0, <1>8 DEF TypeOK, Retire, Accounted, Ended, InRun
<1>9. CASE Publish(t)
  <2>1. CASE u = t
    <3>1. sent'[u] = 0 /\ pc'[u] = "loop" /\ chan'[u] \in 0..1
      BY <1>9, <2>1 DEF TypeOK, Publish
    <3> QED
      BY <3>1 DEF Accounted, Ended, InRun
  <2>2. CASE u # t
    <3>1. sent'[u] = sent[u] /\ pc'[u] = pc[u] /\ chan'[u] = chan[u]
      BY <1>9, <2>2 DEF TypeOK, Publish
    <3> QED
      BY <1>0, <3>1 DEF Accounted, Ended, InRun
  <2> QED
    BY <2>1, <2>2
<1>10. CASE Loop(t)
  <2>1. CASE pc'[u] = pc[u]
    <3>1. UNCHANGED sent /\ (chan'[u] = chan[u] \/ u = t)
      BY <1>10 DEF TypeOK, Loop
    <3>2. u = t => pc[u] = "loop" /\ pc'[u] # "loop"
      BY <1>10 DEF TypeOK, Loop
    <3> QED
      BY <1>0, <2>1, <3>1, <3>2 DEF Accounted, Ended, InRun
  <2>2. CASE pc'[u] # pc[u]
    <3>1. UNCHANGED sent /\ pc[u] = "loop"
      BY <1>10, <2>2 DEF TypeOK, Loop
    <3>2. pc'[u] = "done" \/ (pc'[u] \in {"receive", "begin"} /\ chan'[u] = chan[u])
      BY <1>10, <2>2 DEF TypeOK, Loop
    <3> QED
      BY <1>0, <3>1, <3>2 DEF TypeOK, Accounted, Ended, InRun
  <2> QED
    BY <2>1, <2>2
<1>11. CASE Cancel(t)
  BY <1>0, <1>11 DEF TypeOK, Cancel, Accounted, Ended, InRun
<1> QED
  BY <1>1, <1>2, <1>3, <1>4, <1>5, <1>6, <1>7, <1>8, <1>9, <1>10, <1>11 DEF DriverStep

(* A Run that is sent is in the channel. *)
LEMMA SentOthers ==
  ASSUME TypeOK, SentInv, SchedulerStep \/ ClientStep, NEW u \in Task
  PROVE  Accounted(u)'
<1>0. Accounted(u) /\ UNCHANGED pc
  BY OthersExecuteNothing DEF SentInv
<1>1. CASE SendRun
  <2>1. CASE Ended(cur) \/ chan[cur] = 1
    <3>1. UNCHANGED <<chan, sent>>
      BY <1>1, <2>1 DEF TypeOK, SendRun, TrySend
    <3> QED
      BY <1>0, <3>1 DEF Accounted, Ended, InRun
  <2>2. CASE ~Ended(cur) /\ chan[cur] = 0
    <3>1. /\ chan' = [chan EXCEPT ![cur] = 1]
          /\ sent' = [sent EXCEPT ![cur] = @ + 1]
      BY <1>1, <2>2 DEF TypeOK, SendRun, TrySend
    <3> QED
      BY <1>0, <2>2, <3>1 DEF TypeOK, Accounted, Ended, InRun
  <2> QED
    BY <1>1, <2>1, <2>2 DEF TypeOK, SendRun
<1>2. ASSUME NEW t \in Task, TriggerActs(t) PROVE Accounted(u)'
  <2>1. UNCHANGED sent /\ chan[u] <= chan'[u]
    BY <1>2 DEF TypeOK, TriggerActs, TrySend
  <2>2. chan[u] \in 0..1 /\ chan'[u] \in 0..1
    BY <1>2, TypeClient DEF TypeOK, ClientStep
  <2> QED
    BY <1>0, <2>1, <2>2 DEF TypeOK, Accounted, Ended, InRun
<1>3. CASE ~SendRun /\ \A t \in Task : ~TriggerActs(t)
  <2>1. UNCHANGED <<chan, sent>>
    BY <1>3
    DEF SchedulerStep, StartRound, Reap, ReapDone, VisitHandle, CheckDue, CheckRunning,
        QueueRun, Refresh, StopLoop, ClientStep, RequestStop, Pause, Resume, Remove,
        TriggerReads
  <2> QED
    BY <1>0, <2>1 DEF Accounted, Ended, InRun
<1> QED
  BY <1>1, <1>2, <1>3

(* Between two publications of a task the scheduler sends one Run at most  *)
(* on a current-thread runtime and two at most on any runtime, whatever    *)
(* the schedule, the overlap policy and the calls of handles.              *)
THEOREM FewRunsPerInstant == Spec => []SentPerInstant
<1>1. ASSUME Init PROVE SentInv
  <2>1. ASSUME NEW t \in Task PROVE Accounted(t)
    <3>1. sent[t] = 0 /\ chan[t] = 0
      BY <1>1 DEF Init
    <3>2. pc[t] = "spawned"
      BY <1>1 DEF Init
    <3> QED
      BY <3>1, <3>2 DEF Accounted, InRun, Ended
  <2> QED
    BY <2>1 DEF SentInv
<1>2. ASSUME TypeOK, SentInv, [Next]_vars PROVE SentInv'
  <2>1. ASSUME NEW t \in Task, DriverStep(t) PROVE SentInv'
    BY <1>2, <2>1, SentDriver DEF SentInv
  <2>2. CASE SchedulerStep \/ ClientStep
    BY <1>2, <2>2, SentOthers DEF SentInv
  <2>3. CASE Tick \/ UNCHANGED vars
    BY <1>2, <2>3 DEF Tick, vars, SentInv, Accounted, InRun, Ended
  <2> QED
    BY <1>2, <2>1, <2>2, <2>3 DEF Next
<1>3. CASE MultiThread
  <2>1. SentInv => SentPerInstant
    BY <1>3 DEF SentInv, Accounted, SentPerInstant
  <2> QED
    BY <1>1, <1>2, <2>1, TypeCorrect, PTL DEF Spec
<1>4. CASE ~MultiThread
  <2>1. ThreadInv => SentPerInstant
    BY <1>4 DEF ThreadInv, Consistent, SentPerInstant
  <2>2. Spec => []ThreadInv
    BY <1>4, ThreadCorrect
  <2> QED
    BY <2>1, <2>2, PTL
<1> QED
  BY <1>3, <1>4

=============================================================================
