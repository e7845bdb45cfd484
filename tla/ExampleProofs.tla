---------------------------- MODULE ExampleProofs ----------------------------
(***************************************************************************)
(* What the examples come to when they run, for every bound on the runs:   *)
(* how often a step's closure is called and a task executed, which runs    *)
(* fail, and how the task ends.                                            *)
(*                                                                         *)
(* The argument counts.  The executed runs and the repeats that are left   *)
(* add up to what was asked for; what a closure has captured is the number *)
(* of the executed runs, and one more while the present run has called it; *)
(* and a task that goes on executes every run that it opens.               *)
(***************************************************************************)
EXTENDS ProgramsProofs

USE DEF driver, shared, seen, user, given, fixed

-----------------------------------------------------------------------------
(* The task of every program.                                              *)

(* Programs whose last step counts its calls and whose task has no policy. *)
Odd == {"one", "read_me"}
Counting == {"simple", "force_remove"} \union Odd

(* The steps of the tasks that count, and the one that deletes.            *)
LEMMA TasksOfExamples ==
  ASSUME Described, built # {}
  PROVE  /\ program.name = "simple" =>
              task.steps = 1 /\ task.retries = 0 /\ (index = 1 => Body = "countdown")
         /\ program.name \in Odd =>
              /\ task.steps = 2 /\ task.retries = 0
              /\ index = 1 => Body = "hello"
              /\ index = 2 => Body = "every other"
         /\ program.name = "force_remove" =>
              /\ task.steps = 2 /\ task.retries = 0
              /\ index = 1 => Body = "hello"
              /\ index = 2 => Body = "every other, then delete"
         /\ program.name = "retry" =>
              task.steps = 1 /\ task.retries = 3 /\ (index = 1 => Body = "flaky")
         /\ index \in Step /\ Body = "every other, then delete" => program.name = "force_remove"
<1>1. PICK b : MadeWith(b)
  BY DEF Described
<1>2. /\ TheTask = Build(b) /\ task = Shape(Build(b)) /\ Asked(b, program.name)
      /\ Build(b).steps = b.steps /\ Build(b).retry_policy = b.retry_policy
  BY <1>1, BuildType DEF MadeWith, TheTask
<1>3. task.steps = Len(b.steps) /\ Body = b.steps[index].body
  BY <1>2 DEF Shape, Body
<1>4. /\ b.retry_policy = {} => task.retries = 0
      /\ b.retry_policy = {FlakyPolicy} => task.retries = 3
  <2>1. (CHOOSE p \in {FlakyPolicy} : TRUE) = FlakyPolicy
    OBVIOUS
  <2> QED
    BY <1>2, <2>1, FlakyPolicyAllows DEF Shape
<1>5. ASSUME NEW body, OneStep(b, body, b.repeats, b.retry_policy)
      PROVE  task.steps = 1 /\ (index \in Step => Body = body) /\ (index = 1 => Body = body)
  BY <1>3, <1>5 DEF OneStep, Step
<1>6. ASSUME NEW first, NEW second, TwoSteps(b, first, second, b.repeats, b.retry_policy)
      PROVE  /\ task.steps = 2 /\ (index \in Step => Body \in {first, second})
             /\ (index = 1 => Body = first) /\ (index = 2 => Body = second)
  BY <1>3, <1>6 DEF TwoSteps, Step
<1> DEFINE name == program.name
<1>7. CASE name = "simple"
  <2>1. OneStep(b, "countdown", b.repeats, b.retry_policy) /\ b.retry_policy = {}
    BY <1>2, <1>7 DEF Asked, OneStep
  <2>2. task.steps = 1 /\ (index \in Step => Body = "countdown") /\ (index = 1 => Body = "countdown")
    BY <1>5, <2>1
  <2>3. task.retries = 0
    BY <1>4, <2>1
  <2> QED
    BY <1>7, <2>2, <2>3 DEF Odd
<1>8. CASE name \in Odd
  <2>1. TwoSteps(b, "hello", "every other", b.repeats, b.retry_policy) /\ b.retry_policy = {}
    BY <1>2, <1>8 DEF Asked, TwoSteps, Odd
  <2>2. /\ task.steps = 2 /\ (index \in Step => Body \in {"hello", "every other"})
        /\ (index = 1 => Body = "hello") /\ (index = 2 => Body = "every other")
    BY <1>6, <2>1
  <2>3. task.retries = 0
    BY <1>4, <2>1
  <2> QED
    BY <1>8, <2>2, <2>3 DEF Odd
<1>9. CASE name = "force_remove"
  <2>1. /\ TwoSteps(b, "hello", "every other, then delete", b.repeats, b.retry_policy)
        /\ b.retry_policy = {}
    BY <1>2, <1>9 DEF Asked, TwoSteps
  <2> QED
    BY <1>4, <1>6, <1>9, <2>1 DEF Odd
<1>10. CASE name = "retry"
  <2>1. OneStep(b, "flaky", b.repeats, b.retry_policy) /\ b.retry_policy = {FlakyPolicy}
    BY <1>2, <1>10 DEF Asked, OneStep
  <2> QED
    BY <1>4, <1>5, <1>10, <2>1 DEF Odd
<1>11. CASE name \in {"builder", "generated", "helpers", "pipeline"}
  <2>1. \/ TwoSteps(b, "hello", "hello", b.repeats, b.retry_policy)
        \/ TwoSteps(b, "hello", "slow", b.repeats, b.retry_policy)
        \/ TwoSteps(b, "produce", "consume", b.repeats, b.retry_policy)
    BY <1>2, <1>11 DEF Asked, TwoSteps
  <2>2. index \in Step => Body \in {"hello", "slow", "produce", "consume"}
    BY <1>6, <2>1
  <2> QED
    BY <1>11, <2>2 DEF Odd
<1>12. CASE name \in {"slow", "producer", "policy"}
  <2>1. \E body \in {"slow", "increment", "failing", "hanging"} :
          OneStep(b, body, b.repeats, b.retry_policy)
    BY <1>2, <1>12 DEF Asked, OneStep
  <2>2. index \in Step => Body # "every other, then delete"
    BY <1>5, <2>1
  <2> QED
    BY <1>12, <2>2 DEF Odd
<1>13. CASE name = "cron"
  <2>1. index \notin Step
    BY <1>2, <1>3, <1>13 DEF Asked, Plain, Step
  <2> QED
    BY <1>13, <2>1 DEF Odd
<1>14. name \in {"simple", "force_remove", "retry"} \union Odd
               \union {"builder", "generated", "helpers", "pipeline"}
               \union {"slow", "producer", "policy", "cron"}
  BY <1>2 DEF Asked, Examples, Odd
<1> QED
  BY <1>7, <1>8, <1>9, <1>10, <1>11, <1>12, <1>13, <1>14

(* What a step of a program does to its task; only a call of a closure     *)
(* changes what the closure counts and the context it was given.           *)
LEMMA ProgramMoves ==
  ASSUME [ProgramNext]_allVars
  PROVE  /\ built # {} \/ UNCHANGED <<vars, count, ctx>>
         /\ program' = program
         /\ CallStep \/ UNCHANGED <<count, ctx>>
         /\ \/ UNCHANGED vars
            \/ OpenRecord \/ SetRunning \/ Refuse \/ Enter
            \/ CallStep \/ Succeeds \/ Deletes \/ Fails \/ TimesOut
            \/ EndSteps \/ Notify \/ Reschedules \/ ClearRunning \/ FinishRun
            \/ Retire \/ Publish \/ Loop \/ Cancelled
<1>0. program' = program
  BY ProgramStep
<1>1. CASE AsInTaskRun
  BY <1>0, <1>1, [ProgramNext]_allVars DEF AsInTaskRun, Untouched, ProgramNext, allVars
<1>2. CASE EnterRun \/ CallStep \/ TimesOut \/ Fails
  BY <1>0, <1>2, [ProgramNext]_allVars DEF EnterRun, TimesOut, Fails, Backs, ProgramNext, allVars
<1>3. CASE Succeeds \/ Deletes \/ Reschedules \/ Cancelled
  BY <1>0, <1>3, [ProgramNext]_allVars
  DEF Succeeds, Deletes, Reschedules, Cancelled, Untouched, ProgramNext, allVars
<1>4. CASE Put \/ Take \/ Fetch \/ Write
  BY <1>0, <1>4, [ProgramNext]_allVars DEF Put, Take, Fetch, Write, ProgramNext, allVars
<1>5. CASE OtherFetches \/ OtherWrites \/ OtherSpoils
  BY <1>0, <1>5, [ProgramNext]_allVars
  DEF OtherFetches, OtherWrites, OtherSpoils, ProgramNext, allVars
<1>6. CASE UNCHANGED allVars
  BY <1>0, <1>6 DEF allVars
<1> QED
  BY <1>1, <1>2, <1>3, <1>4, <1>5, <1>6, [ProgramNext]_allVars DEF ProgramNext

-----------------------------------------------------------------------------
(* How often a task is executed.                                           *)

(* What repeat asks for; a task without it has more than are ever run.     *)
Quota ==
  CASE program.name \in {"simple", "builder"}        -> 5
    [] program.name = "generated"                    -> 2
    [] program.name \in {"retry", "policy", "cron"} -> 1
    [] OTHER                                         -> MaxRuns + 1

(* The run that was opened last has not ended its steps. *)
Unended == pc \in {"opened", "enter", "next", "attempt", "delay", "end"}

(* The executed runs and the repeats that are left are what was asked for, *)
(* a task that is Scheduled has some left and one that is Finished has     *)
(* none; no more runs are executed than were asked for by callers; and     *)
(* on_finish is called only for a task that is over.                       *)
QuotaInv ==
  /\ executed + left = Quota
  /\ InSteps \/ status = "Scheduled" => left > 0
  /\ status = "Finished" => left = 0
  /\ executed <= runs /\ (Unended => executed < runs) /\ runs <= MaxRuns
  /\ calls.finish > 0 => IsTerminal

(* Every task is asked to be executed at least once. *)
LEMMA QuotaType == Quota \in Nat /\ Quota > 0
  BY BoundsAssumption DEF Quota

(* A task starts with the repeats that its builder was asked for.          *)
LEMMA QuotaInit == ProgramInit => QuotaInv
<1> SUFFICES ASSUME ProgramInit PROVE QuotaInv
  OBVIOUS
<1>1. PICK b : MadeWith(b) /\ Starts(b)
  BY ProgramStarted
<1>2. \A n : (CHOOSE r \in {n} : TRUE) = n
  OBVIOUS
<1>3. left = Quota
  <2>1. /\ b.repeats = {} => left = MaxRuns + 1
        /\ \A n : b.repeats = {n} => left = n
    BY <1>1, <1>2 DEF Starts
  <2>2. Asked(b, program.name)
    BY <1>1 DEF MadeWith
  <2>3. CASE program.name \in {"simple", "builder"}
    <3>1. b.repeats = {5}
      BY <2>2, <2>3 DEF Asked, OneStep, TwoSteps
    <3> QED
      BY <2>1, <2>3, <3>1 DEF Quota
  <2>4. CASE program.name = "generated"
    <3>1. b.repeats = {2}
      BY <2>2, <2>4 DEF Asked, TwoSteps
    <3> QED
      BY <2>1, <2>4, <3>1 DEF Quota
  <2>5. CASE program.name \in {"retry", "policy", "cron"}
    <3>1. b.repeats = {1}
      BY <2>2, <2>5 DEF Asked, OneStep, Plain
    <3> QED
      BY <2>1, <2>5, <3>1 DEF Quota
  <2>6. CASE program.name \in {"one", "read_me", "force_remove", "helpers", "slow", "pipeline",
                               "producer"}
    <3>1. b.repeats = {}
      BY <2>2, <2>6 DEF Asked, OneStep, TwoSteps
    <3> QED
      BY <2>1, <2>6, <3>1 DEF Quota
  <2> QED
    BY <2>2, <2>3, <2>4, <2>5, <2>6 DEF Asked, Examples
<1>4. /\ executed = 0 /\ status = "Scheduled" /\ pc = "idle" /\ runs = 0 /\ calls.finish = 0
      /\ MaxRuns \in Nat
  BY BoundsAssumption DEF ProgramInit, Fresh
<1> QED
  BY <1>3, <1>4, QuotaType DEF QuotaInv, InSteps, Unended

(* Every step keeps the invariant. *)
LEMMA QuotaStep ==
  ASSUME TaskInv, QuotaInv, [ProgramNext]_allVars
  PROVE  QuotaInv'
<1>0. /\ executed \in Nat /\ left \in Nat /\ runs \in Nat /\ Quota \in Nat /\ MaxRuns \in Nat
      /\ calls \in [success : Nat, failure : Nat, finish : Nat]
  BY QuotaType, BoundsAssumption DEF TaskInv, TypeOK
<1>1. Quota' = Quota
  <2>1. program' = program
    BY ProgramStep
  <2> QED
    BY <2>1 DEF Quota
<1> USE DEF QuotaInv, InSteps, Unended, IsTerminal
<1>2. CASE UNCHANGED vars
  BY <1>1, <1>2 DEF vars
<1>3. CASE OpenRecord
  BY <1>0, <1>1, <1>3 DEF OpenRecord
<1>4. CASE Enter
  BY <1>0, <1>1, <1>4 DEF Enter, Runnable
<1>5. pc \in {"next", "attempt", "delay"} =>
        status \in {"Scheduled", "Executed"} /\ ~(calls.finish > 0)
  BY DEF TaskInv, StatusInv
<1>6. CASE BeginAttempt \/ StepSucceeds
  BY <1>0, <1>1, <1>5, <1>6 DEF BeginAttempt, StepSucceeds
<1>7. CASE StepDeletes \/ StepFails \/ StepTimesOut
  BY <1>0, <1>1, <1>5, <1>7 DEF StepDeletes, StepFails, StepTimesOut, FailAttempt
<1>8. CASE EndSteps
  <2>1. pc \in {"next", "end"} /\ left > 0 /\ executed < runs
    BY <1>8 DEF EndSteps
  <2>2. /\ executed' = executed + 1 /\ left' = left - 1 /\ pc' = "notify"
        /\ UNCHANGED <<runs, calls>>
    BY <2>1, <1>8 DEF EndSteps, OneLess
  <2>3. executed' + left' = Quota' /\ executed' <= runs' /\ runs' <= MaxRuns
    BY <1>0, <1>1, <2>1, <2>2
  <2>4. status' \in {"Failed", "ForceRemoved", "Executed"} /\ (calls.finish > 0 => status' = status)
    <3>1. CASE pc = "next"
      <4>1. index \in Nat /\ index >= 1 /\ index \notin 1..task.steps /\ task.steps \in Nat
        BY <1>8, <3>1 DEF EndSteps, Step, TaskInv, TypeOK, StepInv
      <4>2. index = 1 => task.steps = 0
        BY <4>1
      <4>3. task.steps # 0 => status = "Executed"
        BY <3>1, <4>2 DEF TaskInv, StatusInv
      <4> QED
        BY <1>5, <1>8, <3>1, <4>3 DEF EndSteps
    <3>2. CASE pc = "end"
      <4>1. task.steps # 0 /\ status \in {"Failed", "ForceRemoved"}
        BY <3>2 DEF TaskInv, StepInv, StatusInv, Step
      <4> QED
        BY <1>8, <4>1 DEF EndSteps
    <3> QED
      BY <2>1, <3>1, <3>2
  <2> QED
    BY <2>2, <2>3, <2>4
<1>9. CASE Notify
  BY <1>0, <1>1, <1>9 DEF Notify, Notified
<1>10. CASE Reschedules
  BY <1>0, <1>1, <1>10 DEF Reschedules, Reschedule
<1>11. CASE SetRunning \/ Refuse \/ ClearRunning \/ FinishRun \/ Retire \/ Publish \/ Loop \/ Die
  BY <1>0, <1>1, <1>11
  DEF SetRunning, Refuse, ClearRunning, FinishRun, Retire, Publish, Loop, Die
<1> QED
  BY <1>2, <1>3, <1>4, <1>6, <1>7, <1>8, <1>9, <1>10, <1>11, ProgramMoves
  DEF CallStep, Succeeds, Deletes, Fails, TimesOut, Cancelled

(* Hence the invariant holds in every behaviour. *)
LEMMA QuotaCorrect == ProgramSpec => []QuotaInv
  BY QuotaInit, QuotaStep, TaskInvCorrect, PTL DEF ProgramSpec

-----------------------------------------------------------------------------
(* What the closures that count have counted.                              *)

(* The present run has called the last step.                               *)
Called ==
  \/ pc = "attempt" /\ index = task.steps
  \/ pc = "next" /\ index = task.steps + 1
  \/ pc = "end"

(* The counter is the number of the executed runs, and one more while the  *)
(* present run has called the step but not ended.                          *)
CountInv ==
  program.name \in Counting =>
    /\ count = executed + (IF Called THEN 1 ELSE 0)
    /\ pc # "delay"

(* The last step of these tasks counts, the one before it only succeeds,   *)
(* and neither waits for anything.                                         *)
LEMMA LastStepCounts ==
  ASSUME Described, built # {}, program.name \in Counting
  PROVE  /\ task.steps \in {1, 2} /\ task.retries = 0
         /\ index = task.steps => Body \in Counts
         /\ index \in Step /\ index # task.steps => Body \notin Counts /\ Result = "Success"
         /\ index \in Step => Body \notin Awaits
         /\ program.name # "simple" => task.steps = 2
<1>1. CASE program.name = "simple"
  <2>1. task.steps = 1 /\ task.retries = 0 /\ (index = 1 => Body = "countdown")
    BY <1>1, TasksOfExamples
  <2>2. task.steps \in {1, 2} /\ (index \in Step => index = 1)
    BY <2>1 DEF Step
  <2>3. index = 1 => Body \in Counts /\ Body \notin Awaits
    BY <2>1 DEF Counts, Awaits
  <2> QED
    BY <1>1, <2>1, <2>2, <2>3
<1>2. CASE program.name # "simple"
  <2>1. /\ task.steps = 2 /\ task.retries = 0
        /\ index = 1 => Body = "hello"
        /\ index = 2 => Body \in {"every other", "every other, then delete"}
    BY <1>2, TasksOfExamples DEF Counting
  <2>2. Body = "hello" => Result = "Success"
    BY DEF Result
  <2>3. task.steps \in {1, 2} /\ (index \in Step => index = 1 \/ index = 2)
    <3>1. task.steps = 2
      BY <2>1
    <3> QED
      BY <3>1 DEF Step
  <2>4. index = 1 => Body \notin Counts \union Awaits /\ Result = "Success"
    BY <2>1, <2>2 DEF Counts, Awaits
  <2>5. index = 2 => Body \in Counts /\ Body \notin Awaits
    BY <2>1 DEF Counts, Awaits
  <2> QED
    BY <1>2, <2>1, <2>3, <2>4, <2>5
<1> QED
  BY <1>1, <1>2

(* A program starts with nothing counted. *)
LEMMA CountInit == ProgramInit => CountInv
<1> SUFFICES ASSUME ProgramInit PROVE CountInv
  OBVIOUS
<1>1. count = 0 /\ executed = 0 /\ pc = "idle"
  BY DEF ProgramInit, Fresh
<1> QED
  BY <1>1 DEF CountInv, Called

(* Every step keeps the invariant. *)
LEMMA CountStep ==
  ASSUME TaskInv, Described, CountInv, [ProgramNext]_allVars
  PROVE  CountInv'
<1> SUFFICES ASSUME program.name \in Counting, program' = program PROVE CountInv'
  BY ProgramMoves DEF CountInv
<1>1. CASE built = {}
  <2>1. UNCHANGED <<vars, count, ctx>>
    BY <1>1, ProgramMoves
  <2> QED
    BY <2>1 DEF vars, CountInv, Called
<1> SUFFICES ASSUME built # {} PROVE CountInv'
  BY <1>1
<1>2. /\ task.steps \in {1, 2} /\ task.retries = 0
      /\ index = task.steps => Body \in Counts
      /\ index \in Step /\ index # task.steps => Body \notin Counts /\ Result = "Success"
      /\ index \in Step => Body \notin Awaits
  BY LastStepCounts
<1>3. /\ executed \in Nat /\ index \in 1..task.steps + 1
      /\ pc = "attempt" => index \in Step /\ attempt >= 1
  BY DEF TaskInv, TypeOK, StepInv, AttemptInv
<1>4. count = executed + (IF Called THEN 1 ELSE 0) /\ pc # "delay"
  BY DEF CountInv
<1>5. CASE CallStep
  <2>1. /\ pc = "next" /\ pc' = "attempt" /\ index \in 1..task.steps
        /\ UNCHANGED <<index, task, executed>>
        /\ count' = IF index = task.steps THEN count + 1 ELSE count
    BY <1>2, <1>4, <1>5 DEF CallStep, BeginAttempt, Step
  <2>2. ~Called /\ (Called' <=> index = task.steps)
    BY <1>2, <1>3, <2>1 DEF Called
  <2> QED
    BY <1>3, <1>4, <2>1, <2>2 DEF CountInv
<1>6. CASE Succeeds
  <2>1. /\ pc = "attempt" /\ pc' = "next" /\ index' = index + 1
        /\ UNCHANGED <<task, executed, count>>
    BY <1>6 DEF Succeeds, StepSucceeds, Untouched
  <2>2. Called' <=> Called
    BY <1>2, <1>3, <2>1 DEF Called
  <2> QED
    BY <1>4, <2>1, <2>2 DEF CountInv
<1>7. CASE Deletes \/ Fails
  <2>1. /\ pc = "attempt" /\ pc' = "end" /\ UNCHANGED <<task, executed, count>>
    <3>1. ~RetriesLeft
      <4>1. pc = "attempt"
        BY <1>7 DEF Deletes, Fails, Returns
      <4>2. attempt \in Nat /\ attempt >= 1
        BY <1>3, <4>1 DEF TaskInv, TypeOK
      <4> QED
        BY <1>2, <4>2 DEF RetriesLeft, Attempts
    <3> QED
      BY <1>7, <3>1
      DEF Deletes, Fails, StepDeletes, StepFails, FailAttempt, Untouched, Backs
  <2>2. Called
    <3>1. Result # "Success"
      BY <1>7 DEF Deletes, Fails, Returns
    <3> QED
      BY <1>2, <1>3, <2>1, <3>1 DEF Called
  <2> QED
    BY <1>4, <2>1, <2>2 DEF CountInv, Called
<1>8. ~TimesOut /\ (Cancelled => pc = "idle")
  BY <1>2, <1>3, <1>4 DEF TimesOut, Cancelled
<1>9. CASE EndSteps
  <2>1. Called /\ executed' = executed + 1 /\ pc' = "notify" /\ count' = count
    BY <1>2, <1>3, <1>9, ProgramMoves DEF EndSteps, CallStep, BeginAttempt, Called, Step
  <2>2. ~Called'
    BY <2>1 DEF Called
  <2> QED
    BY <1>3, <1>4, <2>1, <2>2 DEF CountInv
<1>10. CASE Enter
  <2>1. /\ pc = "enter" /\ pc' = "next" /\ index' = 1
        /\ UNCHANGED <<task, executed, count>>
    BY <1>10, ProgramMoves DEF Enter, CallStep, BeginAttempt
  <2>2. ~Called /\ ~Called'
    BY <1>2, <2>1 DEF Called
  <2> QED
    BY <1>4, <2>1, <2>2 DEF CountInv
<1>11. CASE \/ OpenRecord \/ SetRunning \/ Refuse \/ Notify \/ Reschedules \/ ClearRunning
            \/ FinishRun \/ Retire \/ Publish \/ Loop \/ (Cancelled /\ pc = "idle")
  <2>1. /\ pc \notin {"next", "attempt", "delay", "end"}
        /\ pc' \notin {"next", "attempt", "delay", "end"}
        /\ executed' = executed
    BY <1>11
    DEF OpenRecord, SetRunning, Refuse, Notify, Reschedules, Reschedule, ClearRunning, FinishRun,
        Retire, Publish, Loop, Cancelled, Die
  <2>2. count' = count
    BY <2>1, ProgramMoves DEF CallStep, BeginAttempt
  <2> QED
    BY <1>4, <2>1, <2>2 DEF CountInv, Called
<1>12. CASE UNCHANGED vars
  <2>1. count' = count
    BY <1>12, ProgramMoves DEF vars, CallStep, BeginAttempt
  <2> QED
    BY <1>12, <2>1 DEF vars, CountInv, Called
<1> QED
  BY <1>5, <1>6, <1>7, <1>8, <1>9, <1>10, <1>11, <1>12, ProgramMoves

(* Hence the invariant holds in every behaviour. *)
LEMMA CountCorrect == ProgramSpec => []CountInv
  BY CountInit, CountStep, TaskInvCorrect, DescribedCorrect, PTL DEF ProgramSpec

-----------------------------------------------------------------------------
(* Tasks without repeat execute every run, until one of them is removed.   *)

GoesOn == program.name \in {"force_remove"} \union Odd /\ status # "ForceRemoved"
RunsInv == GoesOn => runs = executed + (IF Unended THEN 1 ELSE 0)

(* A task without repeat never uses up its repeats. *)
LEMMA NeverFinished ==
  ASSUME TaskInv, QuotaInv, program.name \notin {"simple", "builder", "generated", "retry", "policy", "cron"}
  PROVE  status # "Finished"
<1>1. executed + left = MaxRuns + 1 /\ executed <= runs /\ runs <= MaxRuns
  BY DEF QuotaInv, Quota
<1>2. executed \in Nat /\ runs \in Nat /\ MaxRuns \in Nat /\ left \in Nat
  BY BoundsAssumption DEF TaskInv, TypeOK
<1> QED
  BY <1>1, <1>2 DEF QuotaInv

(* So it refuses no run before its removal. *)
LEMMA NeverRefused ==
  ASSUME TaskInv, QuotaInv, GoesOn
  PROVE  ~Refuse
<1>1. status # "Finished"
  BY NeverFinished DEF GoesOn, Odd
<1>2. pc = "enter" => status = "Scheduled"
  BY <1>1 DEF GoesOn, TaskInv, StatusInv
<1> QED
  BY <1>2 DEF Refuse, Runnable

(* A removal is for good. *)
LEMMA RemovedForGood ==
  ASSUME TaskInv, [Next]_vars, status = "ForceRemoved"
  PROVE  status' = "ForceRemoved" \/ task.steps = 0
<1>1. pc \notin {"next", "attempt", "delay"}
  BY DEF TaskInv, StatusInv
<1>2. pc = "enter" => ~Runnable
  BY DEF Runnable
<1> QED
  BY <1>1, <1>2
  DEF Next, Proceed, UserCode, vars, OpenRecord, SetRunning, Refuse, Enter, BeginAttempt,
      StepTimesOut, EndSteps, ClearRunning, FinishRun, Retire, Publish, Loop, StepSucceeds,
      StepDeletes, StepFails, Notify, Reschedule, Die

(* No run was opened before the first one. *)
LEMMA RunsInit == ProgramInit => RunsInv
<1> SUFFICES ASSUME ProgramInit PROVE RunsInv
  OBVIOUS
<1>1. runs = 0 /\ executed = 0 /\ pc = "idle"
  BY DEF ProgramInit, Fresh
<1> QED
  BY <1>1 DEF RunsInv, Unended

(* Every step keeps the invariant. *)
LEMMA RunsStep ==
  ASSUME TaskInv, Described, QuotaInv, CountInv, RunsInv, [ProgramNext]_allVars
  PROVE  RunsInv'
<1>1. CASE built = {}
  <2>1. UNCHANGED <<vars, program>>
    BY <1>1, ProgramMoves
  <2> QED
    BY <2>1 DEF vars, RunsInv, GoesOn, Unended
<1> SUFFICES ASSUME built # {}, GoesOn' PROVE RunsInv'
  BY <1>1 DEF RunsInv
<1>2. /\ program.name \in {"force_remove"} \union Odd /\ program.name \in Counting
      /\ program' = program
  BY ProgramMoves DEF GoesOn, Counting
<1>3. task.steps = 2 /\ pc # "delay" /\ (index \in Step => Body \notin Awaits)
  BY <1>2, LastStepCounts DEF CountInv, Odd
<1>4. GoesOn
  <2>1. [Next]_vars
    BY ProgramStep
  <2> QED
    BY <1>2, <1>3, <2>1, RemovedForGood DEF GoesOn
<1>5. runs = executed + (IF Unended THEN 1 ELSE 0) /\ executed \in Nat /\ runs \in Nat
  BY <1>4 DEF RunsInv, TaskInv, TypeOK
<1>6. CASE OpenRecord
  BY <1>5, <1>6 DEF OpenRecord, Unended, RunsInv
<1>7. CASE SetRunning \/ Enter \/ CallStep \/ Succeeds \/ Deletes \/ Fails \/ TimesOut
  <2>1. Unended /\ Unended' /\ UNCHANGED <<runs, executed>>
    BY <1>7
    DEF SetRunning, Enter, CallStep, BeginAttempt, Succeeds, StepSucceeds, Deletes, StepDeletes,
        Fails, StepFails, TimesOut, StepTimesOut, FailAttempt, Unended
  <2> QED
    BY <1>5, <2>1 DEF RunsInv
<1>8. ~Refuse
  BY <1>4, NeverRefused
<1>9. CASE EndSteps
  <2>1. Unended /\ ~Unended' /\ runs' = runs /\ executed' = executed + 1
    BY <1>9 DEF EndSteps, Unended
  <2> QED
    BY <1>5, <2>1 DEF RunsInv
<1>10. Cancelled => pc = "idle"
  <2>1. pc = "attempt" => index \in Step
    BY DEF TaskInv, StepInv
  <2> QED
    BY <1>3, <2>1 DEF Cancelled
<1>11. CASE \/ Notify \/ Reschedules \/ ClearRunning \/ FinishRun \/ Retire \/ Publish \/ Loop
            \/ Cancelled /\ pc = "idle"
  <2>1. ~Unended /\ ~Unended' /\ UNCHANGED <<runs, executed>>
    BY <1>11
    DEF Notify, Reschedules, Reschedule, ClearRunning, FinishRun, Retire, Publish, Loop,
        Cancelled, Die, Unended
  <2> QED
    BY <1>5, <2>1 DEF RunsInv
<1>12. CASE UNCHANGED vars
  BY <1>5, <1>12 DEF vars, RunsInv, Unended
<1> QED
  BY <1>6, <1>7, <1>8, <1>9, <1>10, <1>11, <1>12, ProgramMoves

(* Hence the invariant holds in every behaviour. *)
LEMMA RunsCorrect == ProgramSpec => []RunsInv
  BY RunsInit, RunsStep, TaskInvCorrect, DescribedCorrect, QuotaCorrect, CountCorrect, PTL
  DEF ProgramSpec

-----------------------------------------------------------------------------
(* The removal: the task is removed by the call that its closure counts as *)
(* the eleventh, in the run that is the eleventh, too.                     *)

RemoveInv ==
  /\ status = "ForceRemoved" =>
       program.name = "force_remove" /\ count = 11 /\ ctx.run_id = 10
  /\ program.name = "force_remove" /\ count = 11 =>
       (pc = "attempt" /\ index = 2) \/ status = "ForceRemoved"

(* No task starts removed, and no closure has counted before it is called. *)
LEMMA RemoveInit == ProgramInit => RemoveInv
<1> SUFFICES ASSUME ProgramInit PROVE RemoveInv
  OBVIOUS
<1>1. status = "Scheduled" /\ count = 0
  BY DEF ProgramInit, Fresh
<1> QED
  BY <1>1 DEF RemoveInv

(* A body that returns ErrorDelete is in its eleventh call. *)
LEMMA DeletesAtEleven ==
  /\ Result = "ErrorDelete" => Body = "every other, then delete" /\ count = 11
  /\ Body = "every other, then delete" /\ count = 11 => Result = "ErrorDelete"
  BY DEF Result

(* Every step keeps the invariant. *)
LEMMA RemoveStep ==
  ASSUME TaskInv, Described, ContextInv, CountInv, RunsInv, RemoveInv, [ProgramNext]_allVars
  PROVE  RemoveInv'
<1>1. CASE UNCHANGED <<vars, count, ctx>>
  <2>1. program' = program
    BY ProgramMoves
  <2> QED
    BY <1>1, <2>1 DEF vars, RemoveInv
<1> SUFFICES ASSUME built # {} PROVE RemoveInv'
  BY <1>1, ProgramMoves
<1>2. program' = program /\ (CallStep \/ UNCHANGED <<count, ctx>>)
  BY ProgramMoves
<1>3. pc \in {"next", "attempt", "delay"} => status \in {"Scheduled", "Executed"}
  BY DEF TaskInv, StatusInv
<1>4. program.name = "force_remove" => task.steps = 2 /\ pc # "delay"
  BY TasksOfExamples DEF CountInv, Counting
<1>a. program.name = "force_remove" /\ index = 2 => Body = "every other, then delete"
  BY TasksOfExamples
<1>b. program.name = "force_remove" /\ pc = "attempt" => index = 1 \/ index = 2
  <2>1. pc = "attempt" => index \in 1..task.steps
    BY DEF TaskInv, StepInv, Step
  <2> QED
    BY <1>4, <2>1
<1>5. CASE CallStep
  <2>1. /\ pc \in {"next", "delay"} /\ pc' = "attempt" /\ UNCHANGED <<status, index>>
        /\ index \in Step
    BY <1>5 DEF CallStep, BeginAttempt
  <2>2. program.name = "force_remove" /\ count' = 11 => index = 2
    <3> SUFFICES ASSUME program.name = "force_remove", count' = 11, index # 2 PROVE FALSE
      OBVIOUS
    <3>1. Body \notin Counts
      BY <1>4, <2>1, LastStepCounts DEF Counting
    <3>2. count = 11
      BY <1>5, <3>1 DEF CallStep
    <3> QED
      BY <1>3, <2>1, <3>2 DEF RemoveInv
  <2> QED
    BY <1>2, <1>3, <2>1, <2>2 DEF RemoveInv
<1>6. CASE Deletes
  <2>1. pc = "attempt" /\ status' = "ForceRemoved" /\ UNCHANGED <<count, ctx>>
    BY <1>6 DEF Deletes, StepDeletes, Untouched
  <2>2. count = 11 /\ program.name = "force_remove"
    <3>1. index \in Step
      BY <2>1 DEF TaskInv, StepInv
    <3>2. Body = "every other, then delete" /\ count = 11
      BY <1>6, DeletesAtEleven DEF Deletes, Returns
    <3> QED
      BY <3>1, <3>2, TasksOfExamples
  <2>3. ctx.run_id = 10
    <3>1. runId = runs - 1 /\ runs \in Nat /\ ctx.run_id = runId
      BY <2>1 DEF TaskInv, TypeOK, HistInv, OpenPhases, Running, ContextInv
    <3>2. GoesOn
      BY <1>3, <2>1, <2>2 DEF GoesOn
    <3>3. runs = executed + 1 /\ executed \in Nat
      BY <2>1, <3>2 DEF RunsInv, Unended, TaskInv, TypeOK
    <3>4. index = 2
      <4>1. Body = "every other, then delete"
        BY <1>6, DeletesAtEleven DEF Deletes, Returns
      <4>2. index = 1 => Body = "hello"
        BY <2>2, TasksOfExamples
      <4> QED
        BY <1>b, <2>1, <2>2, <4>1, <4>2
    <3>5. count = executed + 1
      BY <1>4, <2>1, <2>2, <3>4 DEF CountInv, Counting, Called
    <3> QED
      BY <2>2, <3>1, <3>3, <3>5
  <2> QED
    BY <1>2, <2>1, <2>2, <2>3 DEF RemoveInv
<1>7. CASE Succeeds \/ Fails
  <2>1. /\ pc = "attempt" /\ status' \in {"Scheduled", "Executed", "Failed"}
        /\ UNCHANGED count
    BY <1>3, <1>7
    DEF Succeeds, StepSucceeds, Fails, StepFails, FailAttempt, Untouched, Backs
  <2>2. Result # "ErrorDelete"
    BY <1>7 DEF Succeeds, Fails, Returns
  <2>3. ~(program.name = "force_remove" /\ count = 11)
    <3> SUFFICES ASSUME program.name = "force_remove", count = 11 PROVE FALSE
      OBVIOUS
    <3>1. index = 2
      BY <1>3, <2>1 DEF RemoveInv
    <3> QED
      BY <1>a, <2>2, <3>1, DeletesAtEleven
  <2> QED
    BY <1>2, <2>1, <2>3 DEF RemoveInv
<1>8. CASE TimesOut
  <2>1. /\ pc = "attempt" /\ status' \in {"Scheduled", "Executed", "Failed"}
        /\ UNCHANGED count /\ Body \in Awaits
    BY <1>3, <1>8 DEF TimesOut, StepTimesOut, FailAttempt, Backs
  <2>2. program.name # "force_remove"
    <3>1. index \in Step
      BY <2>1 DEF TaskInv, StepInv
    <3> QED
      BY <2>1, <3>1, LastStepCounts DEF Counting
  <2> QED
    BY <1>2, <2>1, <2>2 DEF RemoveInv
<1>9. CASE Cancelled
  <2>1. /\ pc \in {"idle", "attempt", "delay"} /\ UNCHANGED <<status, count, ctx>>
        /\ pc = "attempt" => Body \in Awaits
    BY <1>9 DEF Cancelled, Die, Untouched
  <2>2. program.name = "force_remove" => pc = "idle"
    <3>1. pc = "attempt" => index \in Step
      BY DEF TaskInv, StepInv
    <3> QED
      BY <1>4, <2>1, <3>1, LastStepCounts DEF Counting
  <2> QED
    BY <1>2, <2>1, <2>2 DEF RemoveInv
<1>10. CASE EndSteps \/ Reschedules \/ Enter
  <2>1. /\ pc \in {"end", "next", "reschedule", "enter"}
        /\ status' = "ForceRemoved" => status = "ForceRemoved"
        /\ status = "ForceRemoved" => status' = "ForceRemoved" \/ task.steps = 0
    BY <1>10
    DEF EndSteps, Reschedules, Reschedule, Enter, Runnable
  <2>2. UNCHANGED <<count, ctx>>
    <3>1. ~CallStep
      BY <1>10
      DEF EndSteps, Reschedules, Reschedule, Enter, CallStep, BeginAttempt
    <3> QED
      BY <1>2, <3>1
  <2>3. program.name = "force_remove" => task.steps # 0
    BY <1>4
  <2> QED
    BY <1>2, <2>1, <2>2, <2>3 DEF RemoveInv
<1>11. CASE \/ OpenRecord \/ SetRunning \/ Refuse \/ Notify \/ ClearRunning \/ FinishRun
            \/ Retire \/ Publish \/ Loop
  <2>1. pc \notin {"next", "attempt", "delay"} /\ UNCHANGED status
    BY <1>11
    DEF OpenRecord, SetRunning, Refuse, Notify, ClearRunning, FinishRun, Retire, Publish, Loop
  <2>2. UNCHANGED <<count, ctx>>
    BY <1>2, <2>1 DEF CallStep, BeginAttempt
  <2> QED
    BY <1>2, <2>1, <2>2 DEF RemoveInv
<1>12. CASE UNCHANGED vars
  <2>1. ~CallStep
    BY <1>12 DEF vars, CallStep, BeginAttempt
  <2> QED
    BY <1>1, <1>2, <1>12, <2>1
<1> QED
  BY <1>5, <1>6, <1>7, <1>8, <1>9, <1>10, <1>11, <1>12, ProgramMoves

(* Hence the invariant holds in every behaviour. *)
LEMMA RemoveCorrect == ProgramSpec => []RemoveInv
  BY RemoveInit, RemoveStep, TaskInvCorrect, DescribedCorrect, ContextCorrect, CountCorrect,
     RunsCorrect, PTL DEF ProgramSpec

-----------------------------------------------------------------------------
(* Every second run of one and read_me fails: the one that the closure     *)
(* counts as an odd call, and runs are numbered from 0.                    *)

OddCall == count % 2 = 1

(* The outcome of a run that is over by its number. *)
AsNumbered(record) == record.outcome = "Failed" <=> record.id % 2 = 0

OddInv ==
  program.name \in Odd =>
    /\ pc = "end" => status = "Failed" /\ OddCall
    /\ pc = "next" /\ index = 3 => ~OddCall
    /\ pc \in {"notify", "reschedule"} => (status = "Failed" <=> OddCall)
    /\ pc \in {"reschedule", "clear", "finish"} => (outcome = "Failed" <=> OddCall)
    /\ \A k \in DOMAIN history : history[k].outcome # "open" => AsNumbered(history[k])

(* One more makes an even number odd. *)
LEMMA Parity == \A n \in Nat : (n + 1) % 2 = 1 <=> n % 2 = 0
  OBVIOUS

(* There is no record before the first run. *)
LEMMA OddInit == ProgramInit => OddInv
<1> SUFFICES ASSUME ProgramInit PROVE OddInv
  OBVIOUS
<1>1. pc = "idle" /\ history = <<>>
  BY DEF ProgramInit, Fresh
<1> QED
  BY <1>1 DEF OddInv

(* When a run closes its record the closure was called once more than the  *)
(* number of the run.                                                      *)
LEMMA OddClosed ==
  ASSUME TaskInv, CountInv, RunsInv, RemoveInv, OddInv, program.name \in Odd, FinishRun
  PROVE  AsNumbered([id |-> runId, outcome |-> outcome, attempts |-> attempts])
<1>1. pc = "finish" /\ (outcome = "Failed" <=> OddCall)
  BY DEF FinishRun, OddInv
<1>2. GoesOn
  BY DEF GoesOn, RemoveInv, Odd
<1>3. runId = runs - 1 /\ runs \in Nat /\ runs > 0
  BY <1>1 DEF TaskInv, TypeOK, HistInv, OpenPhases
<1>4. count = executed /\ runs = executed
  BY <1>1, <1>2 DEF CountInv, Counting, Called, RunsInv, Unended, TaskInv, TypeOK
<1>5. count = runId + 1 /\ runId \in Nat
  BY <1>3, <1>4
<1>6. OddCall <=> runId % 2 = 0
  BY <1>5, Parity DEF OddCall
<1> QED
  BY <1>1, <1>6 DEF AsNumbered

(* The closed records of the next state are as numbered. *)
LEMMA OddRecords ==
  ASSUME TaskInv, CountInv, RunsInv, RemoveInv, OddInv, program.name \in Odd, [Next]_vars,
         NEW j \in DOMAIN history', history'[j].outcome # "open"
  PROVE  AsNumbered(history'[j])
<1>1. CASE \E k \in DOMAIN history : history'[j] = history[k]
  BY <1>1 DEF OddInv
<1>2. ~(OpenRecord /\ history'[j] = NewRecord)
  BY DEF NewRecord
<1>3. CASE FinishRun /\ history'[j] = [id |-> runId, outcome |-> outcome, attempts |-> attempts]
  BY <1>3, OddClosed
<1> QED
  BY <1>1, <1>2, <1>3, RecordsCome DEF TaskInv

(* Every step keeps the invariant. *)
LEMMA OddStep ==
  ASSUME TaskInv, Described, QuotaInv, CountInv, RunsInv, RemoveInv, OddInv,
         [ProgramNext]_allVars
  PROVE  OddInv'
<1>1. program' = program /\ [Next]_vars
  BY ProgramMoves, ProgramStep
<1> SUFFICES ASSUME program.name \in Odd PROVE OddInv'
  BY <1>1 DEF OddInv
<1> DEFINE Told == /\ pc = "end" => status = "Failed" /\ OddCall
                   /\ pc = "next" /\ index = 3 => ~OddCall
                   /\ pc \in {"notify", "reschedule"} => (status = "Failed" <=> OddCall)
                   /\ pc \in {"reschedule", "clear", "finish"} => (outcome = "Failed" <=> OddCall)
<1>2. Told
  BY DEF OddInv
<1>3. \A k \in DOMAIN history' : history'[k].outcome # "open" => AsNumbered(history'[k])
  BY <1>1, OddRecords
<1>4. SUFFICES Told'
  BY <1>1, <1>3 DEF OddInv, AsNumbered
<1>5. CASE UNCHANGED <<vars, count, ctx>>
  BY <1>2, <1>5 DEF vars, OddCall
<1> HIDE DEF Told
<1> SUFFICES ASSUME built # {} PROVE Told'
  BY <1>5, ProgramMoves
<1>6. task.steps = 2 /\ status # "ForceRemoved"
  BY TasksOfExamples DEF RemoveInv, Odd
<1>a. (index = 1 => Body = "hello") /\ (index = 2 => Body = "every other")
  BY TasksOfExamples
<1>b. (pc = "attempt" => index = 1 \/ index = 2) /\ (pc = "next" /\ index \notin Step => index = 3)
  <2>1. index \in 1..3 /\ Step = 1..2
    BY <1>6 DEF TaskInv, StepInv, Step
  <2>2. pc = "attempt" => index \in Step
    BY DEF TaskInv, StepInv
  <2> QED
    BY <2>1, <2>2
<1>7. pc = "attempt" => Body \notin Awaits
  BY LastStepCounts DEF Counting, TaskInv, StepInv
<1>8. CASE CallStep
  <2>1. pc' = "attempt"
    BY <1>8 DEF CallStep, BeginAttempt
  <2> QED
    BY <2>1 DEF Told
<1> SUFFICES ASSUME count' = count PROVE Told'
  BY <1>8, ProgramMoves
<1>9. OddCall' <=> OddCall
  BY DEF OddCall
<1>10. CASE Succeeds
  <2>1. pc = "attempt" /\ pc' = "next" /\ index' = index + 1 /\ Result = "Success"
    BY <1>10 DEF Succeeds, StepSucceeds, Returns
  <2>2. index' = 3 => Body = "every other"
    <3>1. index = 1 => index' # 3
      BY <2>1
    <3>2. index = 1 \/ index = 2
      BY <1>b, <2>1
    <3> QED
      BY <1>a, <3>1, <3>2
  <2>3. Body = "every other" => ~OddCall
    BY <2>1 DEF Result, OddCall
  <2> QED
    BY <1>9, <2>1, <2>2, <2>3 DEF Told
<1>11. CASE Deletes \/ Fails \/ TimesOut
  <2>1. pc = "attempt" /\ (Deletes \/ Fails => Result \in {"Error", "ErrorDelete"})
    BY <1>11 DEF Deletes, Fails, TimesOut, Returns
  <2>2. ~TimesOut
    BY <1>7, <2>1 DEF TimesOut
  <2>3. Result = "Error" /\ OddCall
    <3>1. Body \in {"hello", "every other"}
      BY <1>a, <1>b, <2>1
    <3>2. Body = "hello" => Result = "Success"
      BY DEF Result
    <3>3. Body = "every other" => Result = IF OddCall THEN "Error" ELSE "Success"
      BY DEF Result, OddCall
    <3> QED
      BY <1>11, <2>1, <2>2, <3>1, <3>2, <3>3
  <2>4. pc' = "delay" \/ (pc' = "end" /\ status' = "Failed")
    BY <1>11, <2>2, <2>3 DEF Deletes, Returns, Fails, StepFails, FailAttempt
  <2> QED
    BY <1>9, <2>3, <2>4 DEF Told
<1>12. CASE EndSteps
  <2>1. pc' = "notify" /\ (pc = "end" \/ (pc = "next" /\ index \notin Step))
        /\ status' = IF task.steps = 0 THEN "Executed" ELSE status
    BY <1>12 DEF EndSteps
  <2>4. status' = status
    BY <1>6, <2>1
  <2>2. pc = "next" /\ index = 3 => status = "Executed"
    BY DEF TaskInv, StatusInv
  <2>3. status = "Failed" <=> OddCall
    BY <1>2, <1>b, <2>1, <2>2 DEF Told
  <2> QED
    BY <1>9, <2>1, <2>3, <2>4 DEF Told
<1>13. CASE Notify
  <2>1. pc = "notify" /\ pc' = "reschedule" /\ status' = status /\ outcome' = RunOutcome
    BY <1>13 DEF Notify
  <2>2. RunOutcome = "Failed" <=> status = "Failed"
    BY <1>6 DEF RunOutcome
  <2>3. status = "Failed" <=> OddCall
    BY <1>2, <2>1 DEF Told
  <2> QED
    BY <1>9, <2>1, <2>2, <2>3 DEF Told
<1>14. CASE Reschedules \/ ClearRunning
  <2>1. /\ pc \in {"reschedule", "clear"} /\ pc' \in {"clear", "finish"}
        /\ outcome' = outcome
    BY <1>14 DEF Reschedules, Reschedule, ClearRunning
  <2> QED
    BY <1>2, <1>9, <2>1 DEF Told
<1>15. ~Refuse
  BY <1>6, NeverRefused DEF GoesOn
<1>16. CASE \/ OpenRecord \/ SetRunning \/ Enter \/ FinishRun \/ Retire \/ Publish \/ Loop
            \/ Cancelled
  <2>1. /\ pc' \notin {"end", "notify", "reschedule", "clear", "finish"}
        /\ pc' = "next" => index' = 1
    BY <1>16
    DEF OpenRecord, SetRunning, Enter, FinishRun, Retire, Publish, Loop, Cancelled, Die
  <2> QED
    BY <2>1 DEF Told
<1>17. CASE UNCHANGED vars
  BY <1>2, <1>9, <1>17 DEF vars, Told
<1> QED
  BY <1>10, <1>11, <1>12, <1>13, <1>14, <1>15, <1>16, <1>17, <1>8, ProgramMoves

(* Hence the invariant holds in every behaviour. *)
LEMMA OddCorrect == ProgramSpec => []OddInv
  BY OddInit, OddStep, TaskInvCorrect, DescribedCorrect, QuotaCorrect, CountCorrect, RunsCorrect,
     RemoveCorrect, PTL DEF ProgramSpec

-----------------------------------------------------------------------------
(* The flaky step fails twice and succeeds with its third attempt, one     *)
(* short of what its policy allows, so its task is executed once.          *)

(* Before its run has ended, the closure counts the attempts.              *)
Trying ==
  /\ pc \in {"idle", "opened", "enter", "next", "attempt", "delay", "dead"}
  /\ calls.success = 0 /\ calls.failure = 0
  /\ pc \in {"idle", "opened", "enter"} => count = 0
  /\ pc = "next" => count = IF index = 1 THEN 0 ELSE 3
  /\ pc = "attempt" => count = attempt /\ count <= 3
  /\ pc = "delay" => count = attempt /\ count <= 2

(* After that, it is called no more, and the success is reported once.     *)
Tried ==
  /\ count = 3 /\ calls.failure = 0
  /\ calls.success = IF pc = "notify" /\ status = "Executed" THEN 0 ELSE 1
  /\ status = "Finished" \/ (status = "Executed" /\ pc \in {"notify", "reschedule"})

FlakyInv ==
  program.name = "retry" =>
    /\ executed = 0 => Trying
    /\ executed > 0 => Tried

(* The closure has not been called before the first run. *)
LEMMA FlakyInit == ProgramInit => FlakyInv
<1> SUFFICES ASSUME ProgramInit PROVE FlakyInv
  OBVIOUS
<1>1. /\ pc = "idle" /\ executed = 0 /\ count = 0
      /\ calls = [success |-> 0, failure |-> 0, finish |-> 0]
  BY DEF ProgramInit, Fresh
<1> QED
  BY <1>1 DEF FlakyInv, Trying

(* What a call of the flaky step returns. *)
LEMMA FlakyResult ==
  ASSUME Body = "flaky"
  PROVE  Result = (IF count <= 2 THEN "Error" ELSE "Success") /\ Body \in Counts \ Awaits
  BY DEF Result, Counts, Awaits

(* The first run: it goes on until the third call. *)
LEMMA TryingStep ==
  ASSUME TaskInv, Described, QuotaInv, RemoveInv, program.name = "retry", executed = 0, Trying,
         built # {}, [ProgramNext]_allVars
  PROVE  IF executed' = 0 THEN Trying' ELSE Tried'
<1>1. task.steps = 1 /\ task.retries = 3
  BY TasksOfExamples
<1>2. index = 1 => Body = "flaky"
  BY TasksOfExamples
<1>3. Step = 1..1 /\ index \in 1..2 /\ attempt \in Nat /\ Attempts = 4
  <2>1. Step = 1..1 /\ Attempts = 4
    BY <1>1 DEF Step, Attempts
  <2>2. index \in Nat /\ attempt \in Nat
    BY DEF TaskInv, TypeOK
  <2>3. index \in 1..task.steps + 1
    BY DEF TaskInv, StepInv
  <2> QED
    BY <1>1, <2>1, <2>2, <2>3
<1>4. status # "ForceRemoved" /\ status # "Finished"
  <2>1. Quota = 1 /\ executed + left = Quota /\ left \in Nat
    BY DEF Quota, QuotaInv, TaskInv, TypeOK
  <2>2. left > 0
    BY <2>1
  <2> QED
    BY <2>2 DEF QuotaInv, RemoveInv
<1>5. (pc = "next" => attempt = 0) /\ (pc = "attempt" => index = 1)
  <2>1. pc = "attempt" => index \in Step
    BY DEF TaskInv, StepInv
  <2> QED
    BY <1>3, <2>1 DEF TaskInv, AttemptInv
<1>6. CASE CallStep
  <2>1. /\ pc \in {"next", "delay"} /\ index \in Step /\ pc' = "attempt" /\ attempt' = attempt + 1
        /\ UNCHANGED <<index, executed, calls>>
        /\ count' = IF Body \in Counts THEN count + 1 ELSE count
    BY <1>6 DEF CallStep, BeginAttempt
  <2>2. index = 1
    BY <1>3, <2>1
  <2>3. count' = count + 1
    BY <1>2, <2>1, <2>2, FlakyResult
  <2>4. count = attempt /\ count <= 2
    BY <1>5, <2>1, <2>2 DEF Trying
  <2>5. count' = attempt' /\ count' <= 3
    BY <1>3, <2>1, <2>3, <2>4
  <2> QED
    BY <2>1, <2>5 DEF Trying
<1> SUFFICES ASSUME count' = count PROVE IF executed' = 0 THEN Trying' ELSE Tried'
  BY <1>6, ProgramMoves
<1>7. CASE Succeeds
  <2>1. /\ pc = "attempt" /\ pc' = "next" /\ index' = index + 1 /\ Result = "Success"
        /\ UNCHANGED <<executed, calls>>
    BY <1>7 DEF Succeeds, StepSucceeds, Returns
  <2>2. ~(count <= 2)
    BY <1>2, <1>5, <2>1, FlakyResult
  <2>3. count = 3 /\ index' = 2
    BY <1>3, <1>5, <2>1, <2>2 DEF Trying
  <2> QED
    BY <2>1, <2>3 DEF Trying
<1>8. CASE Deletes \/ Fails \/ TimesOut
  <2>1. pc = "attempt" /\ Body = "flaky"
    BY <1>2, <1>5, <1>8 DEF Deletes, Fails, TimesOut, Returns
  <2>2. ~Deletes /\ ~TimesOut
    BY <2>1, FlakyResult DEF Deletes, TimesOut, Returns
  <2>3. count <= 2
    BY <1>8, <2>1, <2>2, FlakyResult DEF Fails, Returns
  <2>4. RetriesLeft
    BY <1>3, <2>1, <2>3 DEF RetriesLeft, Trying
  <2>5. pc' = "delay" /\ UNCHANGED <<attempt, executed, calls>>
    BY <1>8, <2>2, <2>4 DEF Fails, StepFails, FailAttempt
  <2> QED
    BY <2>1, <2>3, <2>5 DEF Trying
<1>9. CASE EndSteps
  <2>1. /\ pc = "next" /\ index \notin Step /\ pc' = "notify" /\ executed' = executed + 1
        /\ UNCHANGED calls /\ status' = IF task.steps = 0 THEN "Executed" ELSE status
    BY <1>9 DEF EndSteps, Trying
  <2>2. index = 2
    BY <1>3, <2>1
  <2>3. count = 3 /\ status = "Executed"
    BY <2>1, <2>2 DEF Trying, TaskInv, StatusInv
  <2>4. Tried'
    BY <2>1, <2>3 DEF Trying, Tried
  <2> QED
    BY <2>1, <2>4
<1>10. ~Refuse
  <2>1. pc = "enter" => status = "Scheduled"
    BY <1>4 DEF TaskInv, StatusInv
  <2> QED
    BY <2>1 DEF Refuse, Runnable
<1>11. CASE Enter
  BY <1>11 DEF Enter, Trying
<1>12. CASE OpenRecord \/ SetRunning
  BY <1>12 DEF OpenRecord, SetRunning, Trying
<1>13. CASE Cancelled
  BY <1>13 DEF Cancelled, Die, Trying
<1>14. ~Notify /\ ~Reschedules /\ ~ClearRunning /\ ~FinishRun /\ ~Retire /\ ~Publish /\ ~Loop
  BY DEF Trying, Notify, Reschedules, Reschedule, ClearRunning, FinishRun, Retire, Publish, Loop
<1>15. CASE UNCHANGED vars
  BY <1>15 DEF vars, Trying
<1> QED
  BY <1>6, <1>7, <1>8, <1>9, <1>10, <1>11, <1>12, <1>13, <1>14, <1>15, ProgramMoves

(* After it: the task is finished, and refuses further runs.               *)
LEMMA TriedStep ==
  ASSUME TaskInv, QuotaInv, program.name = "retry", executed > 0, Tried, [ProgramNext]_allVars
  PROVE  executed' > 0 /\ Tried'
<1>1. left = 0
  <2>1. executed + left = 1 /\ executed \in Nat /\ left \in Nat
    BY DEF QuotaInv, Quota, TaskInv, TypeOK
  <2> QED
    BY <2>1
<1>2. ~InSteps /\ status # "Scheduled"
  BY <1>1 DEF QuotaInv
<1>3. count' = count
  BY <1>2, ProgramMoves DEF CallStep, BeginAttempt, InSteps, Tried
<1>4. CASE Notify
  <2>1. /\ pc = "notify" /\ pc' = "reschedule" /\ UNCHANGED <<executed, status>>
        /\ calls' = Notified
    BY <1>4 DEF Notify
  <2>2. calls \in CallsType
    BY DEF TaskInv, TypeOK, CallsType
  <2>3. CASE status = "Executed"
    <3>1. calls' = [calls EXCEPT !.success = @ + 1]
      BY <2>1, <2>3 DEF Notified
    <3>2. calls'.success = calls.success + 1 /\ calls'.failure = calls.failure
      BY <2>2, <3>1, CallsCounted, Zenon
    <3> QED
      BY <1>3, <2>1, <2>3, <3>2 DEF Tried
  <2>4. CASE status = "Finished"
    <3>1. calls' = calls
      BY <2>1, <2>4 DEF Notified
    <3> QED
      BY <1>3, <2>1, <2>4, <3>1 DEF Tried
  <2> QED
    BY <2>3, <2>4 DEF Tried
<1>5. CASE Reschedules
  <2>1. /\ pc = "reschedule" /\ pc' = "clear" /\ executed' = executed
        /\ calls'.success = calls.success /\ calls'.failure = calls.failure
    BY <1>5, RescheduleCounts DEF Reschedules, Reschedule, TaskInv
  <2>2. status' = "Finished"
    BY <1>1, <1>5 DEF Reschedules, Reschedule, Tried
  <2> QED
    BY <1>3, <2>1, <2>2 DEF Tried
<1>6. CASE Refuse
  <2>1. pc = "enter" /\ UNCHANGED <<status, calls, executed>>
    BY <1>6 DEF Refuse
  <2> QED
    BY <1>3, <2>1 DEF Tried
<1>7. CASE \/ OpenRecord \/ SetRunning \/ ClearRunning \/ FinishRun \/ Retire \/ Publish \/ Loop
           \/ Cancelled /\ pc = "idle"
  <2>1. /\ pc \notin {"notify", "reschedule"} /\ pc' \notin {"notify", "reschedule"}
        /\ UNCHANGED <<status, calls, executed>>
    BY <1>7
    DEF OpenRecord, SetRunning, ClearRunning, FinishRun, Retire, Publish, Loop, Cancelled, Die
  <2> QED
    BY <1>3, <2>1 DEF Tried
<1>8. /\ ~Enter /\ ~CallStep /\ ~Succeeds /\ ~Deletes /\ ~Fails /\ ~TimesOut /\ ~EndSteps
      /\ Cancelled => pc = "idle"
  BY <1>2
  DEF Enter, Runnable, CallStep, BeginAttempt, Succeeds, Deletes, Fails, TimesOut, Returns,
      EndSteps, Cancelled, InSteps
<1>9. CASE UNCHANGED vars
  BY <1>3, <1>9 DEF vars, Tried
<1> QED
  BY <1>4, <1>5, <1>6, <1>7, <1>8, <1>9, ProgramMoves

(* Every step keeps the invariant. *)
LEMMA FlakyStep ==
  ASSUME TaskInv, Described, QuotaInv, RemoveInv, FlakyInv, [ProgramNext]_allVars
  PROVE  FlakyInv'
<1>1. program' = program /\ executed \in Nat
  BY ProgramMoves DEF TaskInv, TypeOK
<1>2. CASE UNCHANGED <<vars, count, ctx>>
  BY <1>1, <1>2 DEF vars, FlakyInv, Trying, Tried
<1> SUFFICES ASSUME built # {}, program.name = "retry" PROVE FlakyInv'
  BY <1>1, <1>2, ProgramMoves DEF FlakyInv
<1>3. CASE executed = 0
  <2>1. IF executed' = 0 THEN Trying' ELSE Tried'
    BY <1>3, TryingStep DEF FlakyInv
  <2> QED
    BY <2>1 DEF FlakyInv
<1>4. CASE executed > 0
  <2>1. executed' > 0 /\ Tried'
    BY <1>4, TriedStep DEF FlakyInv
  <2> QED
    BY <2>1 DEF FlakyInv
<1> QED
  BY <1>1, <1>3, <1>4

(* Hence the invariant holds in every behaviour. *)
LEMMA FlakyCorrect == ProgramSpec => []FlakyInv
  BY FlakyInit, FlakyStep, TaskInvCorrect, DescribedCorrect, QuotaCorrect, RemoveCorrect, PTL
  DEF ProgramSpec

-----------------------------------------------------------------------------
(* The examples.                                                           *)

(* A callback that reports the end finds the task over: removed, which     *)
(* only one example is, or executed as often as it was asked to be.        *)
LEMMA EndsAsAsked ==
  ASSUME TaskInv, QuotaInv, RemoveInv, calls.finish > 0
  PROVE  \/ status = "ForceRemoved" /\ program.name = "force_remove"
         \/ /\ status = "Finished" /\ executed = Quota
            /\ program.name \in {"simple", "builder", "generated", "retry", "policy", "cron"}
<1>1. status \in {"Finished", "ForceRemoved"}
  BY DEF QuotaInv, IsTerminal
<1>2. CASE status = "ForceRemoved"
  BY <1>2 DEF RemoveInv
<1>3. CASE status = "Finished"
  <2>1. executed + left = Quota /\ left = 0 /\ executed \in Nat
    BY <1>3 DEF QuotaInv, TaskInv, TypeOK
  <2>2. executed = Quota
    BY <2>1
  <2> QED
    BY <1>3, <2>2, NeverFinished
<1> QED
  BY <1>1, <1>2, <1>3

(* The invariants say of every example what it comes to. *)
LEMMA ExamplesFollow ==
  ASSUME TaskInv, QuotaInv, CountInv, RemoveInv, OddInv, FlakyInv
  PROVE  ExamplesAsCoded
<1>1. program.name = "simple" => count <= 5
  <2> SUFFICES ASSUME program.name = "simple" PROVE count <= 5
    OBVIOUS
  <2>1. executed + left = 5 /\ executed \in Nat /\ left \in Nat
    BY DEF QuotaInv, Quota, TaskInv, TypeOK
  <2>2. count = executed + (IF Called THEN 1 ELSE 0) /\ (Called => left > 0)
    BY DEF CountInv, Counting, QuotaInv, Called, InSteps
  <2> QED
    BY <2>1, <2>2
<1>2. program.name \in {"one", "read_me"} =>
        \A k \in DOMAIN history :
          history[k].outcome # "open" => (history[k].outcome = "Failed" <=> history[k].id % 2 = 0)
  BY DEF OddInv, Odd, AsNumbered
<1>3. status = "ForceRemoved" <=>
        program.name = "force_remove" /\ count = 11 /\ pc # "attempt" /\ ctx.run_id = 10
  BY DEF RemoveInv, TaskInv, StatusInv
<1>4. ASSUME calls.finish > 0
      PROVE  CASE program.name \in {"simple", "builder"} -> executed = 5
               [] program.name = "generated"             -> executed = 2
               [] program.name = "retry" -> /\ count = 3 /\ executed = 1
                                            /\ calls.success = 1 /\ calls.failure = 0
               [] OTHER -> program.name \in {"force_remove", "policy", "cron"}
  <2>1. \/ program.name = "force_remove"
        \/ /\ status = "Finished" /\ executed = Quota
           /\ program.name \in {"simple", "builder", "generated", "retry", "policy", "cron"}
    BY <1>4, EndsAsAsked
  <2>2. CASE program.name \in {"simple", "builder"}
    BY <2>1, <2>2 DEF Quota
  <2>3. CASE program.name = "generated"
    BY <2>1, <2>3 DEF Quota
  <2>4. CASE program.name = "retry"
    <3>1. executed = 1 /\ status = "Finished"
      BY <2>1, <2>4 DEF Quota
    <3>2. count = 3 /\ calls.success = 1 /\ calls.failure = 0
      BY <2>4, <3>1 DEF FlakyInv, Tried
    <3> QED
      BY <2>4, <3>1, <3>2
  <2>5. CASE program.name \in {"force_remove", "policy", "cron"}
    BY <2>5
  <2> QED
    BY <2>1, <2>2, <2>3, <2>4, <2>5
<1> QED
  BY <1>1, <1>2, <1>3, <1>4 DEF ExamplesAsCoded

(* For every bound on the runs: simple counts to 5 and no further, the     *)
(* runs of one and read_me fail that their numbers say, force_remove is    *)
(* removed in the run of its eleventh call and nothing else is, and the    *)
(* examples that report their end were executed as often as they ask for   *)
(* (examples/*.rs and README.md, run by task.rs).                          *)
THEOREM ExamplesHold == ProgramSpec => []ExamplesAsCoded
  BY ExamplesFollow, TaskInvCorrect, QuotaCorrect, CountCorrect, RemoveCorrect, OddCorrect,
     FlakyCorrect, PTL
=============================================================================
