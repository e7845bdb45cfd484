------------------------------ MODULE TaskRun ------------------------------
(***************************************************************************)
(* What one run of a tasklet task does: its steps with their attempts,     *)
(* retries and timeouts, the callbacks, the reschedule, and what observers *)
(* can read meanwhile (the streamed step states, the published status and  *)
(* the bounded history).                                                   *)
(*                                                                         *)
(* The driver waits for a run or drains a queued one; when a run is asked  *)
(* for is the subject of Dispatch, and here a choice.  Each action is one  *)
(* store to a cell that others read, with the local computation around it. *)
(***************************************************************************)
EXTENDS Naturals, Sequences

CONSTANTS
  MaxSteps,     \* bound: steps of the task
  MaxRetries,   \* bound: max_retries of its retry policy, 0 for none
  MaxHistory,   \* bound: its history_limit
  MaxRepeats,   \* bound: its repeat(n); above MaxRuns it is as good as none
  MaxRuns       \* bound: how many runs are asked for

ASSUME BoundsAssumption ==
  {MaxSteps, MaxRetries, MaxHistory, MaxRepeats, MaxRuns} \subseteq Nat

VARIABLES
  (* What the builder set, fixed for the life of the task. *)
  task,        \* [steps, retries, timeout, limit]
  (* The driver and the fields of its Task. *)
  pc, status, left,
  states,      \* step_states
  index, attempt,
  attempts,    \* last_attempts
  runId, outcome,
  drained,     \* the present run was queued: it is one of the inner loop
  (* TaskShared. *)
  running, finished, runs, history,
  sink,        \* steps: the step states as streamed
  published,   \* state.status
  (* Observations, read by no action. *)
  calls,       \* how often each callback was invoked
  executed,    \* runs that were not refused and ran to their end
  refused      \* the present or the last run is refused

driver == <<pc, status, left, states, index, attempt, attempts, runId, outcome, drained>>
shared == <<running, finished, runs, history, sink, published>>
seen   == <<calls, executed, refused>>
vars   == <<task, driver, shared, seen>>

StepStatuses == {"Pending", "Succeeded", "HadErrors", "Failed", "Skipped"}
Statuses == {"Scheduled", "Failed", "Executed", "Finished", "ForceRemoved"}
Outcomes == {"Success", "HadErrors", "Failed", "ForceRemoved"}

Step == 1..task.steps
Attempts == 1 + task.retries                     \* max_attempts
AllPending == [i \in Step |-> "Pending"]
IsTerminal == status \in {"Finished", "ForceRemoved"}

-----------------------------------------------------------------------------
(* The history: start_run and finish_run.                                  *)

(* Mutant: the oldest record goes only when the limit has been exceeded.   *)
TrimmedLate == IF Len(history) > task.limit THEN Tail(history) ELSE history

(* Room for one more record: there never are more than the limit. *)
Trimmed == IF Len(history) >= task.limit /\ history # <<>> THEN Tail(history) ELSE history

NewRecord == [id |-> runs, outcome |-> "open", attempts |-> 0]

(* Mutant: the record is appended before room is made for it.              *)
OpenedThenTrimmed ==
  LET longer == IF task.limit = 0 THEN history ELSE Append(history, NewRecord)
  IN  IF Len(longer) >= task.limit /\ longer # <<>> THEN Tail(longer) ELSE longer

(* A limit of zero keeps no history. *)
Opened == IF task.limit = 0 THEN Trimmed ELSE Append(Trimmed, NewRecord)

OpenRecord ==
  /\ pc \in {"idle", "drain"}
  /\ runs < MaxRuns
  /\ drained' = (pc = "drain")
  /\ runId' = runs
  /\ runs' = runs + 1
  /\ history' = Opened
  /\ pc' = "opened"
  /\ UNCHANGED <<task, status, left, states, index, attempt, attempts, outcome,
                 running, finished, sink, published, seen>>

SetRunning ==
  /\ pc = "opened"
  /\ running' = TRUE
  /\ pc' = "enter"
  /\ UNCHANGED <<task, status, left, states, index, attempt, attempts, runId, outcome, drained,
                 finished, runs, history, sink, published, seen>>

(* The record of the run, if it is still kept, gets its result. *)
FinishRun ==
  /\ pc = "finish"
  /\ history' = [k \in DOMAIN history |->
                   IF history[k].id = runId
                     THEN [id |-> runId, outcome |-> outcome, attempts |-> attempts]
                     ELSE history[k]]
  /\ pc' = "retire"
  /\ UNCHANGED <<task, status, left, states, index, attempt, attempts, runId, outcome, drained,
                 running, finished, runs, sink, published, seen>>

-----------------------------------------------------------------------------
(* The steps: Task::run_task.                                              *)

(* Mutant: a task that has finished runs again.                            *)
RunnableUnlessRemoved == status # "ForceRemoved"

(* Only a Scheduled task runs. *)
Runnable == status = "Scheduled"

Refuse ==
  /\ pc = "enter"
  /\ ~Runnable
  /\ refused' = TRUE
  /\ pc' = "notify"
  /\ UNCHANGED <<task, status, left, states, index, attempt, attempts, runId, outcome, drained,
                 shared, calls, executed>>

(* Mutant: the states of the run before are not forgotten.                 *)
KeepSteps == states

(* Task::reset_step_states *)
ResetSteps == AllPending

(* The step states are reset and streamed. *)
Enter ==
  /\ pc = "enter"
  /\ Runnable
  /\ refused' = FALSE
  /\ states' = ResetSteps
  /\ sink' = ResetSteps
  /\ attempts' = 0
  /\ index' = 1
  /\ attempt' = 0
  /\ pc' = "next"
  /\ UNCHANGED <<task, status, left, runId, outcome, drained, running, finished, runs, history,
                 published, calls, executed>>

(* The next attempt of the present step, or its first. *)
BeginAttempt ==
  /\ pc \in {"next", "delay"}
  /\ index \in Step
  /\ attempt' = attempt + 1
  /\ attempts' = attempts + 1
  /\ pc' = "attempt"
  /\ UNCHANGED <<task, status, left, states, index, runId, outcome, drained, shared, seen>>

(* step_states[index].status = s, and the snapshot is streamed. *)
MarkStep(s) ==
  /\ states' = [states EXCEPT ![index] = s]
  /\ sink' = [states EXCEPT ![index] = s]

(* The step succeeds, perhaps with errors that are not fatal. *)
StepSucceeds ==
  /\ pc = "attempt"
  /\ \E s \in {"Succeeded", "HadErrors"} : MarkStep(s)
  /\ status' = "Executed"
  /\ index' = index + 1
  /\ attempt' = 0
  /\ pc' = "next"
  /\ UNCHANGED <<task, left, attempts, runId, outcome, drained, running, finished, runs, history,
                 published, seen>>

(* ErrorDelete: no retry. *)
StepDeletes ==
  /\ pc = "attempt"
  /\ MarkStep("Failed")
  /\ status' = "ForceRemoved"
  /\ pc' = "end"
  /\ UNCHANGED <<task, left, index, attempt, attempts, runId, outcome, drained, running, finished,
                 runs, history, published, seen>>

(* Mutant: one attempt too many.                                           *)
RetriesOneMore == attempt <= Attempts
RetriesLeft == attempt < Attempts

(* Error, or a timeout: a retry after the delay, or the end of the run. *)
FailAttempt ==
  \/ /\ RetriesLeft
     /\ pc' = "delay"
     /\ UNCHANGED <<states, sink, status>>
  \/ /\ ~RetriesLeft
     /\ MarkStep("Failed")
     /\ status' = "Failed"
     /\ pc' = "end"

StepFails ==
  /\ pc = "attempt"
  /\ FailAttempt
  /\ UNCHANGED <<task, left, index, attempt, attempts, runId, outcome, drained, running, finished,
                 runs, history, published, seen>>

(* Mutant: only the first attempt of a step has a time limit.              *)
TimedFirstAttempt == task.timeout /\ attempt = 1

(* Every attempt has the limit to itself. *)
Timed == task.timeout

(* The timeout drops the step's future. *)
StepTimesOut ==
  /\ pc = "attempt"
  /\ Timed
  /\ FailAttempt
  /\ UNCHANGED <<task, left, index, attempt, attempts, runId, outcome, drained, running, finished,
                 runs, history, published, seen>>

(* Steps that were not reached. *)
SkipPending == [i \in Step |-> IF states[i] = "Pending" THEN "Skipped" ELSE states[i]]

(* Mutant: the subtraction does not saturate.                              *)
OneLessUnchecked == left - 1

(* repeats.saturating_sub(1) *)
OneLess == IF left > 0 THEN left - 1 ELSE 0

EndSteps ==
  /\ pc = "end" \/ (pc = "next" /\ index \notin Step)
  /\ states' = SkipPending
  /\ sink' = SkipPending
  /\ status' = IF task.steps = 0 THEN "Executed" ELSE status
  /\ left' = OneLess
  /\ executed' = executed + 1
  /\ pc' = "notify"
  /\ UNCHANGED <<task, index, attempt, attempts, runId, outcome, drained, running, finished, runs,
                 history, published, calls, refused>>

-----------------------------------------------------------------------------
(* After the steps: run_once.                                              *)

(* Mutant: the states of the steps are looked at before the status.        *)
OutcomeOfSteps ==
  IF \E i \in DOMAIN states : states[i] = "HadErrors" THEN "HadErrors"
  ELSE IF status \in {"ForceRemoved", "Failed"} THEN status ELSE "Success"

(* Task::run_outcome *)
RunOutcome ==
  IF status \in {"ForceRemoved", "Failed"} THEN status
  ELSE IF \E i \in DOMAIN states : states[i] = "HadErrors" THEN "HadErrors" ELSE "Success"

(* Mutant: a removal is not reported as a failure.                         *)
NotifiedOnce ==
  CASE status = "Executed"     -> [calls EXCEPT !.success = @ + 1]
    [] status = "Failed"       -> [calls EXCEPT !.failure = @ + 1]
    [] status = "ForceRemoved" -> [calls EXCEPT !.finish = @ + 1]
    [] OTHER                   -> calls

(* The callbacks of run_and_notify. *)
Notified ==
  CASE status = "Executed"     -> [calls EXCEPT !.success = @ + 1]
    [] status = "Failed"       -> [calls EXCEPT !.failure = @ + 1]
    [] status = "ForceRemoved" -> [calls EXCEPT !.failure = @ + 1, !.finish = @ + 1]
    [] OTHER                   -> calls

Notify ==
  /\ pc = "notify"
  /\ calls' = Notified
  /\ outcome' = RunOutcome
  /\ pc' = "reschedule"
  /\ UNCHANGED <<task, status, left, states, index, attempt, attempts, runId, drained,
                 shared, executed, refused>>

(* Task::reschedule, and on_finish if the task is now Finished.  Whether   *)
(* the schedule has a further instant is not told apart here.              *)
Reschedule ==
  /\ pc = "reschedule"
  /\ \/ /\ status \in {"Failed", "Executed"}
        /\ status' \in (IF left = 0 THEN {"Finished"} ELSE {"Scheduled", "Finished"})
     \/ /\ status \notin {"Failed", "Executed"}
        /\ UNCHANGED status
  /\ calls' = IF status' = "Finished" THEN [calls EXCEPT !.finish = @ + 1] ELSE calls
  /\ pc' = "clear"
  /\ UNCHANGED <<task, left, states, index, attempt, attempts, runId, outcome, drained, shared,
                 executed, refused>>

ClearRunning ==
  /\ pc = "clear"
  /\ running' = FALSE
  /\ pc' = "finish"
  /\ UNCHANGED <<task, status, left, states, index, attempt, attempts, runId, outcome, drained,
                 finished, runs, history, sink, published, seen>>

Retire ==
  /\ pc = "retire"
  /\ finished' = (finished \/ IsTerminal)
  /\ pc' = "publish"
  /\ UNCHANGED <<task, status, left, states, index, attempt, attempts, runId, outcome, drained,
                 running, runs, history, sink, published, seen>>

Publish ==
  /\ pc = "publish"
  /\ published' = status
  /\ sink' = states
  /\ pc' = "loop"
  /\ UNCHANGED <<task, status, left, states, index, attempt, attempts, runId, outcome, drained,
                 running, finished, runs, history, seen>>

(* The loops of the driver.  After a run it received it returns if the     *)
(* task is finished; after one it drained, break only leaves the inner     *)
(* loop and it waits again.  pending may be set or not.                    *)
Loop ==
  /\ pc = "loop"
  /\ \/ finished /\ pc' = (IF drained THEN "idle" ELSE "ended")
     \/ ~finished /\ pc' \in (IF runs < MaxRuns THEN {"idle", "drain"} ELSE {"idle"})
  /\ UNCHANGED <<task, status, left, states, index, attempt, attempts, runId, outcome, drained,
                 shared, seen>>

(* The driver is cancelled where it is suspended, or a step or a callback  *)
(* panics: its cells stay as they are.                                     *)
Die ==
  /\ pc \in {"idle", "attempt", "delay", "notify", "reschedule"}
  /\ pc' = "dead"
  /\ UNCHANGED <<task, status, left, states, index, attempt, attempts, runId, outcome, drained,
                 shared, seen>>

-----------------------------------------------------------------------------
(* The cells of TaskShared::new once the driver has initialised its task   *)
(* and published it, and before it has received anything.                  *)
Fresh ==
  /\ pc = "idle"
  /\ status = "Scheduled"
  /\ states = AllPending
  /\ index = 1
  /\ attempt = 0
  /\ attempts = 0
  /\ runId = 0
  /\ outcome = "Success"
  /\ drained = FALSE
  /\ running = FALSE
  /\ finished = FALSE
  /\ runs = 0
  /\ history = <<>>
  /\ sink = AllPending
  /\ published = "Scheduled"
  /\ calls = [success |-> 0, failure |-> 0, finish |-> 0]
  /\ executed = 0
  /\ refused = FALSE

Init ==
  /\ task \in [steps : 0..MaxSteps, retries : 0..MaxRetries, timeout : BOOLEAN,
               limit : 0..MaxHistory]
  /\ left \in 0..MaxRepeats
  /\ Fresh

(* What the driver does without waiting for code of the user. *)
Proceed ==
  \/ SetRunning \/ Refuse \/ Enter \/ BeginAttempt \/ StepTimesOut \/ EndSteps
  \/ ClearRunning \/ FinishRun \/ Retire \/ Publish \/ Loop

(* What a step or a callback of the user has to return for. *)
UserCode == StepSucceeds \/ StepDeletes \/ StepFails \/ Notify \/ Reschedule

Next == OpenRecord \/ Proceed \/ UserCode \/ Die

Spec == Init /\ [][Next]_vars

(* The runtime polls a driver that is ready, and timers fire; steps and    *)
(* callbacks may never return.                                             *)
FairSpec == Spec /\ WF_vars(Proceed)

-----------------------------------------------------------------------------
(* Properties.                                                             *)

(* Every cell holds a value of its type. *)
TypeOK ==
  /\ task \in [steps : Nat, retries : Nat, timeout : BOOLEAN, limit : Nat]
  /\ pc \in {"idle", "opened", "enter", "next", "attempt", "delay", "end", "notify",
             "reschedule", "clear", "finish", "retire", "publish", "loop", "drain", "ended",
             "dead"}
  /\ status \in Statuses /\ published \in Statuses
  /\ left \in Nat /\ index \in Nat /\ attempt \in Nat /\ attempts \in Nat
  /\ runId \in Nat /\ runs \in Nat /\ executed \in Nat
  /\ states \in [Step -> StepStatuses] /\ sink \in [Step -> StepStatuses]
  /\ outcome \in Outcomes
  /\ running \in BOOLEAN /\ finished \in BOOLEAN /\ refused \in BOOLEAN /\ drained \in BOOLEAN
  /\ history \in Seq([id : Nat, outcome : Outcomes \union {"open"}, attempts : Nat])
  /\ calls \in [success : Nat, failure : Nat, finish : Nat]

(* What an observer reads of the steps, at any moment: some steps done, at *)
(* most one failed after them, and the rest not reached, all Pending while *)
(* the run goes on and all Skipped after a failure has ended it.           *)
Done == {"Succeeded", "HadErrors"}
StreamedInOrder ==
  \A i, j \in Step : i < j =>
    /\ sink[i] = "Failed" => sink[j] \in {"Pending", "Skipped"}
    /\ sink[i] = "Pending" => sink[j] = "Pending"
    /\ sink[i] = "Skipped" => sink[j] = "Skipped"
    /\ sink[j] = "Skipped" => sink[i] \notin {"Pending"}

(* A record that is closed says what the steps of its run came to, as long *)
(* as those steps can still be read; no step is left Pending then.         *)
RunOver == pc \in {"retire", "publish", "loop", "drain", "idle", "ended"} /\ runs > 0 /\ ~refused
OutcomeMatchesSteps ==
  RunOver /\ history # <<>> =>
    LET record == history[Len(history)]
        failed == \E i \in Step : sink[i] = "Failed"
        errors == \E i \in Step : sink[i] = "HadErrors"
    IN  /\ record.outcome \in {"Failed", "ForceRemoved"} <=> failed
        /\ record.outcome = "HadErrors" <=> errors /\ ~failed
        /\ \A i \in Step : sink[i] # "Pending"

(* The history holds the most recent runs, in order and without gaps, and  *)
(* no more than its limit; every run before the present one is closed.     *)
HistoryIsRecentRuns ==
  /\ Len(history) = (IF runs < task.limit THEN runs ELSE task.limit)
  /\ \A k \in DOMAIN history : history[k].id = runs - Len(history) + k - 1
  /\ \A k \in DOMAIN history :
       history[k].outcome = "open" => k = Len(history) /\ pc \notin {"idle", "drain", "ended"}

(* While running is set the newest record is the open record of that run,  *)
(* so an observer who sees a run in progress finds it in the history.      *)
RunningIsRecorded ==
  running /\ task.limit > 0 =>
    history # <<>> /\ history[Len(history)] = [id |-> runs - 1, outcome |-> "open", attempts |-> 0]

(* A closed record of a run that was not refused counts at least one       *)
(* attempt for every step that was reached and at most 1 + max_retries.    *)
AttemptsWithinPolicy ==
  RunOver /\ history # <<>> =>
    LET record == history[Len(history)]
        reached == {i \in Step : sink[i] # "Skipped"}
    IN  \E n \in 0..task.steps :
          /\ reached = 1..n
          /\ n <= record.attempts /\ record.attempts <= n * Attempts

(* Once its driver has done with a run, every run that executed has been   *)
(* reported to on_success or on_failure, once, and a task that is over, by *)
(* whatever way, to on_finish, once.  (A run that is refused afterwards    *)
(* reports a second time: finish_twice of Dispatch shows it.)              *)
EachRunReported ==
  ~refused /\ pc \in {"idle", "clear", "finish", "retire", "publish", "loop", "drain", "ended"} =>
    /\ calls.success + calls.failure = executed
    /\ calls.finish = (IF IsTerminal THEN 1 ELSE 0)

(* After on_finish nothing of the task is executed, not even by the runs   *)
(* a driver of a finished task still takes.                                *)
NothingAfterFinish == [][calls.finish > 0 => executed' = executed /\ attempts' = attempts]_vars

(* A task with a timeout does not hang in a step that never returns: the   *)
(* run goes through all its retries to its callbacks, unless the driver is *)
(* cancelled.                                                              *)
InSteps == pc \in {"next", "attempt", "delay", "end"}
TimeoutEndsRun == (task.timeout /\ InSteps) ~> pc \in {"notify", "dead"}

(* TaskState::last_outcome, "the outcome of the most recent completed run, *)
(* if any", is what RegEntry::to_state reads from the newest record.       *)
LastOutcome == IF history = <<>> THEN "open" ELSE history[Len(history)].outcome
CompletedRunHasOutcome ==
  (\E k \in DOMAIN history : history[k].outcome # "open") => LastOutcome # "open"
=============================================================================
