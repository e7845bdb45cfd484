------------------------------ MODULE Programs ------------------------------
(***************************************************************************)
(* Programs that use tasklet, run by TaskRun: the tasks of the examples    *)
(* directory as their builders describe them, with what their steps do,    *)
(* and tasks that try every retry policy and schedule of a small set.      *)
(*                                                                         *)
(* What user code relies on is here: when and how often a step's closure   *)
(* is called, with which context, what it finds in the store of its run    *)
(* and on the blackboard, and how long a retry waits.  Each action is one  *)
(* of TaskRun with the user's part of it, or one call to a Blackboard.     *)
(***************************************************************************)
EXTENDS TaskRun, Builder, Retry, Blackboard

CONSTANTS
  Bases, Factors, Caps,   \* of the retry policies to try, in nanoseconds
  Retries,                \* their max_retries
  MaxOther                \* bound: what another task does to a board it shares

ASSUME ProgramsAssumption ==
  {MaxOther} \union Bases \union Factors \union Caps \union Retries \subseteq Nat

VARIABLES
  program,     \* its name, and whether another task shares its board
  asked,       \* the calls of every and its helpers, in the programs about them
  built,       \* the TaskResult: a Task, or nothing when it could not be built
  (* User code. *)
  count,       \* what the closure of a step captured: how often it was called
  line,        \* how far the body of the step has come
  value,       \* what it took from the store of the run
  total,       \* what it computed from the board
  (* What the library hands to it. *)
  ctx,         \* the TaskContext of the present attempt
  store,       \* run_store
  board,       \* the task-level blackboard
  wait,        \* the delay before the next attempt
  (* Another task on the same board, between two of its calls. *)
  other,
  (* Observation, read by no action. *)
  writes       \* how often a total was written to the board

user == <<count, line, value, total>>
given == <<ctx, store, board, wait>>
fixed == <<program, asked, built>>
allVars == <<vars, fixed, user, given, other, writes>>

-----------------------------------------------------------------------------
(* The tasks of the examples.  A body is named for what it does; a length  *)
(* of time is in units of 100 ms, each of Milli nanoseconds.               *)

SimpleTask ==
  AddStepDefault(Repeat(Description(Every(NewBuilder, Written("1, 10, 20")), "Just some task"),
                        5), "countdown")

OneTask ==
  AddStepDefault(AddStepDefault(Description(Every(NewBuilder, Written("1")), "A simple task"),
                                "hello"), "every other")

ReadMeTask ==
  AddStep(AddStep(Description(Every(NewBuilder, Written("1")), "A simple task"),
                  "Step 1", "hello"), "Step 2", "every other")

BuilderTask ==
  AddStep(AddStep(Repeat(Description(Every(NewBuilder, Written("* * * * * *")),
                                     "Some description"), 5),
                  "First step", "hello"), "Second step", "hello")

ForceRemoveTask ==
  AddStep(AddStep(Description(Every(NewBuilder, Written("0,5,...,55")), "A simple task"),
                  "Step 1", "hello"), "Step 2", "every other, then delete")

GeneratedTask ==
  AddStepDefault(AddStepDefault(Repeat(Description(Every(NewBuilder, Written("0,10,...,50")),
                                                   "Generated task"), 2),
                                "hello"), "hello")

HelpersTask == AddStep(AddStep(EverySeconds(NewBuilder, 2), "prepare", "hello"), "work", "slow")

SlowTask ==
  AddStep(Overlapping(Description(Every(NewBuilder, EverySecond), "Slow task"), "Skip"),
          "Slow step", "slow")

FlakyPolicy ==
  WithJitter(WithMaxDelay(ExponentialPolicy(3, Milli, 2), 10 * Milli), "Full")

RetryTask ==
  AddStep(OnFinish(OnFailure(OnSuccess(RetryWith(TimeoutAfter(Repeat(Description(
            Every(NewBuilder, EverySecond), "A flaky task"), 1), 20 * Milli), FlakyPolicy)))),
          "Flaky step", "flaky")

PipelineTask ==
  AddStep(AddStep(OnBoard(Named(Every(NewBuilder, EverySecond), "pipeline"), "board"),
                  "produce", "produce"), "consume", "consume")

(* Its closure has captured the board instead. *)
ProducerTask ==
  AddStep(Named(Every(NewBuilder, EverySecond), "producer"), "increment", "increment")

Examples ==
  [simple |-> SimpleTask, one |-> OneTask, read_me |-> ReadMeTask, builder |-> BuilderTask,
   force_remove |-> ForceRemoveTask, generated |-> GeneratedTask, helpers |-> HelpersTask,
   slow |-> SlowTask, retry |-> RetryTask, pipeline |-> PipelineTask, producer |-> ProducerTask]

-----------------------------------------------------------------------------
(* Tasks that are no example: one for every policy, whose step never       *)
(* succeeds, and one for every one or two calls of every and its helpers.  *)

Policies ==
  LET plain == {FixedPolicy(n, b) : n \in Retries, b \in Bases} \union
               {ExponentialPolicy(n, b, f) : n \in Retries, b \in Bases, f \in Factors}
      capped == plain \union {WithMaxDelay(p, c) : p \in plain, c \in Caps}
  IN  {WithJitter(p, j) : p \in capped, j \in Jitters}

PolicyTask(policy, body) ==
  AddStep(HistoryLimit(RetryWith(TimeoutAfter(Repeat(Every(NewBuilder, EverySecond), 1), Milli),
                                 policy), 1), "step", body)

Call(helper, n, minute) == [helper |-> helper, n |-> n, minute |-> minute]
Calls ==
  {Call("every_seconds", n, 0) : n \in {0, 59, 60}} \union
  {Call("every_minutes", n, 0) : n \in {0, 59, 60}} \union
  {Call("every_hours", n, 0) : n \in {0, 23, 24}} \union
  {Call("hourly_at", 0, m) : m \in {0, 59, 60}} \union
  {Call("daily_at", h, m) : h \in {0, 23, 24}, m \in {0, 59, 60}}

Apply(b, call) ==
  CASE call.helper = "every_seconds" -> EverySeconds(b, call.n)
    [] call.helper = "every_minutes" -> EveryMinutes(b, call.n)
    [] call.helper = "every_hours"   -> EveryHours(b, call.n)
    [] call.helper = "hourly_at"     -> HourlyAt(b, call.minute)
    [] call.helper = "daily_at"      -> DailyAt(b, call.n, call.minute)

CronTask(made) ==
  LET first == Apply(Repeat(NewBuilder, 1), made[1])
  IN  IF Len(made) = 1 THEN first ELSE Apply(first, made[2])

-----------------------------------------------------------------------------
(* What the bodies of the steps do.                                        *)

TheTask == CHOOSE t \in built : TRUE
Body == TheTask.steps[index].body
Policy == CHOOSE p \in TheTask.retry_policy : TRUE

(* Closures that count how often they were called. *)
Counts == {"countdown", "every other", "every other, then delete", "flaky"}

(* Bodies that suspend; the others are done when they are first polled. *)
Awaits == {"slow", "hanging"}

(* The calls a body makes to a Blackboard. *)
Ops == CASE Body = "produce"   -> <<"put">>
         [] Body = "consume"   -> <<"take", "fetch", "write">>
         [] Body = "increment" -> <<"fetch", "write">>
         [] OTHER              -> <<>>

(* What a body returns whose closure has been called count times by now. *)
Result ==
  CASE Body = "every other, then delete" /\ count = 11 -> "ErrorDelete"
    [] Body = "every other, then delete" /\ count # 11 -> IF count % 2 = 1 THEN "Error" ELSE "Success"
    [] Body = "every other"                            -> IF count % 2 = 1 THEN "Error" ELSE "Success"
    [] Body = "flaky"                                  -> IF count <= 2 THEN "Error" ELSE "Success"
    [] Body = "failing"                                -> "Error"
    [] Body = "hanging"                                -> "nothing"
    [] OTHER                                           -> "Success"

Key == IF program.name = "pipeline" THEN "runs" ELSE "count"
Zero == Value("u32", 0)
Op(name) == pc = "attempt" /\ line \in DOMAIN Ops /\ Ops[line] = name

(* ctx.run_store().set("value", value) *)
Put ==
  /\ Op("put")
  /\ store' = Set(store, "value", Value("u32", (ctx.run_id + 1) * 10))
  /\ line' = line + 1
  /\ UNCHANGED <<vars, fixed, count, value, total, ctx, board, wait, other, writes>>

(* ctx.run_store().get("value").unwrap_or(0) *)
Take ==
  /\ Op("take")
  /\ value' = GetOr(store, "value", Zero)
  /\ line' = line + 1
  /\ UNCHANGED <<vars, fixed, count, total, given, other, writes>>

(* get_or_insert(key, 0) + 1 *)
Fetch ==
  /\ Op("fetch")
  /\ total' = GetOr(board, Key, Zero) + 1
  /\ board' = Inserted(board, Key, Zero)
  /\ line' = line + 1
  /\ UNCHANGED <<vars, fixed, count, value, ctx, store, wait, other, writes>>

(* set(key, total) *)
Write ==
  /\ Op("write")
  /\ board' = Set(board, Key, Value("u32", total))
  /\ writes' = writes + 1
  /\ line' = line + 1
  /\ UNCHANGED <<vars, fixed, count, value, total, ctx, store, wait, other>>

(* Another task with a clone of the board makes the same two calls, or     *)
(* removes the key, or stores something else under it.                     *)
OtherFetches ==
  /\ program.shared /\ other.left > 0 /\ ~other.holds
  /\ other' = [other EXCEPT !.holds = TRUE, !.total = GetOr(board, Key, Zero) + 1]
  /\ board' = Inserted(board, Key, Zero)
  /\ UNCHANGED <<vars, fixed, user, ctx, store, wait, writes>>

OtherWrites ==
  /\ other.holds
  /\ board' = Set(board, Key, Value("u32", other.total))
  /\ writes' = writes + 1
  /\ other' = [left |-> other.left - 1, holds |-> FALSE, total |-> 0]
  /\ UNCHANGED <<vars, fixed, user, ctx, store, wait>>

OtherSpoils ==
  /\ program.shared /\ other.left > 0 /\ ~other.holds
  /\ \/ Contains(board, Key) /\ board' = Remove(board, Key)
     \/ board' = Set(board, Key, Value("String", ""))
  /\ other' = [other EXCEPT !.left = @ - 1]
  /\ UNCHANGED <<vars, fixed, user, ctx, store, wait, writes>>

-----------------------------------------------------------------------------
(* The steps of TaskRun, with the user's part of them.                     *)

Untouched == UNCHANGED <<fixed, user, given, other, writes>>

(* Mutant: one store for all runs.                                         *)
StoreOfTask == store

(* The store is as old as the run. *)
FreshStore == NewBoard

EnterRun ==
  /\ Enter
  /\ store' = FreshStore
  /\ UNCHANGED <<fixed, user, ctx, board, wait, other, writes>>

(* Mutant: steps are counted from one too low.                             *)
ContextBeforeFirst == [run_id |-> runId, step_index |-> index - 2, attempt |-> attempt']

(* Mutant: the attempts of all steps are numbered together.                *)
ContextOfRun == [run_id |-> runId, step_index |-> index - 1, attempt |-> attempts']

(* The TaskContext of an attempt. *)
Context == [run_id |-> runId, step_index |-> index - 1, attempt |-> attempt']

(* The closure is called, whatever becomes of its future. *)
CallStep ==
  /\ BeginAttempt
  /\ ctx' = Context
  /\ count' = IF Body \in Counts THEN count + 1 ELSE count
  /\ line' = 1
  /\ value' = 0
  /\ total' = 0
  /\ wait' = 0
  /\ UNCHANGED <<fixed, store, board, other, writes>>

Returns(result) == pc = "attempt" /\ line \notin DOMAIN Ops /\ Result = result

Succeeds == Returns("Success") /\ StepSucceeds /\ states'[index] = "Succeeded" /\ Untouched
Deletes  == Returns("ErrorDelete") /\ StepDeletes /\ Untouched

(* The delay is drawn where the attempt has failed. *)
Backs ==
  /\ wait' \in IF pc' = "delay" THEN JitteredDelay(Policy, attempt - 1) ELSE {0}
  /\ UNCHANGED <<fixed, user, ctx, store, board, other, writes>>

Fails    == Returns("Error") /\ StepFails /\ Backs
TimesOut == pc = "attempt" /\ Body \in Awaits /\ StepTimesOut /\ Backs

(* None of these schedules ends. *)
Reschedules ==
  /\ Reschedule
  /\ status' = "Finished" => status = "Finished" \/ left = 0
  /\ Untouched

(* A driver can be cancelled where it suspends; a delay of zero is skipped. *)
Cancelled ==
  /\ pc = "idle" \/ (pc = "attempt" /\ Body \in Awaits) \/ (pc = "delay" /\ wait > 0)
  /\ Die
  /\ Untouched

AsInTaskRun ==
  /\ \/ OpenRecord \/ SetRunning \/ Refuse \/ EndSteps \/ Notify \/ ClearRunning
     \/ FinishRun \/ Retire \/ Publish \/ Loop
  /\ Untouched

-----------------------------------------------------------------------------
(* Task::run_task takes max_attempts from the policy, if there is one. *)
Shape(t) ==
  [steps |-> Len(t.steps),
   retries |-> IF t.retry_policy = {} THEN 0 ELSE (CHOOSE p \in t.retry_policy : TRUE).max_retries,
   timeout |-> t.timeout # {},
   limit |-> t.history_limit]

(* The task of a program that is not built has no steps and is not run. *)
Starts(b) ==
  /\ built = IF Buildable(b) THEN {Build(b)} ELSE {}
  /\ task = Shape(IF Buildable(b) THEN Build(b) ELSE Build(NewBuilder))
  /\ left = IF b.repeats = {} THEN MaxRuns + 1 ELSE CHOOSE r \in b.repeats : TRUE

ProgramInit ==
  /\ \/ \E name \in DOMAIN Examples, both \in BOOLEAN :
          /\ both => name \in {"pipeline", "producer"}
          /\ program = [name |-> name, shared |-> both]
          /\ asked = <<>>
          /\ Starts(Examples[name])
     \/ \E policy \in Policies, body \in {"failing", "hanging"} :
          /\ program = [name |-> "policy", shared |-> FALSE]
          /\ asked = <<>>
          /\ Starts(PolicyTask(policy, body))
     \/ \E made \in (Calls \X Calls) \union {<<c>> : c \in Calls} :
          /\ program = [name |-> "cron", shared |-> FALSE]
          /\ asked = made
          /\ Starts(CronTask(made))
  /\ Fresh
  /\ count = 0 /\ line = 1 /\ value = 0 /\ total = 0
  /\ ctx = [run_id |-> 0, step_index |-> 0, attempt |-> 0]
  /\ store = NewBoard /\ board = NewBoard /\ wait = 0
  /\ other = [left |-> MaxOther, holds |-> FALSE, total |-> 0]
  /\ writes = 0

ProgramNext ==
  /\ built # {}
  /\ \/ AsInTaskRun \/ EnterRun \/ CallStep \/ Succeeds \/ Deletes \/ Fails \/ TimesOut
     \/ Reschedules \/ Cancelled
     \/ Put \/ Take \/ Fetch \/ Write
     \/ OtherFetches \/ OtherWrites \/ OtherSpoils

ProgramSpec == ProgramInit /\ [][ProgramNext]_allVars

-----------------------------------------------------------------------------
(* Properties.                                                             *)

(* Every cell holds a value of its type: the store and the board hold      *)
(* numbers, but for what the other task stored.                            *)
ProgramTypeOK ==
  /\ {count, total, value, wait, writes} \subseteq Nat
  /\ line \in 1..4
  /\ ctx \in [run_id : Nat, step_index : Nat, attempt : Nat]
  /\ \A k \in DOMAIN store : store[k].is \in Nat
  /\ \A k \in DOMAIN board : board[k].type = "u32" => board[k].is \in Nat
  /\ other \in [left : 0..MaxOther, holds : BOOLEAN, total : Nat]

(* The store of a run holds what the steps of this run put there, never    *)
(* what an earlier run left, and a later step finds it.                    *)
RunStoreIsPrivate ==
  program.name = "pipeline" /\ InSteps =>
    /\ Get(store, "value", "u32") \subseteq {(runId + 1) * 10}
    /\ index > 1 => Get(store, "value", "u32") # {}
    /\ pc = "attempt" /\ Body = "consume" /\ line > 1 => value = (runId + 1) * 10

(* The total on the board, which get_or_insert and set keep as two calls,  *)
(* counts the runs of a task that has the board to itself.  With another   *)
(* task on it, increments may be lost but none is counted twice.           *)
TotalCountsRuns ==
  program.name \in {"pipeline", "producer"} =>
    /\ GetOr(board, Key, Zero) <= writes
    /\ ~program.shared => GetOr(board, Key, Zero) = writes
    /\ ~program.shared /\ pc \in {"idle", "drain"} => writes = executed

(* No two attempts get the same context: runs, the steps of a run and the  *)
(* attempts of a step are passed in order, attempts from 1 on and no more  *)
(* of them than the policy allows.                                         *)
Later(c, d) ==
  \/ c.run_id < d.run_id
  \/ c.run_id = d.run_id /\ c.step_index < d.step_index
  \/ d = [c EXCEPT !.attempt = @ + 1]
ContextsInOrder ==
  [][ctx' # ctx \/ attempt' > attempt =>
       /\ Later(ctx, ctx')
       /\ ctx'.attempt = 1 \/ ctx' = [ctx EXCEPT !.attempt = @ + 1]
       /\ ctx'.attempt <= Attempts]_allVars

(* The wait before a retry is the documented base * factor^retry_index,    *)
(* never above it or above the cap; short of it by no more than the        *)
(* truncation to milliseconds and, for sums that a Duration of u64         *)
(* milliseconds cannot hold, the saturation; Full jitter may take all of   *)
(* it away and Equal jitter no more than half.                             *)
DelaysAsDocumented ==
  pc = "delay" =>
    LET growth == IF Policy.backoff = "Fixed" THEN 1 ELSE Power(Policy.factor, attempt - 1)
        whole  == IF Policy.backoff = "Fixed" THEN Policy.base
                  ELSE Min({(Policy.base \div Milli) * growth, MaxU64}) * Milli
        high   == Min({Policy.base * growth} \union Policy.max)
        low    == Min({whole} \union Policy.max)
    IN  /\ wait <= high
        /\ Policy.jitter = "None" => wait >= low
        /\ Policy.jitter = "Equal" => wait >= Min({low, MaxU64}) \div 2

(* A task built from calls of every and its helpers has the schedule of    *)
(* the last call, and is not built when that call is out of the range its  *)
(* documentation gives, whatever the calls before it asked for.            *)
InRange(c) ==
  CASE c.helper \in {"every_seconds", "every_minutes"} -> 1 <= c.n /\ c.n <= 59
    [] c.helper = "every_hours"                        -> 1 <= c.n /\ c.n <= 23
    [] c.helper = "hourly_at"                          -> c.minute <= 59
    [] c.helper = "daily_at"                           -> c.n <= 23 /\ c.minute <= 59
ScheduleIsLastAsked ==
  program.name = "cron" =>
    LET last == asked[Len(asked)]
    IN  /\ built # {} <=> InRange(last)
        /\ built # {} => TheTask.schedule = Apply(NewBuilder, last).expression

(* What the code of the examples comes to, when it is run: simple counts 5 *)
(* down to 0 and no further; the second step of one and read_me fails      *)
(* every second run; builder is executed exactly 5 times and generated     *)
(* twice; force_remove is removed by the call that sees 10 in its counter, *)
(* the eleventh, and no other example is removed; the retried task fails   *)
(* twice, succeeds, and reports one success and its end.                   *)
ExamplesAsCoded ==
  /\ program.name = "simple" => count <= 5
  /\ program.name \in {"one", "read_me"} =>
       \A k \in DOMAIN history :
         history[k].outcome # "open" => (history[k].outcome = "Failed" <=> history[k].id % 2 = 0)
  /\ status = "ForceRemoved" <=>
       program.name = "force_remove" /\ count = 11 /\ pc # "attempt" /\ ctx.run_id = 10
  /\ calls.finish > 0 =>
       CASE program.name \in {"simple", "builder"} -> executed = 5
         [] program.name = "generated"             -> executed = 2
         [] program.name = "retry" -> /\ count = 3 /\ executed = 1
                                      /\ calls.success = 1 /\ calls.failure = 0
         [] OTHER -> program.name \in {"force_remove", "policy", "cron"}

-----------------------------------------------------------------------------
(* What a comment of the examples says and their code does not do.         *)

(* force_remove_example: "on the 10th execution it is forcibly removed":   *)
(* once it has been executed ten times, the task is removed.               *)
RemovedOnTenthExecution ==
  program.name = "force_remove" /\ executed >= 10 => status = "ForceRemoved"
=============================================================================
