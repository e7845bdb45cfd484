------------------------------ MODULE Builder ------------------------------
(***************************************************************************)
(* TaskBuilder: how a tasklet task is described and built.  A builder is a *)
(* record that every setter takes and returns; Build makes a task of it or *)
(* refuses its schedule.                                                   *)
(*                                                                         *)
(* Cron expressions are records: the unit the cron fields are about and    *)
(* the numbers in them.  An Option is a set of at most one value.          *)
(***************************************************************************)
EXTENDS Naturals, Sequences

DefaultHistoryLimit == 20

(* An expression of one number; one that is written out and does parse. *)
Cron(unit, n) == [unit |-> unit, n |-> n, minute |-> 0]
Written(text) == Cron("written", text)
EverySecond == Written("* * * * * * *")

(* Schedule::from_str, of the cron crate: a step is at least 1, and every  *)
(* number must be in the range of its field.                               *)
Parses(cron) ==
  CASE cron.unit = "written"                -> TRUE
    [] cron.unit \in {"seconds", "minutes"} -> cron.n \in 1..59
    [] cron.unit = "hours"                  -> cron.n \in 1..23
    [] cron.unit = "day"                    -> cron.n \in 0..23 /\ cron.minute \in 0..59
    [] cron.unit = "hour"                   -> cron.n \in 0..59

-----------------------------------------------------------------------------
NewBuilder ==
  [description |-> {}, name |-> {}, history_limit |-> DefaultHistoryLimit, steps |-> <<>>,
   schedule |-> {}, expression |-> EverySecond, repeats |-> {}, timeout |-> {},
   retry_policy |-> {}, callbacks |-> {}, overlap |-> "Skip", blackboard |-> {}]

Description(b, description) == [b EXCEPT !.description = {description}]
Named(b, name)              == [b EXCEPT !.name = {name}]
HistoryLimit(b, limit)      == [b EXCEPT !.history_limit = limit]
Repeat(b, repeat)           == [b EXCEPT !.repeats = {repeat}]
TimeoutAfter(b, timeout)    == [b EXCEPT !.timeout = {timeout}]
RetryWith(b, policy)        == [b EXCEPT !.retry_policy = {policy}]
OnBoard(b, blackboard)      == [b EXCEPT !.blackboard = {blackboard}]
Overlapping(b, overlap)     == [b EXCEPT !.overlap = overlap]
OnSuccess(b)                == [b EXCEPT !.callbacks = @ \union {"success"}]
OnFailure(b)                == [b EXCEPT !.callbacks = @ \union {"failure"}]
OnFinish(b)                 == [b EXCEPT !.callbacks = @ \union {"finish"}]

(* Mutant: an expression that does not parse leaves the schedule alone.    *)
EveryKeepsSchedule(b, cron) ==
  [b EXCEPT !.expression = cron, !.schedule = IF Parses(cron) THEN {cron} ELSE @]

(* every: an expression that does not parse also forgets the one before. *)
Every(b, cron) ==
  [b EXCEPT !.expression = cron, !.schedule = IF Parses(cron) THEN {cron} ELSE {}]

EverySeconds(b, n)      == Every(b, Cron("seconds", n))
EveryMinutes(b, n)      == Every(b, Cron("minutes", n))
EveryHours(b, n)        == Every(b, Cron("hours", n))
DailyAt(b, hour, minute) == Every(b, [unit |-> "day", n |-> hour, minute |-> minute])
HourlyAt(b, minute)     == Every(b, Cron("hour", minute))

(* TaskStep::new and TaskStep::default: what a step is called and does. *)
NewStep(description, body) == [description |-> {description}, body |-> body]
DefaultStep(body)          == [description |-> {}, body |-> body]

AddStep(b, description, body) == [b EXCEPT !.steps = Append(@, NewStep(description, body))]
AddStepDefault(b, body)       == [b EXCEPT !.steps = Append(@, DefaultStep(body))]

-----------------------------------------------------------------------------
(* Task::new; without a board of its own a task gets a fresh one. *)
NewTask(cron, description, repeats) ==
  [schedule |-> cron, description |-> IF description = {} THEN {"-"} ELSE description,
   repeats |-> repeats, steps |-> <<>>, name |-> {}, history_limit |-> DefaultHistoryLimit,
   timeout |-> {}, retry_policy |-> {}, callbacks |-> {}, overlap |-> "Skip",
   blackboard |-> "its own"]

(* The parse of build is of the expression that is left when none of the   *)
(* calls of every left a schedule.                                         *)
Buildable(b) == b.schedule # {} \/ Parses(b.expression)

(* build, when it does not return InvalidCronExpression. *)
Build(b) ==
  LET schedule == IF b.schedule # {} THEN CHOOSE s \in b.schedule : TRUE ELSE b.expression
      board    == IF b.blackboard = {} THEN "its own" ELSE CHOOSE k \in b.blackboard : TRUE
  IN  [NewTask(schedule, b.description, b.repeats) EXCEPT
         !.steps = b.steps, !.name = b.name, !.history_limit = b.history_limit,
         !.timeout = b.timeout, !.retry_policy = b.retry_policy, !.overlap = b.overlap,
         !.blackboard = board, !.callbacks = b.callbacks]
=============================================================================
