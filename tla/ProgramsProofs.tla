--------------------------- MODULE ProgramsProofs ---------------------------
(***************************************************************************)
(* What users of tasklet rely on: the contexts and the delays their steps  *)
(* get, the store and the board they work on, and the schedule that was    *)
(* asked for.  A program takes steps of TaskRun, so what TaskRunProofs     *)
(* proves of those holds here as well.                                     *)
(***************************************************************************)
EXTENDS Programs, TaskRunProofs, RetryProofs

USE DEF driver, shared, seen, user, given, fixed

-----------------------------------------------------------------------------
(* Builders and what they build.                                           *)

Optional(S) == {{}} \union {{x} : x \in S}

(* An Option is nothing or one value. *)
LEMMA OptionalType ==
  ASSUME NEW S
  PROVE  {} \in Optional(S) /\ \A x \in S : {x} \in Optional(S)
BY DEF Optional

(* A list of steps, whatever their descriptions and bodies. *)
IsSteps(s) == \E S : s \in Seq(S)

(* A step that is added comes after those before it. *)
LEMMA StepAdded ==
  ASSUME NEW s, IsSteps(s), NEW t
  PROVE  /\ IsSteps(Append(s, t))
         /\ Len(s) \in Nat
         /\ Len(Append(s, t)) = Len(s) + 1
         /\ Append(s, t)[Len(s) + 1] = t
         /\ \A k \in 1..Len(s) : Append(s, t)[k] = s[k]
<1>1. PICK S : s \in Seq(S)
  BY DEF IsSteps
<1> DEFINE T == S \union {t}
<1>2. s \in Seq(T) /\ t \in T
  BY <1>1
<1> HIDE DEF T
<1>3. Append(s, t) \in Seq(T)
  BY <1>2
<1> QED
  BY <1>2, <1>3, AppendProperties, LenProperties DEF IsSteps

Fields ==
  {"description", "name", "history_limit", "steps", "schedule", "expression", "repeats",
   "timeout", "retry_policy", "callbacks", "overlap", "blackboard"}

(* What a TaskBuilder holds, as far as the properties need it. *)
IsBuilder(b) ==
  /\ DOMAIN b = Fields
  /\ IsSteps(b.steps)
  /\ b.history_limit \in Nat
  /\ b.repeats \in Optional(Nat)
  /\ b.retry_policy \in Optional(PolicyType)

(* A builder before any call. *)
LEMMA NewBuilderType ==
  IsBuilder(NewBuilder) /\ NewBuilder.steps = <<>> /\ NewBuilder.retry_policy = {}
<1>1. IsSteps(<<>>)
  BY EmptySeq DEF IsSteps
<1>2. {} \in Optional(Nat) /\ {} \in Optional(PolicyType)
  BY OptionalType
<1>3. DOMAIN NewBuilder = Fields
  BY DEF NewBuilder, Fields
<1>4. /\ NewBuilder.steps = <<>> /\ NewBuilder.repeats = {} /\ NewBuilder.retry_policy = {}
      /\ NewBuilder.history_limit \in Nat
  BY DEF NewBuilder, DefaultHistoryLimit
<1> QED
  BY <1>1, <1>2, <1>3, <1>4 DEF IsBuilder

(* A builder that has the same steps and policy as another. *)
Like(c, b) == IsBuilder(c) /\ c.steps = b.steps /\ c.retry_policy = b.retry_policy

(* Most setters leave those alone. *)
LEMMA SettersType ==
  ASSUME NEW b, IsBuilder(b)
  PROVE  /\ \A x : /\ Like(Description(b, x), b) /\ Like(Named(b, x), b)
                   /\ Like(Overlapping(b, x), b) /\ Like(OnBoard(b, x), b)
                   /\ Like(TimeoutAfter(b, x), b)
         /\ \A n \in Nat : Like(HistoryLimit(b, n), b) /\ Like(Repeat(b, n), b)
         /\ Like(OnSuccess(b), b) /\ Like(OnFailure(b), b) /\ Like(OnFinish(b), b)
<1> DEFINE Kept(c) == /\ DOMAIN c = Fields /\ c.steps = b.steps /\ c.repeats = b.repeats
                      /\ c.history_limit = b.history_limit
                      /\ c.retry_policy = b.retry_policy
<1>0. DOMAIN b = Fields
  BY DEF IsBuilder
<1>1. ASSUME NEW c, Kept(c) PROVE Like(c, b)
  BY <1>1 DEF IsBuilder, Like
<1>2. ASSUME NEW x
      PROVE  /\ Kept(Description(b, x)) /\ Kept(Named(b, x)) /\ Kept(Overlapping(b, x))
             /\ Kept(OnBoard(b, x)) /\ Kept(TimeoutAfter(b, x))
  BY <1>0 DEF Fields, Description, Named, Overlapping, OnBoard, TimeoutAfter
<1>3. Kept(OnSuccess(b)) /\ Kept(OnFailure(b)) /\ Kept(OnFinish(b))
  BY <1>0 DEF Fields, OnSuccess, OnFailure, OnFinish
<1>4. ASSUME NEW n \in Nat PROVE Like(HistoryLimit(b, n), b) /\ Like(Repeat(b, n), b)
  <2>1. {n} \in Optional(Nat)
    BY OptionalType
  <2>2. LET c == HistoryLimit(b, n)
        IN  /\ DOMAIN c = Fields /\ c.steps = b.steps /\ c.repeats = b.repeats
            /\ c.history_limit = n /\ c.retry_policy = b.retry_policy
    BY <1>0 DEF Fields, HistoryLimit
  <2>3. LET c == Repeat(b, n)
        IN  /\ DOMAIN c = Fields /\ c.steps = b.steps /\ c.repeats = {n}
            /\ c.history_limit = b.history_limit /\ c.retry_policy = b.retry_policy
    BY <1>0 DEF Fields, Repeat
  <2> QED
    BY <2>1, <2>2, <2>3 DEF Like, IsBuilder
<1> HIDE DEF Kept
<1> QED
  BY <1>1, <1>2, <1>3, <1>4

(* every forgets the schedule before it, and leaves one only if it parses. *)
LEMMA EveryType ==
  ASSUME NEW b, IsBuilder(b), NEW cron
  PROVE  /\ Like(Every(b, cron), b)
         /\ Every(b, cron).expression = cron
         /\ Every(b, cron).schedule = IF Parses(cron) THEN {cron} ELSE {}
<1>0. DOMAIN b = Fields
  BY DEF IsBuilder
<1> DEFINE c == Every(b, cron)
<1>1. /\ DOMAIN c = Fields /\ c.steps = b.steps /\ c.repeats = b.repeats
      /\ c.history_limit = b.history_limit /\ c.retry_policy = b.retry_policy
      /\ c.expression = cron
      /\ c.schedule = IF Parses(cron) THEN {cron} ELSE {}
  BY <1>0 DEF Fields, Every
<1> HIDE DEF c
<1>2. Like(c, b)
  BY <1>1 DEF IsBuilder, Like
<1> QED
  BY <1>1, <1>2 DEF c

(* retry_policy replaces the policy. *)
LEMMA RetryWithType ==
  ASSUME NEW b, IsBuilder(b), NEW p \in PolicyType
  PROVE  /\ IsBuilder(RetryWith(b, p)) /\ RetryWith(b, p).steps = b.steps
         /\ RetryWith(b, p).retry_policy = {p}
<1>0. DOMAIN b = Fields
  BY DEF IsBuilder
<1> DEFINE c == RetryWith(b, p)
<1>1. /\ DOMAIN c = Fields /\ c.steps = b.steps /\ c.repeats = b.repeats
      /\ c.history_limit = b.history_limit /\ c.retry_policy = {p}
  BY <1>0 DEF Fields, RetryWith
<1> HIDE DEF c
<1>2. {p} \in Optional(PolicyType)
  BY OptionalType
<1>3. IsBuilder(c)
  BY <1>1, <1>2 DEF IsBuilder
<1> QED
  BY <1>1, <1>3 DEF c

(* add_step and add_step_default append a step. *)
LEMMA AddStepType ==
  ASSUME NEW b, IsBuilder(b), NEW body
  PROVE  /\ IsBuilder(AddStepDefault(b, body))
         /\ AddStepDefault(b, body).steps = Append(b.steps, DefaultStep(body))
         /\ AddStepDefault(b, body).retry_policy = b.retry_policy
         /\ \A s : /\ IsBuilder(AddStep(b, s, body))
                   /\ AddStep(b, s, body).steps = Append(b.steps, NewStep(s, body))
                   /\ AddStep(b, s, body).retry_policy = b.retry_policy
<1>0. DOMAIN b = Fields
  BY DEF IsBuilder
<1>1. ASSUME NEW t, NEW c, c = [b EXCEPT !.steps = Append(b.steps, t)]
      PROVE  IsBuilder(c) /\ c.steps = Append(b.steps, t) /\ c.retry_policy = b.retry_policy
  <2>1. /\ DOMAIN c = Fields /\ c.steps = Append(b.steps, t) /\ c.repeats = b.repeats
        /\ c.history_limit = b.history_limit /\ c.retry_policy = b.retry_policy
    BY <1>0, <1>1 DEF Fields
  <2>2. IsSteps(Append(b.steps, t))
    BY StepAdded DEF IsBuilder
  <2> QED
    BY <2>1, <2>2 DEF IsBuilder
<1>2. LET c == AddStepDefault(b, body)
      IN  /\ IsBuilder(c) /\ c.steps = Append(b.steps, DefaultStep(body))
          /\ c.retry_policy = b.retry_policy
  <2>1. AddStepDefault(b, body) = [b EXCEPT !.steps = Append(b.steps, DefaultStep(body))]
    BY DEF AddStepDefault
  <2> QED
    BY <1>1, <2>1
<1>3. ASSUME NEW s
      PROVE  LET c == AddStep(b, s, body)
             IN  /\ IsBuilder(c) /\ c.steps = Append(b.steps, NewStep(s, body))
                 /\ c.retry_policy = b.retry_policy
  <2>1. AddStep(b, s, body) = [b EXCEPT !.steps = Append(b.steps, NewStep(s, body))]
    BY DEF AddStep
  <2> QED
    BY <1>1, <2>1
<1> QED
  BY <1>2, <1>3

(* A builder to which no step was added yet, its repeats and its policy.   *)
Plain(b, repeats, policy) ==
  IsBuilder(b) /\ b.steps = <<>> /\ b.repeats = repeats /\ b.retry_policy = policy

(* One to which a step was added, and one to which two were.               *)
OneStep(b, body, repeats, policy) ==
  /\ IsBuilder(b) /\ Len(b.steps) = 1 /\ b.steps[1].body = body
  /\ b.repeats = repeats /\ b.retry_policy = policy
TwoSteps(b, first, second, repeats, policy) ==
  /\ IsBuilder(b) /\ Len(b.steps) = 2 /\ b.steps[1].body = first /\ b.steps[2].body = second
  /\ b.repeats = repeats /\ b.retry_policy = policy

(* Before steps are added, repeat and retry_policy say how often, and      *)
(* every and the others leave that alone.                                  *)
LEMMA PlainCalls ==
  ASSUME NEW b, NEW repeats, NEW policy, Plain(b, repeats, policy)
  PROVE  /\ \A x : /\ Plain(Every(b, x), repeats, policy)
                   /\ Plain(Description(b, x), repeats, policy)
                   /\ Plain(Named(b, x), repeats, policy)
                   /\ Plain(OnBoard(b, x), repeats, policy)
                   /\ Plain(Overlapping(b, x), repeats, policy)
                   /\ Plain(TimeoutAfter(b, x), repeats, policy)
         /\ Plain(OnSuccess(b), repeats, policy)
         /\ Plain(OnFailure(b), repeats, policy)
         /\ Plain(OnFinish(b), repeats, policy)
         /\ \A n \in Nat : /\ Plain(Repeat(b, n), {n}, policy)
                           /\ Plain(HistoryLimit(b, n), repeats, policy)
         /\ \A p \in PolicyType : Plain(RetryWith(b, p), repeats, {p})
<1>0. DOMAIN b = Fields /\ IsBuilder(b)
  BY DEF IsBuilder, Plain
<1>1. ASSUME NEW x
      PROVE  /\ Plain(Every(b, x), repeats, policy) /\ Plain(Description(b, x), repeats, policy)
             /\ Plain(Named(b, x), repeats, policy) /\ Plain(OnBoard(b, x), repeats, policy)
             /\ Plain(Overlapping(b, x), repeats, policy)
             /\ Plain(TimeoutAfter(b, x), repeats, policy)
  <2>1. /\ Every(b, x).repeats = b.repeats /\ Description(b, x).repeats = b.repeats
        /\ Named(b, x).repeats = b.repeats /\ OnBoard(b, x).repeats = b.repeats
        /\ Overlapping(b, x).repeats = b.repeats /\ TimeoutAfter(b, x).repeats = b.repeats
    BY <1>0 DEF Fields, Every, Description, Named, OnBoard, Overlapping, TimeoutAfter
  <2>2. /\ Like(Every(b, x), b) /\ Like(Description(b, x), b) /\ Like(Named(b, x), b)
        /\ Like(OnBoard(b, x), b) /\ Like(Overlapping(b, x), b) /\ Like(TimeoutAfter(b, x), b)
    BY <1>0, SettersType, EveryType
  <2> QED
    BY <2>1, <2>2 DEF Plain, Like
<1>2. /\ Plain(OnSuccess(b), repeats, policy) /\ Plain(OnFailure(b), repeats, policy)
      /\ Plain(OnFinish(b), repeats, policy)
  <2>1. /\ OnSuccess(b).repeats = b.repeats /\ OnFailure(b).repeats = b.repeats
        /\ OnFinish(b).repeats = b.repeats
    BY <1>0 DEF Fields, OnSuccess, OnFailure, OnFinish
  <2> QED
    BY <1>0, <2>1, SettersType DEF Plain, Like
<1>3. ASSUME NEW n \in Nat
      PROVE  Plain(Repeat(b, n), {n}, policy) /\ Plain(HistoryLimit(b, n), repeats, policy)
  <2>1. Repeat(b, n).repeats = {n} /\ HistoryLimit(b, n).repeats = b.repeats
    BY <1>0 DEF Fields, Repeat, HistoryLimit
  <2> QED
    BY <1>0, <2>1, SettersType DEF Plain, Like
<1>4. ASSUME NEW p \in PolicyType PROVE Plain(RetryWith(b, p), repeats, {p})
  <2>1. RetryWith(b, p).repeats = b.repeats
    BY <1>0 DEF Fields, RetryWith
  <2> QED
    BY <1>0, <2>1, RetryWithType DEF Plain
<1> QED
  BY <1>1, <1>2, <1>3, <1>4

(* The first step that is added is the only one. *)
LEMMA FirstStep ==
  ASSUME NEW b, NEW repeats, NEW policy, Plain(b, repeats, policy), NEW body
  PROVE  /\ OneStep(AddStepDefault(b, body), body, repeats, policy)
         /\ \A s : OneStep(AddStep(b, s, body), body, repeats, policy)
<1>0. DOMAIN b = Fields /\ IsBuilder(b) /\ IsSteps(b.steps) /\ Len(b.steps) = 0
  BY DEF IsBuilder, Plain
<1>1. ASSUME NEW t, t.body = body
      PROVE  Len(Append(b.steps, t)) = 1 /\ Append(b.steps, t)[1].body = body
  <2>1. Len(Append(b.steps, t)) = Len(b.steps) + 1 /\ Append(b.steps, t)[Len(b.steps) + 1] = t
    BY <1>0, StepAdded, Zenon
  <2> QED
    BY <1>0, <1>1, <2>1
<1>2. OneStep(AddStepDefault(b, body), body, repeats, policy)
  <2>1. AddStepDefault(b, body).repeats = b.repeats /\ DefaultStep(body).body = body
    BY <1>0 DEF Fields, AddStepDefault, DefaultStep
  <2>2. /\ IsBuilder(AddStepDefault(b, body))
        /\ AddStepDefault(b, body).steps = Append(b.steps, DefaultStep(body))
        /\ AddStepDefault(b, body).retry_policy = b.retry_policy
    BY <1>0, AddStepType
  <2> QED
    BY <1>1, <2>1, <2>2 DEF OneStep, Plain
<1>3. ASSUME NEW s PROVE OneStep(AddStep(b, s, body), body, repeats, policy)
  <2>1. AddStep(b, s, body).repeats = b.repeats /\ NewStep(s, body).body = body
    BY <1>0 DEF Fields, AddStep, NewStep
  <2>2. /\ IsBuilder(AddStep(b, s, body))
        /\ AddStep(b, s, body).steps = Append(b.steps, NewStep(s, body))
        /\ AddStep(b, s, body).retry_policy = b.retry_policy
    BY <1>0, AddStepType
  <2> QED
    BY <1>1, <2>1, <2>2 DEF OneStep, Plain
<1> QED
  BY <1>2, <1>3

(* The next one comes after it. *)
LEMMA SecondStep ==
  ASSUME NEW b, NEW first, NEW repeats, NEW policy, OneStep(b, first, repeats, policy), NEW body
  PROVE  /\ TwoSteps(AddStepDefault(b, body), first, body, repeats, policy)
         /\ \A s : TwoSteps(AddStep(b, s, body), first, body, repeats, policy)
<1>0. DOMAIN b = Fields /\ IsBuilder(b) /\ IsSteps(b.steps) /\ Len(b.steps) = 1
  BY DEF IsBuilder, OneStep
<1>1. ASSUME NEW t, t.body = body
      PROVE  /\ Len(Append(b.steps, t)) = 2 /\ Append(b.steps, t)[1].body = first
             /\ Append(b.steps, t)[2].body = body
  <2>1. /\ Len(Append(b.steps, t)) = Len(b.steps) + 1
        /\ Append(b.steps, t)[Len(b.steps) + 1] = t
        /\ \A k \in 1..Len(b.steps) : Append(b.steps, t)[k] = b.steps[k]
    BY <1>0, StepAdded, Zenon
  <2>2. Len(b.steps) + 1 = 2 /\ 1 \in 1..Len(b.steps)
    BY <1>0
  <2>3. b.steps[1].body = first
    BY DEF OneStep
  <2> QED
    BY <1>1, <2>1, <2>2, <2>3
<1>2. TwoSteps(AddStepDefault(b, body), first, body, repeats, policy)
  <2>1. AddStepDefault(b, body).repeats = b.repeats /\ DefaultStep(body).body = body
    BY <1>0 DEF Fields, AddStepDefault, DefaultStep
  <2>2. /\ IsBuilder(AddStepDefault(b, body))
        /\ AddStepDefault(b, body).steps = Append(b.steps, DefaultStep(body))
        /\ AddStepDefault(b, body).retry_policy = b.retry_policy
    BY <1>0, AddStepType
  <2> QED
    BY <1>1, <2>1, <2>2 DEF OneStep, TwoSteps
<1>3. ASSUME NEW s PROVE TwoSteps(AddStep(b, s, body), first, body, repeats, policy)
  <2>1. AddStep(b, s, body).repeats = b.repeats /\ NewStep(s, body).body = body
    BY <1>0 DEF Fields, AddStep, NewStep
  <2>2. /\ IsBuilder(AddStep(b, s, body))
        /\ AddStep(b, s, body).steps = Append(b.steps, NewStep(s, body))
        /\ AddStep(b, s, body).retry_policy = b.retry_policy
    BY <1>0, AddStepType
  <2> QED
    BY <1>1, <2>1, <2>2 DEF OneStep, TwoSteps
<1> QED
  BY <1>2, <1>3

(* The retried example allows three retries.                               *)
LEMMA FlakyPolicyAllows == FlakyPolicy \in PolicyType /\ FlakyPolicy.max_retries = 3
<1> DEFINE p == ExponentialPolicy(3, Milli, 2)
           q == WithMaxDelay(p, 10 * Milli)
<1>1. Milli \in Nat /\ 10 * Milli \in Nat /\ "Full" \in Jitters
  BY WidthsAssumption DEF Jitters
<1>2. p \in PolicyType /\ p.max_retries = 3
  BY <1>1, PoliciesAreTyped DEF ExponentialPolicy
<1> HIDE DEF p
<1>3. q \in PolicyType /\ q.max_retries = 3
  <2>1. q \in PolicyType
    BY <1>1, <1>2, PoliciesAreTyped
  <2> QED
    BY <1>2, <2>1 DEF WithMaxDelay, PolicyType
<1> HIDE DEF q
<1>4. WithJitter(q, "Full") \in PolicyType /\ WithJitter(q, "Full").max_retries = 3
  <2>1. WithJitter(q, "Full") \in PolicyType
    BY <1>1, <1>3, PoliciesAreTyped
  <2> QED
    BY <1>3, <2>1 DEF WithJitter, PolicyType
<1> QED
  BY <1>4 DEF FlakyPolicy, p, q

(* The steps, the repeats and the policy of every example.                 *)
LEMMA ExamplesMade ==
  /\ OneStep(SimpleTask, "countdown", {5}, {})
  /\ TwoSteps(OneTask, "hello", "every other", {}, {})
  /\ TwoSteps(ReadMeTask, "hello", "every other", {}, {})
  /\ TwoSteps(BuilderTask, "hello", "hello", {5}, {})
  /\ TwoSteps(ForceRemoveTask, "hello", "every other, then delete", {}, {})
  /\ TwoSteps(GeneratedTask, "hello", "hello", {2}, {})
  /\ TwoSteps(HelpersTask, "hello", "slow", {}, {})
  /\ OneStep(SlowTask, "slow", {}, {})
  /\ OneStep(RetryTask, "flaky", {1}, {FlakyPolicy})
  /\ TwoSteps(PipelineTask, "produce", "consume", {}, {})
  /\ OneStep(ProducerTask, "increment", {}, {})
<1>0. Plain(NewBuilder, {}, {})
  BY NewBuilderType DEF Plain, NewBuilder
<1>1. OneStep(SimpleTask, "countdown", {5}, {})
  BY <1>0, PlainCalls, FirstStep DEF SimpleTask
<1>2. TwoSteps(OneTask, "hello", "every other", {}, {})
  BY <1>0, PlainCalls, FirstStep, SecondStep DEF OneTask
<1>3. TwoSteps(ReadMeTask, "hello", "every other", {}, {})
  BY <1>0, PlainCalls, FirstStep, SecondStep DEF ReadMeTask
<1>4. TwoSteps(BuilderTask, "hello", "hello", {5}, {})
  BY <1>0, PlainCalls, FirstStep, SecondStep DEF BuilderTask
<1>5. TwoSteps(ForceRemoveTask, "hello", "every other, then delete", {}, {})
  BY <1>0, PlainCalls, FirstStep, SecondStep DEF ForceRemoveTask
<1>6. TwoSteps(GeneratedTask, "hello", "hello", {2}, {})
  BY <1>0, PlainCalls, FirstStep, SecondStep DEF GeneratedTask
<1>7. TwoSteps(HelpersTask, "hello", "slow", {}, {})
  BY <1>0, PlainCalls, FirstStep, SecondStep DEF HelpersTask, EverySeconds
<1>8. OneStep(SlowTask, "slow", {}, {})
  BY <1>0, PlainCalls, FirstStep DEF SlowTask
<1>9. OneStep(RetryTask, "flaky", {1}, {FlakyPolicy})
  <2> DEFINE b == TimeoutAfter(Repeat(Description(Every(NewBuilder, EverySecond), "A flaky task"),
                                      1), 20 * Milli)
             c == RetryWith(b, FlakyPolicy)
             d == OnFinish(OnFailure(OnSuccess(c)))
  <2>1. Plain(b, {1}, {})
    BY <1>0, PlainCalls
  <2>2. RetryTask = AddStep(d, "Flaky step", "flaky")
    BY DEF RetryTask
  <2> HIDE DEF b
  <2>3. Plain(c, {1}, {FlakyPolicy})
    BY <2>1, FlakyPolicyAllows, PlainCalls
  <2> HIDE DEF c
  <2>4. Plain(d, {1}, {FlakyPolicy})
    BY <2>3, PlainCalls
  <2> HIDE DEF d
  <2> QED
    BY <2>2, <2>4, FirstStep
<1>10. TwoSteps(PipelineTask, "produce", "consume", {}, {})
  BY <1>0, PlainCalls, FirstStep, SecondStep DEF PipelineTask
<1>11. OneStep(ProducerTask, "increment", {}, {})
  BY <1>0, PlainCalls, FirstStep DEF ProducerTask
<1> QED
  BY <1>1, <1>2, <1>3, <1>4, <1>5, <1>6, <1>7, <1>8, <1>9, <1>10, <1>11

(* What build returns has the steps, the policy and the limits asked for.  *)
LEMMA BuildType ==
  ASSUME NEW b, IsBuilder(b)
  PROVE  /\ Build(b).steps = b.steps
         /\ Build(b).retry_policy = b.retry_policy
         /\ Build(b).history_limit = b.history_limit
         /\ Build(b).timeout = b.timeout
         /\ Build(b).schedule = IF b.schedule # {} THEN CHOOSE s \in b.schedule : TRUE
                                ELSE b.expression
BY DEF Build, NewTask

(* The shape of a task that is built. *)
LEMMA ShapeType ==
  ASSUME NEW b, IsBuilder(b)
  PROVE  /\ Shape(Build(b)) \in [steps : Nat, retries : Nat, timeout : BOOLEAN, limit : Nat]
         /\ Shape(Build(b)).retries > 0 =>
              \E p \in PolicyType : /\ Build(b).retry_policy = {p}
                                    /\ Shape(Build(b)).retries = p.max_retries
<1>1. /\ Build(b).steps = b.steps /\ Build(b).retry_policy = b.retry_policy
      /\ Build(b).history_limit = b.history_limit
  BY BuildType
<1>2. Len(Build(b).steps) \in Nat /\ Build(b).history_limit \in Nat
  BY <1>1, StepAdded DEF IsBuilder
<1>3. CASE Build(b).retry_policy = {}
  BY <1>2, <1>3 DEF Shape
<1>4. ASSUME NEW p \in PolicyType, Build(b).retry_policy = {p}
      PROVE  /\ Shape(Build(b)) \in [steps : Nat, retries : Nat, timeout : BOOLEAN, limit : Nat]
             /\ Shape(Build(b)).retries = p.max_retries
  <2>1. (CHOOSE x \in {p} : TRUE) = p
    OBVIOUS
  <2>2. p.max_retries \in Nat
    BY DEF PolicyType
  <2> QED
    BY <1>2, <1>4, <2>1, <2>2 DEF Shape
<1> QED
  BY <1>1, <1>3, <1>4 DEF IsBuilder, Optional

(* The policies that are tried are policies. *)
LEMMA PoliciesType == Policies \subseteq PolicyType
<1> DEFINE plain == {FixedPolicy(n, b) : n \in Retries, b \in Bases} \union
                    {ExponentialPolicy(n, b, f) : n \in Retries, b \in Bases, f \in Factors}
           capped == plain \union {WithMaxDelay(p, c) : p \in plain, c \in Caps}
<1>0. Bases \subseteq Nat /\ Factors \subseteq Nat /\ Caps \subseteq Nat /\ Retries \subseteq Nat
  BY ProgramsAssumption
<1>1. plain \subseteq PolicyType
  <2>1. \A n \in Retries, b \in Bases : FixedPolicy(n, b) \in PolicyType
    BY <1>0, PoliciesAreTyped
  <2>2. \A n \in Retries, b \in Bases, f \in Factors : ExponentialPolicy(n, b, f) \in PolicyType
    BY <1>0, PoliciesAreTyped
  <2> QED
    BY <2>1, <2>2
<1> HIDE DEF plain
<1>2. capped \subseteq PolicyType
  <2>1. \A p \in plain, c \in Caps : WithMaxDelay(p, c) \in PolicyType
    BY <1>0, <1>1, PoliciesAreTyped
  <2> QED
    BY <1>1, <2>1
<1> HIDE DEF capped
<1>3. \A p \in capped, j \in Jitters : WithJitter(p, j) \in PolicyType
  BY <1>2, PoliciesAreTyped
<1>4. Policies = {WithJitter(p, j) : p \in capped, j \in Jitters}
  BY DEF Policies, capped, plain
<1> QED
  BY <1>3, <1>4

Helpers == {"every_seconds", "every_minutes", "every_hours", "hourly_at", "daily_at"}

(* A helper is a call of every with an expression of its own, which parses *)
(* exactly when the helper's numbers are in the range that it documents.   *)
LEMMA ApplyType ==
  ASSUME NEW b, IsBuilder(b), NEW c, c.helper \in Helpers, c.n \in Nat, c.minute \in Nat
  PROVE  \E cron : /\ Parses(cron) <=> InRange(c)
                   /\ Apply(b, c) = Every(b, cron)
                   /\ Apply(NewBuilder, c) = Every(NewBuilder, cron)
<1>1. CASE c.helper = "every_seconds"
  <2> DEFINE cron == Cron("seconds", c.n)
  <2>1. Parses(cron) <=> InRange(c)
    BY <1>1 DEF Parses, Cron, InRange
  <2>2. \A a : Apply(a, c) = Every(a, cron)
    BY <1>1 DEF Apply, EverySeconds
  <2> QED
    BY <2>1, <2>2
<1>2. CASE c.helper = "every_minutes"
  <2> DEFINE cron == Cron("minutes", c.n)
  <2>1. Parses(cron) <=> InRange(c)
    BY <1>2 DEF Parses, Cron, InRange
  <2>2. \A a : Apply(a, c) = Every(a, cron)
    BY <1>2 DEF Apply, EveryMinutes
  <2> QED
    BY <2>1, <2>2
<1>3. CASE c.helper = "every_hours"
  <2> DEFINE cron == Cron("hours", c.n)
  <2>1. Parses(cron) <=> InRange(c)
    BY <1>3 DEF Parses, Cron, InRange
  <2>2. \A a : Apply(a, c) = Every(a, cron)
    BY <1>3 DEF Apply, EveryHours
  <2> QED
    BY <2>1, <2>2
<1>4. CASE c.helper = "hourly_at"
  <2> DEFINE cron == Cron("hour", c.minute)
  <2>1. Parses(cron) <=> InRange(c)
    BY <1>4 DEF Parses, Cron, InRange
  <2>2. \A a : Apply(a, c) = Every(a, cron)
    BY <1>4 DEF Apply, HourlyAt
  <2> QED
    BY <2>1, <2>2
<1>5. CASE c.helper = "daily_at"
  <2> DEFINE cron == [unit |-> "day", n |-> c.n, minute |-> c.minute]
  <2>1. Parses(cron) <=> InRange(c)
    BY <1>5 DEF Parses, InRange
  <2>2. \A a : Apply(a, c) = Every(a, cron)
    BY <1>5 DEF Apply, DailyAt
  <2> QED
    BY <2>1, <2>2
<1> QED
  BY <1>1, <1>2, <1>3, <1>4, <1>5 DEF Helpers

(* Whatever was called before, the last of the helpers decides whether the *)
(* task is built and with which schedule.                                  *)
LEMMA LastCallDecides ==
  ASSUME NEW b, IsBuilder(b), NEW c, c.helper \in Helpers, c.n \in Nat, c.minute \in Nat
  PROVE  /\ IsBuilder(Apply(b, c))
         /\ Buildable(Apply(b, c)) <=> InRange(c)
         /\ InRange(c) => Build(Apply(b, c)).schedule = Apply(NewBuilder, c).expression
<1>1. PICK cron : /\ Parses(cron) <=> InRange(c)
                  /\ Apply(b, c) = Every(b, cron)
                  /\ Apply(NewBuilder, c) = Every(NewBuilder, cron)
  BY ApplyType
<1>2. /\ IsBuilder(Every(b, cron)) /\ Every(b, cron).expression = cron
      /\ Every(b, cron).schedule = IF Parses(cron) THEN {cron} ELSE {}
  BY EveryType DEF Like
<1>3. Every(NewBuilder, cron).expression = cron
  BY NewBuilderType, EveryType
<1>4. Buildable(Every(b, cron)) <=> Parses(cron)
  BY <1>2 DEF Buildable
<1>5. Parses(cron) => Build(Every(b, cron)).schedule = cron
  <2>1. (CHOOSE s \in {cron} : TRUE) = cron
    OBVIOUS
  <2> QED
    BY <1>2, <2>1, BuildType
<1> QED
  BY <1>1, <1>2, <1>3, <1>4, <1>5

(* The calls that are tried are calls of the helpers. *)
LEMMA HelperCalls ==
  ASSUME NEW c \in Calls
  PROVE  c.helper \in Helpers /\ c.n \in Nat /\ c.minute \in Nat
<1>1. CASE c \in {Call("every_seconds", n, 0) : n \in {0, 59, 60}}
  BY <1>1 DEF Call, Helpers
<1>2. CASE c \in {Call("every_minutes", n, 0) : n \in {0, 59, 60}}
  BY <1>2 DEF Call, Helpers
<1>3. CASE c \in {Call("every_hours", n, 0) : n \in {0, 23, 24}}
  BY <1>3 DEF Call, Helpers
<1>4. CASE c \in {Call("hourly_at", 0, m) : m \in {0, 59, 60}}
  BY <1>4 DEF Call, Helpers
<1>5. CASE c \in {Call("daily_at", h, m) : h \in {0, 23, 24}, m \in {0, 59, 60}}
  <2>1. PICK h \in {0, 23, 24}, m \in {0, 59, 60} : c = Call("daily_at", h, m)
    BY <1>5
  <2> QED
    BY <2>1 DEF Call, Helpers
<1> QED
  BY <1>1, <1>2, <1>3, <1>4, <1>5 DEF Calls

Made == (Calls \X Calls) \union {<<c>> : c \in Calls}

(* One or two calls of the helpers make a builder whose last call decides. *)
LEMMA CronTaskType ==
  ASSUME NEW made \in Made
  PROVE  LET last == made[Len(made)]
         IN  /\ IsBuilder(CronTask(made))
             /\ Buildable(CronTask(made)) <=> InRange(last)
             /\ InRange(last) =>
                  Build(CronTask(made)).schedule = Apply(NewBuilder, last).expression
<1>1. IsBuilder(Repeat(NewBuilder, 1))
  BY NewBuilderType, SettersType DEF Like
<1>2. CASE made \in Calls \X Calls
  <2>1. PICK c \in Calls, d \in Calls : made = <<c, d>>
    BY <1>2
  <2>2. Len(made) = 2 /\ made[1] = c /\ made[2] = d
    BY <2>1
  <2>3. CronTask(made) = Apply(Apply(Repeat(NewBuilder, 1), c), d)
    BY <2>2 DEF CronTask
  <2>4. IsBuilder(Apply(Repeat(NewBuilder, 1), c))
    BY <1>1, HelperCalls, LastCallDecides
  <2> QED
    BY <2>2, <2>3, <2>4, HelperCalls, LastCallDecides
<1>3. CASE made \in {<<c>> : c \in Calls}
  <2>1. PICK c \in Calls : made = <<c>>
    BY <1>3
  <2>2. Len(made) = 1 /\ made[1] = c
    BY <2>1
  <2>3. CronTask(made) = Apply(Repeat(NewBuilder, 1), c)
    BY <2>2 DEF CronTask
  <2> QED
    BY <1>1, <2>2, <2>3, HelperCalls, LastCallDecides
<1> QED
  BY <1>2, <1>3 DEF Made

(* The tasks made for a policy have one step, those made for a schedule    *)
(* have none, and either runs once.                                        *)
LEMMA TriedMade ==
  /\ \A p \in PolicyType : \A body : OneStep(PolicyTask(p, body), body, {1}, {p})
  /\ \A made \in Made : Plain(CronTask(made), {1}, {})
<1>0. Plain(NewBuilder, {}, {})
  BY NewBuilderType DEF Plain, NewBuilder
<1>1. ASSUME NEW p \in PolicyType, NEW body
      PROVE  OneStep(PolicyTask(p, body), body, {1}, {p})
  <2>1. Milli \in Nat
    BY WidthsAssumption
  <2> QED
    BY <1>0, <2>1, PlainCalls, FirstStep DEF PolicyTask
<1>2. ASSUME NEW b, Plain(b, {1}, {}), NEW c \in Calls PROVE Plain(Apply(b, c), {1}, {})
  <2>1. IsBuilder(b) /\ c.helper \in Helpers /\ c.n \in Nat /\ c.minute \in Nat
    BY <1>2, HelperCalls DEF Plain
  <2>2. PICK cron : Apply(b, c) = Every(b, cron)
    BY <2>1, ApplyType
  <2> QED
    BY <1>2, <2>2, PlainCalls
<1>3. ASSUME NEW made \in Made PROVE Plain(CronTask(made), {1}, {})
  <2>1. Plain(Repeat(NewBuilder, 1), {1}, {})
    BY <1>0, PlainCalls
  <2>2. made[1] \in Calls /\ (Len(made) # 1 => made[2] \in Calls)
    BY DEF Made
  <2>3. Plain(Apply(Repeat(NewBuilder, 1), made[1]), {1}, {})
    BY <1>2, <2>1, <2>2
  <2> QED
    BY <1>2, <2>2, <2>3 DEF CronTask
<1> QED
  BY <1>1, <1>3

-----------------------------------------------------------------------------
(* A program is a task of TaskRun.                                         *)

(* What was asked of the builder of each program. *)
Asked(b, name) ==
  /\ name \in DOMAIN Examples \union {"policy", "cron"}
  /\ name = "simple" => OneStep(b, "countdown", {5}, {})
  /\ name \in {"one", "read_me"} => TwoSteps(b, "hello", "every other", {}, {})
  /\ name = "builder" => TwoSteps(b, "hello", "hello", {5}, {})
  /\ name = "force_remove" => TwoSteps(b, "hello", "every other, then delete", {}, {})
  /\ name = "generated" => TwoSteps(b, "hello", "hello", {2}, {})
  /\ name = "helpers" => TwoSteps(b, "hello", "slow", {}, {})
  /\ name = "slow" => OneStep(b, "slow", {}, {})
  /\ name = "retry" => OneStep(b, "flaky", {1}, {FlakyPolicy})
  /\ name = "pipeline" => TwoSteps(b, "produce", "consume", {}, {})
  /\ name = "producer" => OneStep(b, "increment", {}, {})
  /\ name = "policy" =>
       \E body \in {"failing", "hanging"}, p \in PolicyType : OneStep(b, body, {1}, {p})
  /\ name = "cron" => Plain(b, {1}, {})

(* The builder that the task of the program was made with. *)
MadeWith(b) ==
  /\ IsBuilder(b)
  /\ built = IF Buildable(b) THEN {Build(b)} ELSE {}
  /\ built # {} => task = Shape(Build(b))
  /\ Asked(b, program.name)
  /\ program.name = "cron" => asked \in Made /\ b = CronTask(asked)

Described == \E b : MadeWith(b)

(* A task starts with the shape and the repeats of its builder. *)
LEMMA StartsType ==
  ASSUME NEW b, IsBuilder(b), Starts(b), Fresh
  PROVE  /\ Started
         /\ built = IF Buildable(b) THEN {Build(b)} ELSE {}
         /\ built # {} => task = Shape(Build(b))
<1>1. task \in [steps : Nat, retries : Nat, timeout : BOOLEAN, limit : Nat]
  BY NewBuilderType, ShapeType DEF Starts
<1>2. left \in Nat
  <2>1. MaxRuns + 1 \in Nat
    BY BoundsAssumption
  <2>2. b.repeats \in Optional(Nat)
    BY DEF IsBuilder
  <2> QED
    BY <2>1, <2>2 DEF Starts, Optional
<1> QED
  BY <1>1, <1>2 DEF Started, Starts

(* The initial states are those of a task that a builder has made. *)
LEMMA ProgramStarted == ProgramInit => Started /\ \E b : MadeWith(b) /\ Starts(b)
<1> SUFFICES ASSUME ProgramInit PROVE Started /\ \E b : MadeWith(b) /\ Starts(b)
  OBVIOUS
<1>1. ASSUME NEW b, Starts(b), Fresh, IsBuilder(b), Asked(b, program.name),
             program.name = "cron" => asked \in Made /\ b = CronTask(asked)
      PROVE  Started /\ \E c : MadeWith(c) /\ Starts(c)
  BY <1>1, StartsType DEF MadeWith
<1>2. ASSUME NEW name \in DOMAIN Examples, program.name = name, Starts(Examples[name]), Fresh
      PROVE  Started /\ \E b : MadeWith(b) /\ Starts(b)
  <2> DEFINE b == Examples[name]
  <2>0. \/ name = "simple" /\ b = SimpleTask
        \/ name = "one" /\ b = OneTask
        \/ name = "read_me" /\ b = ReadMeTask
        \/ name = "builder" /\ b = BuilderTask
        \/ name = "force_remove" /\ b = ForceRemoveTask
        \/ name = "generated" /\ b = GeneratedTask
        \/ name = "helpers" /\ b = HelpersTask
        \/ name = "slow" /\ b = SlowTask
        \/ name = "retry" /\ b = RetryTask
        \/ name = "pipeline" /\ b = PipelineTask
        \/ name = "producer" /\ b = ProducerTask
    BY DEF Examples
  <2> HIDE DEF b
  <2>1. IsBuilder(b)
    BY <2>0, ExamplesMade DEF OneStep, TwoSteps
  <2>2. Asked(b, name) /\ name # "cron"
    BY <2>0, ExamplesMade DEF Asked
  <2> QED
    BY <1>1, <1>2, <2>1, <2>2 DEF b
<1>3. ASSUME NEW policy \in Policies, NEW body \in {"failing", "hanging"},
             program.name = "policy", Starts(PolicyTask(policy, body)), Fresh
      PROVE  Started /\ \E b : MadeWith(b) /\ Starts(b)
  <2>1. OneStep(PolicyTask(policy, body), body, {1}, {policy}) /\ policy \in PolicyType
    BY PoliciesType, TriedMade
  <2>2. IsBuilder(PolicyTask(policy, body)) /\ Asked(PolicyTask(policy, body), "policy")
    BY <2>1 DEF Asked, OneStep
  <2> QED
    BY <1>1, <1>3, <2>2
<1>4. ASSUME NEW made \in Made, program.name = "cron", asked = made, Starts(CronTask(made)), Fresh
      PROVE  Started /\ \E b : MadeWith(b) /\ Starts(b)
  <2>1. IsBuilder(CronTask(made)) /\ Asked(CronTask(made), "cron")
    BY TriedMade DEF Asked, Plain
  <2> QED
    BY <1>1, <1>4, <2>1
<1> QED
  BY <1>2, <1>3, <1>4 DEF ProgramInit, Made

(* A step of a program is a step of TaskRun or leaves its task alone, and  *)
(* nothing of how it was described changes.                                *)
LEMMA ProgramStep ==
  ASSUME [ProgramNext]_allVars
  PROVE  [Next]_vars /\ UNCHANGED fixed
<1>1. CASE AsInTaskRun
  BY <1>1 DEF AsInTaskRun, Untouched, Next, Proceed, UserCode
<1>2. CASE EnterRun \/ CallStep \/ TimesOut
  BY <1>2 DEF EnterRun, CallStep, TimesOut, Backs, Next, Proceed
<1>3. CASE Succeeds \/ Deletes \/ Fails \/ Reschedules \/ Cancelled
  BY <1>3 DEF Succeeds, Deletes, Fails, Backs, Reschedules, Cancelled, Untouched, Next, UserCode
<1>4. CASE Put \/ Take \/ Fetch \/ Write
  BY <1>4 DEF Put, Take, Fetch, Write
<1>5. CASE OtherFetches \/ OtherWrites \/ OtherSpoils
  BY <1>5 DEF OtherFetches, OtherWrites, OtherSpoils
<1>6. CASE UNCHANGED allVars
  BY <1>6 DEF allVars
<1> QED
  BY <1>1, <1>2, <1>3, <1>4, <1>5, <1>6, [ProgramNext]_allVars DEF ProgramNext

(* What TaskRunProofs shows of a task of TaskRun. *)
TaskInv ==
  TypeOK /\ HistInv /\ StepInv /\ StatusInv /\ CallsInv /\ AttemptInv /\ OutcomeInv

(* A step of a program is one of TaskRun, so it keeps all of that.         *)
LEMMA TaskInvStep ==
  ASSUME TaskInv, [ProgramNext]_allVars
  PROVE  TaskInv'
<1>1. [Next]_vars
  BY ProgramStep
<1> QED
  BY <1>1, TypeStep, HistStep, StepStep, StatusStep, CallsStep, AttemptStep, OutcomeStep DEF TaskInv

(* And a program starts as a task of TaskRun does.                         *)
LEMMA TaskInvCorrect == ProgramSpec => []TaskInv
<1>1. ProgramInit => TaskInv
  BY ProgramStarted, TypeInit, HistInit, StepInit, StatusInit, CallsInit, AttemptInit, OutcomeInit
  DEF TaskInv
<1> QED
  BY <1>1, TaskInvStep, PTL DEF ProgramSpec

(* How the task was described never changes once it runs. *)
LEMMA DescribedStep ==
  ASSUME Described, built # {}, [ProgramNext]_allVars
  PROVE  Described' /\ built' # {}
<1>1. UNCHANGED <<program, asked, built>>
  BY ProgramStep
<1>2. task' = task
  <2>1. [Next]_vars
    BY ProgramStep
  <2> QED
    BY <2>1
    DEF Next, Proceed, UserCode, vars, OpenRecord, SetRunning, Refuse, Enter, BeginAttempt, StepTimesOut,
        EndSteps, ClearRunning, FinishRun, Retire, Publish, Loop, StepSucceeds, StepDeletes,
        StepFails, Notify, Reschedule, Die
<1> QED
  BY <1>1, <1>2 DEF Described, MadeWith

(* A program whose task could not be built does nothing. *)
LEMMA DescribedCorrect == ProgramSpec => []Described
<1>1. ProgramInit => Described
  BY ProgramStarted DEF Described
<1>2. Described /\ [ProgramNext]_allVars => Described'
  <2> SUFFICES ASSUME Described, [ProgramNext]_allVars PROVE Described'
    OBVIOUS
  <2>1. CASE built # {}
    BY <2>1, DescribedStep
  <2>2. CASE built = {}
    <3>1. UNCHANGED allVars
      BY <2>2 DEF ProgramNext
    <3>2. UNCHANGED <<program, asked, built, task>>
      BY <3>1 DEF allVars, vars
    <3> QED
      BY <3>2 DEF Described, MadeWith
  <2> QED
    BY <2>1, <2>2
<1> QED
  BY <1>1, <1>2, PTL DEF ProgramSpec

(* Programs take steps of TaskRun only: the task they run is one of its.   *)
THEOREM ProgramIsTaskRun == ProgramSpec => [][Next]_vars
  BY ProgramStep, PTL DEF ProgramSpec

(* A task has the schedule of the last call of every or a helper, and is   *)
(* not built when that call is out of its documented range, whatever the   *)
(* calls before it asked for.                                              *)
THEOREM LastCallIsSchedule == ProgramSpec => []ScheduleIsLastAsked
<1>1. Described => ScheduleIsLastAsked
  <2> SUFFICES ASSUME NEW b, MadeWith(b), program.name = "cron"
               PROVE  LET last == asked[Len(asked)]
                      IN  /\ built # {} <=> InRange(last)
                          /\ built # {} =>
                               TheTask.schedule = Apply(NewBuilder, last).expression
    BY DEF Described, ScheduleIsLastAsked
  <2>1. b = CronTask(asked) /\ asked \in Made /\ built = IF Buildable(b) THEN {Build(b)} ELSE {}
    BY DEF MadeWith
  <2>2. built # {} <=> InRange(asked[Len(asked)])
    BY <2>1, CronTaskType
  <2>3. CASE built # {}
    <3>1. TheTask = Build(b)
      BY <2>1, <2>3 DEF TheTask
    <3> QED
      BY <2>1, <2>2, <2>3, <3>1, CronTaskType
  <2> QED
    BY <2>2, <2>3
<1> QED
  BY <1>1, DescribedCorrect, PTL

-----------------------------------------------------------------------------
(* The wait and the context of an attempt.                                 *)

(* A task waits for a retry only if it has a policy, and for a delay that  *)
(* this policy gives.                                                      *)
WaitInv ==
  /\ wait \in Nat
  /\ pc = "delay" =>
       /\ built # {} /\ TheTask.retry_policy # {}
       /\ wait \in JitteredDelay(Policy, attempt - 1)

(* Only a task with a policy has retries, and they are those of the policy. *)
LEMMA RetriesArePolicy ==
  ASSUME Described, built # {}, task.retries > 0
  PROVE  TheTask.retry_policy # {} /\ Policy \in PolicyType
<1>1. PICK b : MadeWith(b)
  BY DEF Described
<1>2. TheTask = Build(b) /\ task = Shape(Build(b)) /\ IsBuilder(b)
  BY <1>1 DEF MadeWith, TheTask
<1>3. PICK p \in PolicyType : Build(b).retry_policy = {p}
  BY <1>2, ShapeType
<1>4. (CHOOSE q \in {p} : TRUE) = p
  OBVIOUS
<1> QED
  BY <1>2, <1>3, <1>4 DEF Policy

(* What a step that has failed leaves as the wait. *)
LEMMA WaitDrawn ==
  ASSUME TaskInv, Described, built # {}, Fails \/ TimesOut
  PROVE  WaitInv'
<1>1. /\ pc = "attempt" /\ FailAttempt /\ attempt' = attempt /\ UNCHANGED fixed
      /\ wait' \in IF pc' = "delay" THEN JitteredDelay(Policy, attempt - 1) ELSE {0}
  BY DEF Fails, TimesOut, StepFails, StepTimesOut, Backs
<1>2. attempt \in Nat \ {0} /\ attempt - 1 \in Nat /\ task.retries \in Nat
  BY <1>1 DEF TaskInv, TypeOK, AttemptInv
<1>3. CASE pc' = "delay"
  <2>1. attempt < 1 + task.retries
    BY <1>1, <1>3 DEF FailAttempt, RetriesLeft, Attempts
  <2>2. TheTask.retry_policy # {} /\ Policy \in PolicyType
    <3>1. task.retries > 0
      BY <1>2, <2>1
    <3> QED
      BY <3>1, RetriesArePolicy
  <2>3. wait' \in JitteredDelay(Policy, attempt - 1)
    BY <1>1, <1>3
  <2>4. wait' \in Nat
    BY <1>2, <2>2, <2>3, DelayIsDocumented
  <2>5. built' = built /\ TheTask' = TheTask /\ Policy' = Policy
    BY <1>1 DEF TheTask, Policy
  <2> QED
    BY <1>1, <2>2, <2>3, <2>4, <2>5 DEF WaitInv
<1>4. CASE pc' # "delay"
  BY <1>1, <1>4 DEF WaitInv
<1> QED
  BY <1>3, <1>4

(* No other step begins a wait or changes it. *)
LEMMA WaitStep ==
  ASSUME TaskInv, Described, WaitInv, [ProgramNext]_allVars
  PROVE  WaitInv'
<1>1. CASE ProgramNext /\ (Fails \/ TimesOut)
  BY <1>1, WaitDrawn DEF ProgramNext
<1>2. CASE AsInTaskRun
  <2>1. pc' # "delay" /\ wait' = wait
    BY <1>2
    DEF AsInTaskRun, Untouched, OpenRecord, SetRunning, Refuse, EndSteps, Notify, ClearRunning,
        FinishRun, Retire, Publish, Loop
  <2> QED
    BY <2>1 DEF WaitInv
<1>3. CASE EnterRun \/ CallStep \/ Succeeds \/ Deletes \/ Reschedules \/ Cancelled
  <2>1. pc' # "delay" /\ wait' \in {0, wait}
    BY <1>3
    DEF EnterRun, CallStep, Succeeds, Deletes, Reschedules, Cancelled, Untouched, Enter,
        BeginAttempt, StepSucceeds, StepDeletes, Reschedule, Die
  <2> QED
    BY <2>1 DEF WaitInv
<1>4. CASE \/ Put \/ Take \/ Fetch \/ Write \/ OtherFetches \/ OtherWrites \/ OtherSpoils
           \/ UNCHANGED allVars
  <2>1. UNCHANGED <<pc, attempt, wait, built>>
    BY <1>4 DEF Put, Take, Fetch, Write, OtherFetches, OtherWrites, OtherSpoils, allVars, vars
  <2>2. TheTask' = TheTask /\ Policy' = Policy
    BY <2>1 DEF TheTask, Policy
  <2> QED
    BY <2>1, <2>2 DEF WaitInv
<1> QED
  BY <1>1, <1>2, <1>3, <1>4, [ProgramNext]_allVars DEF ProgramNext

(* Before the first run nobody waits. *)
LEMMA WaitCorrect == ProgramSpec => []WaitInv
<1>1. ProgramInit => WaitInv
  BY DEF ProgramInit, Fresh, WaitInv
<1> QED
  BY <1>1, WaitStep, TaskInvCorrect, DescribedCorrect, PTL DEF ProgramSpec

(* Whatever the policy, the wait before a retry is the documented one, but *)
(* for the truncation to milliseconds, the saturation and the jitter.      *)
THEOREM DelayKeepsPromise == ProgramSpec => []DelaysAsDocumented
<1>1. TaskInv /\ Described /\ WaitInv => DelaysAsDocumented
  <2> SUFFICES ASSUME TaskInv, Described, WaitInv, pc = "delay" PROVE DelaysAsDocumented
    BY DEF DelaysAsDocumented
  <2>1. /\ built # {} /\ wait \in JitteredDelay(Policy, attempt - 1)
        /\ attempt - 1 \in Nat /\ task.retries > 0
    BY DEF WaitInv, TaskInv, TypeOK, AttemptInv, Attempts
  <2>2. Policy \in PolicyType
    BY <2>1, RetriesArePolicy
  <2>3. LET high == Min({Policy.base * Growth(Policy, attempt - 1)} \union Policy.max)
            low  == Min({Whole(Policy, attempt - 1)} \union Policy.max)
        IN  /\ wait <= high
            /\ Policy.jitter = "None" => wait >= low
            /\ Policy.jitter = "Equal" => wait >= Min({low, MaxU64}) \div 2
    BY <2>1, <2>2, DelayIsDocumented
  <2> QED
    BY <2>3 DEF DelaysAsDocumented, Growth, Whole
<1> QED
  BY <1>1, TaskInvCorrect, DescribedCorrect, WaitCorrect, PTL

Contexts == [run_id : Nat, step_index : Nat, attempt : Nat]
NoContext == [run_id |-> 0, step_index |-> 0, attempt |-> 0]

(* The context is that of the present attempt while there is one, and of   *)
(* an earlier one otherwise.                                               *)
ContextInv ==
  /\ ctx \in Contexts
  /\ ctx = NoContext \/ ctx.run_id < runs
  /\ pc \in {"opened", "enter"} => ctx.run_id < runId \/ (ctx = NoContext /\ runId = 0)
  /\ pc = "next" => Later(ctx, [run_id |-> runId, step_index |-> index - 1, attempt |-> 1])
  /\ pc \in {"attempt", "delay"} =>
       ctx = [run_id |-> runId, step_index |-> index - 1, attempt |-> attempt]

(* The first attempt of a step, and every further one, get contexts that   *)
(* are later than all before.                                              *)
LEMMA ContextCall ==
  ASSUME TaskInv, ContextInv, CallStep
  PROVE  /\ ContextInv'
         /\ Later(ctx, ctx')
         /\ ctx'.attempt = 1 \/ ctx' = [ctx EXCEPT !.attempt = @ + 1]
         /\ ctx'.attempt <= Attempts
<1>1. /\ pc \in {"next", "delay"} /\ pc' = "attempt" /\ index \in Step /\ attempt' = attempt + 1
      /\ UNCHANGED <<runId, runs, index>>
      /\ ctx' = [run_id |-> runId, step_index |-> index - 1, attempt |-> attempt + 1]
  BY DEF CallStep, BeginAttempt, Context
<1>2. /\ runId \in Nat /\ runs \in Nat /\ attempt \in Nat /\ index - 1 \in Nat /\ index \in Nat
      /\ task.retries \in Nat
  BY <1>1 DEF TaskInv, TypeOK, Step
<1>3. runId < runs
  BY <1>1, <1>2 DEF TaskInv, HistInv, OpenPhases, Running
<1>4. ctx' \in Contexts
  BY <1>1, <1>2 DEF Contexts
<1>5. ContextInv'
  BY <1>1, <1>3, <1>4 DEF ContextInv
<1>6. CASE pc = "next"
  <2>1. attempt = 0
    BY <1>6 DEF TaskInv, AttemptInv
  <2>2. ctx' = [run_id |-> runId, step_index |-> index - 1, attempt |-> 1]
    BY <1>1, <2>1
  <2>3. Later(ctx, ctx')
    BY <1>6, <2>2 DEF ContextInv
  <2>4. ctx'.attempt = 1 /\ 1 <= Attempts
    BY <1>2, <2>2 DEF Attempts
  <2> QED
    BY <1>5, <2>3, <2>4
<1>7. CASE pc = "delay"
  <2>1. /\ attempt <= Attempts - 1 /\ Attempts \in Nat
        /\ ctx = [run_id |-> runId, step_index |-> index - 1, attempt |-> attempt]
    BY <1>2, <1>7 DEF TaskInv, AttemptInv, ContextInv, Attempts
  <2>2. ctx' = [ctx EXCEPT !.attempt = @ + 1]
    BY <1>1, <2>1
  <2>3. ctx'.attempt = attempt + 1 /\ attempt + 1 <= Attempts
    BY <1>1, <1>2, <2>1
  <2> QED
    BY <1>5, <2>2, <2>3 DEF Later
<1> QED
  BY <1>1, <1>6, <1>7

(* No other step touches the context, and what it leaves is earlier than   *)
(* the next attempt's.                                                     *)
LEMMA ContextStep ==
  ASSUME TaskInv, ContextInv, [ProgramNext]_allVars
  PROVE  ContextInv'
<1>0. /\ runId \in Nat /\ runs \in Nat /\ index \in Nat /\ index \in 1..task.steps + 1
      /\ ctx \in Contexts /\ ctx.run_id \in Nat /\ ctx.step_index \in Nat
      /\ ctx = NoContext \/ ctx.run_id < runs
      /\ pc \in OpenPhases => runId = runs - 1 /\ runs > 0
  BY DEF TaskInv, TypeOK, StepInv, HistInv, ContextInv, Contexts
<1>1. CASE CallStep
  BY <1>1, ContextCall
<1>2. CASE OpenRecord /\ Untouched
  <2>1. ctx' = ctx /\ pc' = "opened" /\ runId' = runs /\ runs' = runs + 1
    BY <1>2 DEF OpenRecord, Untouched
  <2>2. ctx.run_id < runs \/ (ctx = NoContext /\ runs = 0)
    <3>1. CASE ctx = NoContext
      <4>1. ctx.run_id = 0
        BY <3>1 DEF NoContext
      <4> QED
        BY <1>0, <3>1, <4>1
    <3> QED
      BY <1>0, <3>1
  <2> QED
    BY <1>0, <2>1, <2>2 DEF ContextInv
<1>3. CASE SetRunning /\ Untouched
  <2>1. ctx' = ctx /\ pc = "opened" /\ pc' = "enter" /\ UNCHANGED <<runId, runs>>
    BY <1>3 DEF SetRunning, Untouched
  <2> QED
    BY <2>1 DEF ContextInv
<1>4. CASE EnterRun
  <2>1. ctx' = ctx /\ pc = "enter" /\ pc' = "next" /\ index' = 1 /\ UNCHANGED <<runId, runs>>
    BY <1>4 DEF EnterRun, Enter
  <2>2. ctx.run_id < runId \/ (ctx = NoContext /\ runId = 0)
    BY <2>1 DEF ContextInv
  <2>3. Later(ctx, [run_id |-> runId, step_index |-> 0, attempt |-> 1])
    <3>1. CASE ctx = NoContext /\ runId = 0
      <4>1. [NoContext EXCEPT !.attempt = @ + 1] = [run_id |-> 0, step_index |-> 0, attempt |-> 1]
        BY DEF NoContext
      <4> QED
        BY <3>1, <4>1 DEF Later
    <3>2. CASE ctx.run_id < runId
      BY <3>2 DEF Later
    <3> QED
      BY <2>2, <3>1, <3>2
  <2> QED
    BY <1>0, <2>1, <2>3 DEF ContextInv
<1>5. CASE Succeeds
  <2>1. /\ ctx' = ctx /\ pc = "attempt" /\ pc' = "next" /\ index' = index + 1
        /\ UNCHANGED <<runId, runs>>
    BY <1>5 DEF Succeeds, StepSucceeds, Untouched
  <2>2. ctx.run_id = runId /\ ctx.step_index = index - 1
    BY <2>1 DEF ContextInv
  <2>3. Later(ctx, [run_id |-> runId, step_index |-> (index + 1) - 1, attempt |-> 1])
    BY <1>0, <2>2 DEF Later
  <2> QED
    BY <1>0, <2>1, <2>3 DEF ContextInv
<1>6. CASE Fails \/ TimesOut
  <2>1. /\ ctx' = ctx /\ pc = "attempt" /\ pc' \in {"delay", "end"}
        /\ UNCHANGED <<runId, runs, index, attempt>>
    BY <1>6 DEF Fails, TimesOut, StepFails, StepTimesOut, FailAttempt, Backs
  <2> QED
    BY <2>1 DEF ContextInv
<1>7. CASE \/ Deletes \/ Reschedules \/ Cancelled
           \/ /\ Refuse \/ EndSteps \/ Notify \/ ClearRunning \/ FinishRun \/ Retire \/ Publish \/ Loop
              /\ Untouched
  <2>1. /\ ctx' = ctx /\ UNCHANGED runs
        /\ pc' \notin {"opened", "enter", "next", "attempt", "delay"}
    BY <1>7
    DEF Deletes, Reschedules, Cancelled, Untouched, StepDeletes, Reschedule, Die, Refuse, EndSteps,
        Notify, ClearRunning, FinishRun, Retire, Publish, Loop
  <2> QED
    BY <2>1 DEF ContextInv
<1>8. CASE \/ Put \/ Take \/ Fetch \/ Write \/ OtherFetches \/ OtherWrites \/ OtherSpoils
           \/ UNCHANGED allVars
  <2>1. UNCHANGED <<ctx, pc, runId, runs, index, attempt>>
    BY <1>8 DEF Put, Take, Fetch, Write, OtherFetches, OtherWrites, OtherSpoils, allVars, vars
  <2> QED
    BY <2>1 DEF ContextInv
<1> QED
  BY <1>1, <1>2, <1>3, <1>4, <1>5, <1>6, <1>7, <1>8, [ProgramNext]_allVars
  DEF ProgramNext, AsInTaskRun

(* Before the first attempt there is no context. *)
LEMMA ContextCorrect == ProgramSpec => []ContextInv
<1>1. ProgramInit => ContextInv
  <2> SUFFICES ASSUME ProgramInit PROVE ContextInv
    OBVIOUS
  <2>1. ctx = NoContext /\ pc = "idle"
    BY DEF ProgramInit, Fresh, NoContext
  <2>2. NoContext \in Contexts
    BY DEF NoContext, Contexts
  <2> QED
    BY <2>1, <2>2 DEF ContextInv
<1> QED
  BY <1>1, ContextStep, TaskInvCorrect, PTL DEF ProgramSpec

(* No two attempts of a task get the same context: runs, steps and         *)
(* attempts are passed in order, attempts from 1 on and at most            *)
(* 1 + max_retries of them.                                                *)
THEOREM ContextsAreInOrder == ProgramSpec => ContextsInOrder
<1>1. ASSUME TaskInv, ContextInv, [ProgramNext]_allVars
      PROVE  [ctx' # ctx \/ attempt' > attempt =>
                /\ Later(ctx, ctx')
                /\ ctx'.attempt = 1 \/ ctx' = [ctx EXCEPT !.attempt = @ + 1]
                /\ ctx'.attempt <= Attempts]_allVars
  <2>1. CASE CallStep
    BY <1>1, <2>1, ContextCall
  <2>2. CASE AsInTaskRun \/ EnterRun \/ Succeeds \/ Deletes \/ Fails \/ TimesOut
    <3>1. ctx' = ctx /\ attempt' \in {0, attempt}
      BY <2>2
      DEF AsInTaskRun, Untouched, OpenRecord, SetRunning, Refuse, EndSteps, Notify, ClearRunning,
          FinishRun, Retire, Publish, Loop, EnterRun, Enter, Succeeds, StepSucceeds, Deletes,
          StepDeletes, Fails, StepFails, TimesOut, StepTimesOut, Backs
    <3>2. ~(attempt' > attempt)
      BY <1>1, <3>1 DEF TaskInv, TypeOK
    <3> QED
      BY <3>1, <3>2
  <2>3. CASE Reschedules \/ Cancelled \/ Put \/ Take \/ Fetch \/ Write \/ OtherFetches
             \/ OtherWrites \/ OtherSpoils \/ UNCHANGED allVars
    <3>1. ctx' = ctx /\ attempt' = attempt
      BY <2>3
      DEF Reschedules, Cancelled, Untouched, Reschedule, Die, Put, Take, Fetch, Write,
          OtherFetches, OtherWrites, OtherSpoils, allVars, vars
    <3>2. ~(attempt' > attempt)
      BY <1>1, <3>1 DEF TaskInv, TypeOK
    <3> QED
      BY <3>1, <3>2
  <2> QED
    BY <1>1, <2>1, <2>2, <2>3 DEF ProgramNext
<1> QED
  BY <1>1, TaskInvCorrect, ContextCorrect, PTL DEF ProgramSpec, ContextsInOrder

-----------------------------------------------------------------------------
(* The store of a run and the board.                                       *)

(* How far a step has come. *)
LineInv ==
  /\ line \in 1..4
  /\ pc = "attempt" => line \in 1..Len(Ops) + 1

Numbers(b) == \A k \in DOMAIN b : b[k].type = "u32" => b[k].is \in Nat

(* The store and the board hold numbers, and so does who computes them.    *)
ValueInv ==
  /\ {count, total, value, writes} \subseteq Nat
  /\ \A k \in DOMAIN store : store[k].is \in Nat
  /\ Numbers(board)
  /\ other \in [left : 0..MaxOther, holds : BOOLEAN, total : Nat]
  /\ other.holds => other.left > 0

(* What was set is there, and nothing is on a new board. *)
LEMMA BoardCalls ==
  ASSUME NEW b, NEW k, NEW n
  PROVE  /\ GetOr(Set(b, k, Value("u32", n)), k, Zero) = n
         /\ Get(Set(b, k, Value("u32", n)), k, "u32") = {n}
         /\ Get(NewBoard, k, "u32") = {}
<1>1. LET v == Value("u32", n)
      IN  k \in DOMAIN Set(b, k, v) /\ Set(b, k, v)[k] = v
  BY DEF Set
<1>2. /\ GetOr(Set(b, k, Value("u32", n)), k, Zero) = n
      /\ Get(Set(b, k, Value("u32", n)), k, "u32") = {n}
  BY <1>1 DEF GetOr, Get, Value, Zero
<1>3. Get(NewBoard, k, "u32") = {}
  BY DEF Get, NewBoard
<1> QED
  BY <1>2, <1>3

(* The default leaves a number that is there as it is; a key that was      *)
(* removed, or holds something else, counts for zero.                      *)
LEMMA BoardDefaults ==
  ASSUME NEW b, NEW k
  PROVE  /\ GetOr(Inserted(b, k, Zero), k, Zero) = GetOr(b, k, Zero)
         /\ GetOr(Remove(b, k), k, Zero) = 0
         /\ GetOr(Set(b, k, Value("String", "")), k, Zero) = 0
<1>1. ASSUME NEW v PROVE k \in DOMAIN Set(b, k, v) /\ Set(b, k, v)[k] = v
  BY DEF Set
<1>2. Zero.type = "u32" /\ Zero.is = 0
  BY DEF Zero, Value
<1>3. GetOr(Inserted(b, k, Zero), k, Zero) = GetOr(b, k, Zero)
  BY <1>1, <1>2 DEF Inserted, GetOr, Get
<1>4. GetOr(Remove(b, k), k, Zero) = 0
  <2>1. k \notin DOMAIN Remove(b, k)
    BY DEF Remove, Restrict
  <2> QED
    BY <1>2, <2>1 DEF GetOr, Get
<1>5. GetOr(Set(b, k, Value("String", "")), k, Zero) = 0
  <2> DEFINE v == Value("String", "")
  <2>1. v.type = "String"
    BY DEF Value
  <2> HIDE DEF v
  <2>2. Get(Set(b, k, v), k, "u32") = {}
    BY <1>1, <2>1 DEF Get
  <2>3. GetOr(Set(b, k, v), k, Zero) = 0
    BY <1>2, <2>2 DEF GetOr
  <2> QED
    BY <2>3 DEF v
<1> QED
  BY <1>3, <1>4, <1>5

(* A board of numbers stays one, and gives numbers. *)
LEMMA BoardNumbers ==
  ASSUME NEW b, Numbers(b), NEW k
  PROVE  /\ GetOr(b, k, Zero) \in Nat
         /\ \A n \in Nat : Numbers(Set(b, k, Value("u32", n)))
         /\ Numbers(Set(b, k, Value("String", "")))
         /\ Numbers(Inserted(b, k, Zero))
         /\ Numbers(Remove(b, k))
<1>1. GetOr(b, k, Zero) \in Nat
  BY DEF GetOr, Get, Numbers, Zero, Value
<1>2. ASSUME NEW v, v.type = "u32" => v.is \in Nat PROVE Numbers(Set(b, k, v))
  BY <1>2 DEF Numbers, Set
<1>3. /\ \A n \in Nat : Numbers(Set(b, k, Value("u32", n)))
      /\ Numbers(Set(b, k, Value("String", "")))
      /\ Numbers(Set(b, k, Zero))
  BY <1>2 DEF Value, Zero
<1>4. Numbers(Inserted(b, k, Zero))
  BY <1>3 DEF Inserted
<1>5. Numbers(Remove(b, k))
  BY DEF Numbers, Remove, Restrict
<1> QED
  BY <1>1, <1>3, <1>4, <1>5

(* A body makes at most three calls, one after the other. *)
LEMMA OpsType ==
  /\ Len(Ops) \in 0..3 /\ DOMAIN Ops = 1..Len(Ops)
  /\ Len(Ops)' \in 0..3 /\ DOMAIN Ops' = 1..Len(Ops')
<1>1. Ops \in {<<"put">>, <<"take", "fetch", "write">>, <<"fetch", "write">>, <<>>}
  BY DEF Ops
<1>2. Ops' \in {<<"put">>, <<"take", "fetch", "write">>, <<"fetch", "write">>, <<>>}
  BY DEF Ops
<1>3. \A s \in {<<"put">>, <<"take", "fetch", "write">>, <<"fetch", "write">>, <<>>} :
        Len(s) \in 0..3 /\ DOMAIN s = 1..Len(s)
  OBVIOUS
<1> QED
  BY <1>1, <1>2, <1>3

(* Each step is called from its first line on and goes on line by line. *)
LEMMA LineStep ==
  ASSUME LineInv, [ProgramNext]_allVars
  PROVE  LineInv'
<1>0. UNCHANGED built
  BY ProgramStep
<1>1. CASE CallStep
  <2>1. line' = 1
    BY <1>1 DEF CallStep
  <2> QED
    BY <2>1, OpsType DEF LineInv
<1>2. CASE Put \/ Take \/ Fetch \/ Write
  <2>1. line \in DOMAIN Ops /\ line' = line + 1 /\ UNCHANGED <<pc, index>>
    BY <1>2 DEF Put, Take, Fetch, Write, Op, vars
  <2>2. Ops' = Ops
    BY <1>0, <2>1 DEF Ops, Body, TheTask
  <2> QED
    BY <2>1, <2>2, OpsType DEF LineInv
<1>3. CASE AsInTaskRun \/ EnterRun \/ Succeeds \/ Deletes \/ Fails \/ TimesOut \/ Reschedules
           \/ Cancelled
  <2>1. line' = line /\ pc' # "attempt"
    BY <1>3
    DEF AsInTaskRun, Untouched, OpenRecord, SetRunning, Refuse, EndSteps, Notify, ClearRunning,
        FinishRun, Retire, Publish, Loop, EnterRun, Enter, Succeeds, StepSucceeds, Deletes,
        StepDeletes, Fails, StepFails, TimesOut, StepTimesOut, FailAttempt, Backs, Reschedules,
        Reschedule, Cancelled, Die
  <2> QED
    BY <2>1 DEF LineInv
<1>4. CASE OtherFetches \/ OtherWrites \/ OtherSpoils \/ UNCHANGED allVars
  <2>1. UNCHANGED <<line, pc, index>>
    BY <1>4 DEF OtherFetches, OtherWrites, OtherSpoils, allVars, vars
  <2>2. Ops' = Ops
    BY <1>0, <2>1 DEF Ops, Body, TheTask
  <2> QED
    BY <2>1, <2>2 DEF LineInv
<1> QED
  BY <1>1, <1>2, <1>3, <1>4, [ProgramNext]_allVars DEF ProgramNext

(* Before the first run the line is the first.                             *)
LEMMA LineCorrect == ProgramSpec => []LineInv
<1>1. ProgramInit => LineInv
  BY DEF ProgramInit, Fresh, LineInv
<1> QED
  BY <1>1, LineStep, PTL DEF ProgramSpec

(* What the steps compute, keep and share are numbers. *)
LEMMA ValueStep ==
  ASSUME ValueInv, ContextInv, [ProgramNext]_allVars
  PROVE  ValueInv'
<1>0. /\ count \in Nat /\ total \in Nat /\ value \in Nat /\ writes \in Nat
      /\ Numbers(board) /\ other.total \in Nat /\ MaxOther \in Nat
      /\ GetOr(board, Key, Zero) \in Nat /\ GetOr(store, "value", Zero) \in Nat
      /\ Numbers(Inserted(board, Key, Zero))
      /\ ctx.run_id \in Nat
  <2>1. GetOr(store, "value", Zero) \in Nat
    BY DEF ValueInv, GetOr, Get, Zero, Value
  <2> QED
    BY <2>1, BoardNumbers, ProgramsAssumption DEF ValueInv, ContextInv, Contexts
<1>1. CASE Put
  <2>1. /\ store' = Set(store, "value", Value("u32", (ctx.run_id + 1) * 10))
        /\ UNCHANGED <<count, total, value, writes, board, other>>
    BY <1>1 DEF Put
  <2>2. \A k \in DOMAIN store' : store'[k].is \in Nat
    <3>1. Value("u32", (ctx.run_id + 1) * 10).is \in Nat
      BY <1>0 DEF Value
    <3> QED
      BY <2>1, <3>1 DEF ValueInv, Set
  <2> QED
    BY <2>1, <2>2 DEF ValueInv
<1>2. CASE Take
  <2>1. value' \in Nat /\ UNCHANGED <<count, total, store, writes, board, other>>
    BY <1>0, <1>2 DEF Take
  <2> QED
    BY <2>1 DEF ValueInv
<1>3. CASE Fetch
  <2>1. /\ total' \in Nat /\ Numbers(board')
        /\ UNCHANGED <<count, value, store, writes, other>>
    BY <1>0, <1>3 DEF Fetch
  <2> QED
    BY <2>1 DEF ValueInv
<1>4. CASE Write
  <2>1. /\ writes' \in Nat /\ Numbers(board')
        /\ UNCHANGED <<count, total, value, store, other>>
    <3>1. /\ writes' = writes + 1 /\ board' = Set(board, Key, Value("u32", total))
          /\ UNCHANGED <<count, total, value, store, other>>
      BY <1>4 DEF Write
    <3>2. Numbers(Set(board, Key, Value("u32", total)))
      BY <1>0, BoardNumbers
    <3> QED
      BY <1>0, <3>1, <3>2
  <2> QED
    BY <2>1 DEF ValueInv
<1>5. CASE OtherFetches
  <2>1. /\ Numbers(board') /\ UNCHANGED <<count, total, value, store, writes>>
        /\ other' = [other EXCEPT !.holds = TRUE, !.total = GetOr(board, Key, Zero) + 1]
    BY <1>0, <1>5 DEF OtherFetches
  <2>2. other' = [left |-> other.left, holds |-> TRUE, total |-> GetOr(board, Key, Zero) + 1]
    BY <2>1 DEF ValueInv
  <2>3. other' \in [left : 0..MaxOther, holds : BOOLEAN, total : Nat] /\ other'.left > 0
    <3>1. other.left \in 0..MaxOther /\ other.left > 0 /\ GetOr(board, Key, Zero) + 1 \in Nat
      BY <1>0, <1>5 DEF ValueInv, OtherFetches
    <3> QED
      BY <2>2, <3>1
  <2> QED
    BY <2>1, <2>3 DEF ValueInv
<1>6. CASE OtherWrites
  <2>1. /\ Numbers(board') /\ UNCHANGED <<count, total, value, store>> /\ writes' \in Nat
        /\ other' = [left |-> other.left - 1, holds |-> FALSE, total |-> 0]
    <3>1. /\ writes' = writes + 1 /\ board' = Set(board, Key, Value("u32", other.total))
          /\ UNCHANGED <<count, total, value, store>> /\ other.holds
          /\ other' = [left |-> other.left - 1, holds |-> FALSE, total |-> 0]
      BY <1>6 DEF OtherWrites
    <3>2. Numbers(Set(board, Key, Value("u32", other.total)))
      BY <1>0, BoardNumbers
    <3> QED
      BY <1>0, <3>1, <3>2
  <2>2. other.left - 1 \in 0..MaxOther
    BY <1>0, <1>6 DEF ValueInv, OtherWrites
  <2>3. other' \in [left : 0..MaxOther, holds : BOOLEAN, total : Nat] /\ ~other'.holds
    BY <2>1, <2>2
  <2> QED
    BY <2>1, <2>3 DEF ValueInv
<1>7. CASE OtherSpoils
  <2>1. /\ Numbers(board') /\ UNCHANGED <<count, total, value, store, writes>>
        /\ other.left > 0 /\ ~other.holds /\ other' = [other EXCEPT !.left = @ - 1]
    BY <1>0, <1>7, BoardNumbers DEF OtherSpoils
  <2>2. other' \in [left : 0..MaxOther, holds : BOOLEAN, total : Nat] /\ ~other'.holds
    BY <1>0, <2>1 DEF ValueInv
  <2> QED
    BY <2>1, <2>2 DEF ValueInv
<1>8. CASE EnterRun \/ CallStep
  <2>1. /\ store' \in {store, NewBoard} /\ count' \in {count, count + 1} /\ value' \in {0, value}
        /\ total' \in {0, total} /\ UNCHANGED <<writes, board, other>>
    BY <1>8 DEF EnterRun, FreshStore, CallStep
  <2>2. \A k \in DOMAIN store' : store'[k].is \in Nat
    BY <2>1 DEF ValueInv, NewBoard
  <2>3. count' \in Nat /\ value' \in Nat /\ total' \in Nat
    BY <1>0, <2>1
  <2> QED
    BY <2>1, <2>2, <2>3 DEF ValueInv
<1>9. CASE AsInTaskRun \/ Succeeds \/ Deletes \/ Fails \/ TimesOut \/ Reschedules \/ Cancelled
           \/ UNCHANGED allVars
  <2>1. UNCHANGED <<count, total, value, store, writes, board, other>>
    BY <1>9
    DEF AsInTaskRun, Untouched, Succeeds, Deletes, Fails, TimesOut, Backs, Reschedules, Cancelled,
        allVars
  <2> QED
    BY <2>1 DEF ValueInv
<1> QED
  BY <1>1, <1>2, <1>3, <1>4, <1>5, <1>6, <1>7, <1>8, <1>9, [ProgramNext]_allVars DEF ProgramNext

(* At the start all of them are zero, and the store and board are empty.   *)
LEMMA ValueCorrect == ProgramSpec => []ValueInv
<1>1. ProgramInit => ValueInv
  <2> SUFFICES ASSUME ProgramInit PROVE ValueInv
    OBVIOUS
  <2>1. /\ count = 0 /\ total = 0 /\ value = 0 /\ writes = 0
        /\ store = NewBoard /\ board = NewBoard
        /\ other = [left |-> MaxOther, holds |-> FALSE, total |-> 0]
    BY DEF ProgramInit
  <2>2. MaxOther \in 0..MaxOther
    BY ProgramsAssumption
  <2>3. DOMAIN NewBoard = {}
    BY DEF NewBoard
  <2> QED
    BY <2>1, <2>2, <2>3 DEF ValueInv, Numbers
<1> QED
  BY <1>1, ValueStep, ContextCorrect, PTL DEF ProgramSpec

(* What the library hands to the steps, and what they make of it, has the  *)
(* types that they expect.                                                 *)
THEOREM ProgramTypes == ProgramSpec => []ProgramTypeOK
<1>1. ValueInv /\ LineInv /\ ContextInv /\ WaitInv => ProgramTypeOK
  BY DEF ProgramTypeOK, ValueInv, LineInv, ContextInv, WaitInv, Contexts, Numbers
<1> QED
  BY <1>1, ValueCorrect, LineCorrect, ContextCorrect, WaitCorrect, PTL

OnABoard == program.name \in {"pipeline", "producer"}

(* Which step of the two tasks makes which calls. *)
LEMMA BoardSteps ==
  ASSUME Described, built # {}
  PROVE  /\ program.name = "pipeline" =>
              /\ task.steps = 2
              /\ index = 1 => Body = "produce" /\ Ops = <<"put">>
              /\ index = 2 => Body = "consume" /\ Ops = <<"take", "fetch", "write">>
         /\ program.name = "producer" =>
              /\ task.steps = 1
              /\ index = 1 => Body = "increment" /\ Ops = <<"fetch", "write">>
<1>1. PICK b : MadeWith(b)
  BY DEF Described
<1>2. TheTask = Build(b) /\ task = Shape(Build(b)) /\ Build(b).steps = b.steps
  BY <1>1, BuildType DEF MadeWith, TheTask
<1>3. task.steps = Len(b.steps) /\ Body = b.steps[index].body
  BY <1>2 DEF Shape, Body
<1>4. CASE program.name = "pipeline"
  <2>1. Len(b.steps) = 2 /\ b.steps[1].body = "produce" /\ b.steps[2].body = "consume"
    BY <1>1, <1>4 DEF MadeWith, Asked, TwoSteps
  <2> QED
    BY <1>3, <1>4, <2>1 DEF Ops
<1>5. CASE program.name = "producer"
  <2>1. Len(b.steps) = 1 /\ b.steps[1].body = "increment"
    BY <1>1, <1>5 DEF MadeWith, Asked, OneStep
  <2> QED
    BY <1>3, <1>5, <2>1 DEF Ops
<1> QED
  BY <1>4, <1>5

(* The store of a run holds what its first step has put there, and the     *)
(* second step has taken that.                                             *)
Stored == (runId + 1) * 10

StoreInv ==
  program.name = "pipeline" /\ InSteps =>
    /\ Get(store, "value", "u32") \subseteq {Stored}
    /\ index > 1 => Get(store, "value", "u32") # {}
    /\ pc = "attempt" /\ index = 1 /\ line > 1 => Get(store, "value", "u32") # {}
    /\ pc = "attempt" /\ index = 2 /\ line > 1 => value = Stored

(* A task that could not be built never runs. *)
Built == built = {} => pc = "idle"

(* Only a task that was built takes steps at all.                          *)
LEMMA BuiltCorrect == ProgramSpec => []Built
<1>1. ProgramInit => Built
  BY DEF ProgramInit, Fresh, Built
<1>2. Built /\ [ProgramNext]_allVars => Built'
  <2> SUFFICES ASSUME Built, [ProgramNext]_allVars PROVE Built'
    OBVIOUS
  <2>1. CASE ProgramNext
    BY <2>1, ProgramStep DEF ProgramNext, Built
  <2>2. CASE UNCHANGED allVars
    BY <2>2 DEF Built, allVars, vars
  <2> QED
    BY <2>1, <2>2
<1> QED
  BY <1>1, <1>2, PTL DEF ProgramSpec

(* Every step of a program keeps that. *)
LEMMA StoreStep ==
  ASSUME TaskInv, Described, ContextInv, LineInv, StoreInv, [ProgramNext]_allVars
  PROVE  StoreInv'
<1> SUFFICES ASSUME ProgramNext, program.name = "pipeline", InSteps'
             PROVE  StoreInv'
  <2>1. program' = program
    BY ProgramStep
  <2>2. CASE UNCHANGED allVars
    <3>1. UNCHANGED <<program, pc, index, line, value, store, runId>>
      BY <2>2 DEF allVars, vars
    <3> QED
      BY <3>1 DEF StoreInv, InSteps, Stored
  <2> QED
    BY <2>1, <2>2, [ProgramNext]_allVars DEF StoreInv
<1> DEFINE found == Get(store, "value", "u32")
<1>0. /\ index \in 1..3 /\ index \in Nat /\ built # {} /\ program' = program
      /\ pc \in {"attempt", "delay"} => index \in 1..2
      /\ index = 1 => Ops = <<"put">>
      /\ index = 2 => Ops = <<"take", "fetch", "write">>
      /\ pc = "attempt" => ctx.run_id = runId /\ line \in 1..Len(Ops) + 1
  <2>1. /\ built # {} /\ task.steps = 2
        /\ index = 1 => Ops = <<"put">>
        /\ index = 2 => Ops = <<"take", "fetch", "write">>
    BY BoardSteps DEF ProgramNext
  <2>2. index \in 1..3 /\ (pc \in {"attempt", "delay"} => index \in 1..2)
    BY <2>1 DEF TaskInv, StepInv, Step
  <2> QED
    BY <2>1, <2>2, ProgramStep DEF ContextInv, LineInv
<1>1. InSteps =>
        /\ found \subseteq {Stored}
        /\ index > 1 => found # {}
        /\ pc = "attempt" /\ index = 1 /\ line > 1 => found # {}
        /\ pc = "attempt" /\ index = 2 /\ line > 1 => value = Stored
  BY DEF StoreInv
<1>2. CASE EnterRun
  <2>1. store' = NewBoard /\ index' = 1 /\ pc' = "next"
    BY <1>2 DEF EnterRun, Enter, FreshStore
  <2>2. Get(store', "value", "u32") = {}
    BY <2>1, BoardCalls
  <2> QED
    BY <2>1, <2>2 DEF StoreInv
<1>3. CASE Put
  <2>1. /\ pc = "attempt" /\ UNCHANGED <<pc, index, runId, value>> /\ line' = line + 1
        /\ line \in DOMAIN Ops /\ Ops[line] = "put"
        /\ store' = Set(store, "value", Value("u32", (ctx.run_id + 1) * 10))
    BY <1>3 DEF Put, Op, vars
  <2>2. index = 1
    <3>1. CASE index = 2
      <4>1. line \in 1..3 /\ <<"take", "fetch", "write">>[line] = "put"
        BY <1>0, <2>1, <3>1
      <4> QED
        BY <4>1
    <3> QED
      BY <1>0, <2>1, <3>1
  <2>3. Get(store', "value", "u32") = {Stored} /\ Stored' = Stored
    <3>1. store' = Set(store, "value", Value("u32", Stored)) /\ Stored' = Stored
      <4>1. ctx.run_id = runId
        BY <1>0, <2>1
      <4>2. (ctx.run_id + 1) * 10 = Stored /\ Stored' = Stored
        BY <2>1, <4>1 DEF Stored
      <4> QED
        BY <2>1, <4>2
    <3>2. Get(Set(store, "value", Value("u32", Stored)), "value", "u32") = {Stored}
      BY BoardCalls
    <3> QED
      BY <3>1, <3>2
  <2> QED
    BY <2>1, <2>2, <2>3 DEF StoreInv
<1>4. CASE Take
  <2>1. /\ pc = "attempt" /\ UNCHANGED <<pc, index, runId, store>> /\ line' = line + 1
        /\ line \in DOMAIN Ops /\ Ops[line] = "take"
        /\ value' = GetOr(store, "value", Zero)
    BY <1>4 DEF Take, Op, vars
  <2>2. index = 2
    <3>1. CASE index = 1
      <4>1. line = 1 /\ <<"put">>[line] = "take"
        BY <1>0, <2>1, <3>1
      <4> QED
        BY <4>1
    <3> QED
      BY <1>0, <2>1, <3>1
  <2>3. found \subseteq {Stored} /\ found # {}
    BY <1>1, <1>4, <2>1, <2>2 DEF InSteps
  <2>4. value' = Stored
    <3>1. Get(store, "value", Zero.type) = found
      BY DEF Zero, Value
    <3> QED
      BY <2>1, <2>3, <3>1 DEF GetOr, Get
  <2> QED
    BY <2>1, <2>2, <2>3, <2>4 DEF StoreInv, Stored
<1>5. CASE Fetch \/ Write
  <2>1. /\ pc = "attempt" /\ UNCHANGED <<pc, index, runId, store, value>> /\ line' = line + 1
        /\ line \in DOMAIN Ops /\ Ops[line] \in {"fetch", "write"}
    BY <1>5 DEF Fetch, Write, Op, vars
  <2>2. index = 2 /\ line > 1
    <3>1. CASE index = 1
      <4>1. line = 1 /\ <<"put">>[line] \in {"fetch", "write"}
        BY <1>0, <2>1, <3>1
      <4> QED
        BY <4>1
    <3>2. CASE index = 2
      <4>1. line \in 1..3 /\ <<"take", "fetch", "write">>[line] \in {"fetch", "write"}
        BY <1>0, <2>1, <3>2
      <4> QED
        BY <3>2, <4>1
    <3> QED
      BY <1>0, <2>1, <3>1, <3>2
  <2>3. found \subseteq {Stored} /\ found # {} /\ value = Stored
    BY <1>1, <2>1, <2>2 DEF InSteps
  <2> QED
    BY <2>1, <2>2, <2>3 DEF StoreInv, Stored
<1>6. CASE CallStep
  <2>1. /\ pc \in {"next", "delay"} /\ line' = 1 /\ UNCHANGED <<index, runId, store>>
    BY <1>6 DEF CallStep, BeginAttempt
  <2>2. found \subseteq {Stored} /\ (index > 1 => found # {})
    BY <1>1, <2>1 DEF InSteps
  <2> QED
    BY <2>1, <2>2 DEF StoreInv, Stored
<1>7. CASE Succeeds
  <2>1. /\ pc = "attempt" /\ pc' = "next" /\ index' = index + 1 /\ UNCHANGED <<runId, store>>
        /\ line \notin DOMAIN Ops
    BY <1>7 DEF Succeeds, Returns, StepSucceeds, Untouched
  <2>2. found \subseteq {Stored} /\ found # {}
    <3>1. CASE index = 1
      <4>1. line > 1
        BY <1>0, <2>1, <3>1
      <4> QED
        BY <1>1, <2>1, <3>1, <4>1 DEF InSteps
    <3>2. CASE index = 2
      BY <1>1, <2>1, <3>2 DEF InSteps
    <3> QED
      BY <1>0, <2>1, <3>1, <3>2
  <2> QED
    BY <2>1, <2>2 DEF StoreInv, Stored
<1>8. CASE Deletes \/ Fails \/ TimesOut
  <2>1. pc = "attempt" /\ pc' \in {"delay", "end"} /\ UNCHANGED <<index, runId, store>>
    BY <1>8
    DEF Deletes, Fails, TimesOut, StepDeletes, StepFails, StepTimesOut, FailAttempt, Backs, Untouched
  <2>2. found \subseteq {Stored} /\ (index > 1 => found # {})
    BY <1>1, <2>1 DEF InSteps
  <2> QED
    BY <2>1, <2>2 DEF StoreInv, Stored
<1>9. CASE OtherFetches \/ OtherWrites \/ OtherSpoils
  <2>1. UNCHANGED <<pc, index, line, value, store, runId>>
    BY <1>9 DEF OtherFetches, OtherWrites, OtherSpoils, vars
  <2> QED
    BY <1>0, <2>1 DEF StoreInv, InSteps, Stored
<1>10. CASE AsInTaskRun \/ Reschedules \/ Cancelled
  <2>1. ~InSteps'
    BY <1>10
    DEF InSteps, AsInTaskRun, OpenRecord, SetRunning, Refuse, EndSteps, Notify, ClearRunning,
        FinishRun, Retire, Publish, Loop, Reschedules, Reschedule, Cancelled, Die
  <2> QED
    BY <2>1
<1> QED
  BY <1>2, <1>3, <1>4, <1>5, <1>6, <1>7, <1>8, <1>9, <1>10 DEF ProgramNext

(* Before the first run nothing is in the store. *)
LEMMA StoreCorrect == ProgramSpec => []StoreInv
<1>1. ProgramInit => StoreInv
  BY DEF ProgramInit, Fresh, StoreInv, InSteps
<1> QED
  BY <1>1, StoreStep, TaskInvCorrect, DescribedCorrect, ContextCorrect, LineCorrect, PTL
  DEF ProgramSpec

(* The store of a run holds what the steps of this run put there and       *)
(* nothing of a run before it; a later step finds it.                      *)
THEOREM StoreIsOfRun == ProgramSpec => []RunStoreIsPrivate
<1>1. TaskInv /\ Described /\ Built /\ StoreInv => RunStoreIsPrivate
  <2> SUFFICES ASSUME TaskInv, Described, Built, StoreInv, program.name = "pipeline", InSteps
               PROVE  /\ Get(store, "value", "u32") \subseteq {Stored}
                      /\ index > 1 => Get(store, "value", "u32") # {}
                      /\ pc = "attempt" /\ Body = "consume" /\ line > 1 => value = Stored
    BY DEF RunStoreIsPrivate, Stored
  <2>1. task.steps = 2 /\ (index = 1 => Body = "produce")
    <3>1. built # {}
      BY DEF Built, InSteps
    <3> QED
      BY <3>1, BoardSteps
  <2>2. pc = "attempt" => index \in 1..2
    BY <2>1 DEF TaskInv, StepInv, Step
  <2>3. pc = "attempt" /\ Body = "consume" => index = 2
    BY <2>1, <2>2
  <2> QED
    BY <2>3 DEF StoreInv
<1> QED
  BY <1>1, TaskInvCorrect, DescribedCorrect, BuiltCorrect, StoreCorrect, PTL

-----------------------------------------------------------------------------
(* The total on the board.                                                 *)

(* The present run has written its total. *)
Totalled ==
  \/ pc = "next" /\ index > task.steps
  \/ pc = "attempt" /\ index = task.steps /\ line > Len(Ops)

(* No total is ahead of the writes; alone on its board, none is behind.    *)
BoardSum ==
  /\ GetOr(board, Key, Zero) <= writes
  /\ other.holds => other.total <= writes + 1
  /\ ~program.shared => ~other.holds /\ GetOr(board, Key, Zero) = writes

(* The step that is about to write would add one. *)
StepSum ==
  Op("write") => total <= writes + 1 /\ (~program.shared => total = writes + 1)

(* Each run of a task that is alone on its board writes once. *)
RunSum ==
  ~program.shared /\ pc # "dead" => writes = executed + (IF Totalled THEN 1 ELSE 0)

TotalInv ==
  OnABoard => pc \notin {"delay", "end"} /\ BoardSum /\ StepSum /\ RunSum

(* Where the two tasks stand in their calls. *)
LEMMA BoardLines ==
  ASSUME TaskInv, Described, built # {}, LineInv, OnABoard
  PROVE  /\ task.steps \in {1, 2} /\ index \in 1..task.steps + 1
         /\ pc = "attempt" =>
              /\ index \in 1..task.steps /\ line \in 1..Len(Ops) + 1
              /\ Result = "Success" /\ Body \notin Awaits
         /\ index \in 1..task.steps => Ops[1] # "write" /\ Len(Ops) \in Nat \ {0}
         /\ Op("put") => index < task.steps /\ line = Len(Ops)
         /\ Op("take") \/ Op("fetch") => index = task.steps /\ line < Len(Ops)
         /\ Op("take") => Ops[line + 1] # "write"
         /\ Op("write") => index = task.steps /\ line = Len(Ops)
<1>1. /\ program.name = "pipeline" =>
              /\ task.steps = 2
              /\ index = 1 => Body = "produce" /\ Ops = <<"put">>
              /\ index = 2 => Body = "consume" /\ Ops = <<"take", "fetch", "write">>
      /\ program.name = "producer" =>
              /\ task.steps = 1
              /\ index = 1 => Body = "increment" /\ Ops = <<"fetch", "write">>
  BY BoardSteps
<1>2. task.steps \in {1, 2} /\ index \in 1..task.steps + 1
  BY <1>1 DEF OnABoard, TaskInv, StepInv
<1>3. pc = "attempt" => index \in 1..task.steps /\ line \in 1..Len(Ops) + 1
  BY DEF TaskInv, StepInv, Step, LineInv
<1>4. index \in 1..task.steps =>
        \/ Body = "produce" /\ Ops = <<"put">> /\ index = 1 /\ task.steps = 2
        \/ Body = "consume" /\ Ops = <<"take", "fetch", "write">> /\ index = 2 /\ task.steps = 2
        \/ Body = "increment" /\ Ops = <<"fetch", "write">> /\ index = 1 /\ task.steps = 1
  BY <1>1, <1>2 DEF OnABoard
<1>5. CASE index \in 1..task.steps /\ Body = "produce" /\ Ops = <<"put">> /\ index = 1
           /\ task.steps = 2
  <2>1. pc = "attempt" => Result = "Success" /\ Body \notin Awaits
    BY <1>5 DEF Result, Awaits
  <2>2. /\ Ops[1] # "write" /\ Len(Ops) = 1 /\ DOMAIN Ops = 1..1
        /\ \A k \in 1..1 : Ops[k] \notin {"take", "fetch", "write"}
    BY <1>5
  <2>3. ~Op("take") /\ ~Op("fetch") /\ ~Op("write") /\ (Op("put") => line = 1)
    BY <2>2 DEF Op
  <2> QED
    BY <1>2, <1>3, <1>5, <2>1, <2>2, <2>3
<1>6. CASE index \in 1..task.steps /\ Body = "consume" /\ Ops = <<"take", "fetch", "write">>
           /\ index = 2 /\ task.steps = 2
  <2>1. pc = "attempt" => Result = "Success" /\ Body \notin Awaits
    BY <1>6 DEF Result, Awaits
  <2>2. /\ Len(Ops) = 3 /\ DOMAIN Ops = 1..3
        /\ Ops[1] = "take" /\ Ops[2] = "fetch" /\ Ops[3] = "write"
    BY <1>6
  <2>3. /\ ~Op("put") /\ (Op("take") => line = 1) /\ (Op("fetch") => line = 2)
        /\ Op("write") => line = 3
    BY <2>2 DEF Op
  <2> QED
    BY <1>2, <1>3, <1>6, <2>1, <2>2, <2>3
<1>7. CASE index \in 1..task.steps /\ Body = "increment" /\ Ops = <<"fetch", "write">>
           /\ index = 1 /\ task.steps = 1
  <2>1. pc = "attempt" => Result = "Success" /\ Body \notin Awaits
    BY <1>7 DEF Result, Awaits
  <2>2. /\ Len(Ops) = 2 /\ DOMAIN Ops = 1..2 /\ Ops[1] = "fetch" /\ Ops[2] = "write"
    BY <1>7
  <2>3. /\ ~Op("put") /\ ~Op("take") /\ (Op("fetch") => line = 1)
        /\ Op("write") => line = 2
    BY <2>2 DEF Op
  <2> QED
    BY <1>2, <1>3, <1>7, <2>1, <2>2, <2>3
<1>8. CASE index \notin 1..task.steps
  BY <1>2, <1>3, <1>8 DEF Op
<1> QED
  BY <1>4, <1>5, <1>6, <1>7, <1>8

(* Fetching and writing are two calls, and whatever happens on the board   *)
(* between them the sums hold.                                             *)
LEMMA TotalStep ==
  ASSUME TaskInv, Described, LineInv, ValueInv, TotalInv, [ProgramNext]_allVars
  PROVE  TotalInv'
<1> DEFINE shown == GetOr(board, Key, Zero)
<1>a. program' = program /\ built' = built /\ Key' = Key /\ OnABoard' = OnABoard
  <2>1. program' = program /\ built' = built
    BY ProgramStep
  <2> QED
    BY <2>1 DEF Key, OnABoard
<1> SUFFICES ASSUME ProgramNext, OnABoard
             PROVE  pc' \notin {"delay", "end"} /\ BoardSum' /\ StepSum' /\ RunSum'
  <2>1. CASE UNCHANGED allVars
    <3>1. UNCHANGED <<built, index, board, Key, other, writes, program, pc, line, total, executed, task>>
      BY <1>a, <2>1 DEF allVars, vars
    <3>2. Ops' = Ops
      BY <3>1 DEF Ops, Body, TheTask
    <3> QED
      BY <1>a, <3>1, <3>2 DEF TotalInv, BoardSum, StepSum, RunSum, Op, Totalled
  <2> QED
    BY <1>a, <2>1, [ProgramNext]_allVars DEF TotalInv
<1>b. built # {} /\ pc \notin {"delay", "end"} /\ BoardSum /\ StepSum /\ RunSum
  BY DEF TotalInv, ProgramNext
<1>c. /\ task.steps \in Nat \ {0} /\ index \in 1..task.steps + 1 /\ index \in Nat
      /\ total \in Nat /\ writes \in Nat /\ other.total \in Nat /\ executed \in Nat
      /\ Len(Ops) \in Nat /\ DOMAIN Ops = 1..Len(Ops) /\ line \in Nat
  <2>1. task.steps \in {1, 2} /\ index \in 1..task.steps + 1
    BY <1>b, BoardLines
  <2>2. Len(Ops) \in Nat /\ DOMAIN Ops = 1..Len(Ops)
    BY OpsType
  <2>3. /\ total \in Nat /\ writes \in Nat /\ other.total \in Nat /\ executed \in Nat
        /\ index \in Nat /\ line \in Nat
    BY DEF TaskInv, TypeOK, ValueInv, LineInv
  <2> QED
    BY <2>1, <2>2, <2>3
<1>d. shown \in Nat /\ shown <= writes /\ (~program.shared => shown = writes)
  BY <1>b, BoardNumbers DEF ValueInv, BoardSum
<1>e. UNCHANGED index => Ops' = Ops
  BY <1>a DEF Ops, Body, TheTask
<1>f. UNCHANGED <<board, other, writes>> => BoardSum'
  BY <1>a, <1>b DEF BoardSum
<1>g. pc' # "attempt" => StepSum'
  BY DEF StepSum, Op
<1> HIDE DEF shown
<1>1. CASE CallStep
  <2>1. /\ pc = "next" /\ pc' = "attempt" /\ index \in 1..task.steps /\ line' = 1
        /\ UNCHANGED <<task, index, board, other, writes, executed>>
    BY <1>1, <1>b DEF CallStep, BeginAttempt, Step
  <2>2. Ops[1] # "write" /\ Len(Ops) > 0 /\ Ops' = Ops
    <3>1. Ops[1] # "write" /\ Len(Ops) \in Nat \ {0}
      BY <1>b, <2>1, BoardLines
    <3> QED
      BY <1>e, <2>1, <3>1
  <2>3. ~Totalled /\ ~Totalled'
    BY <1>c, <2>1, <2>2 DEF Totalled
  <2> QED
    BY <1>a, <1>b, <1>f, <2>1, <2>2, <2>3 DEF StepSum, Op, RunSum
<1>2. CASE Put \/ Take
  <2>1. /\ pc = "attempt" /\ UNCHANGED <<pc, task, index, board, other, writes, executed>>
        /\ line' = line + 1 /\ (Op("put") \/ Op("take"))
    BY <1>2 DEF Put, Take, Op, vars
  <2>2. Ops' = Ops
    BY <1>e, <2>1
  <2>3. \/ index < task.steps /\ line + 1 \notin DOMAIN Ops
        \/ line < Len(Ops) /\ Ops[line + 1] # "write"
    <3>1. Op("put") => index < task.steps /\ line = Len(Ops)
      BY <1>b, BoardLines
    <3>2. Op("take") => line < Len(Ops) /\ Ops[line + 1] # "write"
      BY <1>b, BoardLines
    <3>3. CASE Op("put")
      BY <1>c, <3>1, <3>3
    <3>4. CASE Op("take")
      BY <3>2, <3>4
    <3> QED
      BY <2>1, <3>3, <3>4
  <2>4. ~Op("write")'
    BY <2>1, <2>2, <2>3 DEF Op
  <2>5. Totalled' = Totalled
    BY <1>c, <2>1, <2>2, <2>3 DEF Totalled
  <2> QED
    BY <1>a, <1>b, <1>f, <2>1, <2>4, <2>5 DEF StepSum, RunSum
<1>3. CASE Fetch
  <2>1. /\ pc = "attempt" /\ UNCHANGED <<pc, task, index, other, writes, executed>>
        /\ line' = line + 1 /\ Op("fetch")
        /\ total' = shown + 1 /\ board' = Inserted(board, Key, Zero)
    BY <1>3 DEF Fetch, Op, vars, shown
  <2>2. GetOr(board, Key, Zero)' = shown
    BY <1>a, <2>1, BoardDefaults DEF shown
  <2>3. BoardSum'
    BY <1>a, <1>b, <1>d, <2>1, <2>2 DEF BoardSum
  <2>4. StepSum'
    BY <1>a, <1>c, <1>d, <2>1 DEF StepSum
  <2>5. Ops' = Ops /\ line < Len(Ops)
    BY <1>b, <1>e, <2>1, BoardLines
  <2>6. ~Totalled /\ ~Totalled'
    BY <1>c, <2>1, <2>5 DEF Totalled
  <2> QED
    BY <1>a, <1>b, <2>1, <2>3, <2>4, <2>6 DEF RunSum
<1>4. CASE Write
  <2>1. /\ pc = "attempt" /\ UNCHANGED <<pc, task, index, other, executed>>
        /\ line' = line + 1 /\ Op("write") /\ writes' = writes + 1
        /\ board' = Set(board, Key, Value("u32", total))
    BY <1>4 DEF Write, Op, vars
  <2>2. GetOr(board, Key, Zero)' = total
    BY <1>a, <2>1, BoardCalls
  <2>3. total <= writes + 1 /\ (~program.shared => total = writes + 1)
    BY <1>b, <2>1 DEF StepSum
  <2>4. BoardSum'
    BY <1>a, <1>b, <1>c, <2>1, <2>2, <2>3 DEF BoardSum
  <2>5. Ops' = Ops /\ line = Len(Ops) /\ index = task.steps
    BY <1>b, <1>e, <2>1, BoardLines
  <2>6. StepSum'
    BY <1>c, <2>1, <2>5 DEF StepSum, Op
  <2>7. ~Totalled /\ Totalled'
    BY <1>c, <2>1, <2>5 DEF Totalled
  <2>8. RunSum'
    BY <1>a, <1>b, <1>c, <2>1, <2>7 DEF RunSum
  <2> QED
    BY <2>1, <2>4, <2>6, <2>8
<1>5. CASE OtherFetches \/ OtherWrites \/ OtherSpoils
  <2>1. UNCHANGED <<pc, task, index, line, total>> /\ Ops' = Ops
    BY <1>5, <1>e DEF OtherFetches, OtherWrites, OtherSpoils, vars
  <2>2. program.shared
    BY <1>5, <1>b DEF OtherFetches, OtherWrites, OtherSpoils, BoardSum
  <2>3. BoardSum' /\ writes' \in {writes, writes + 1}
    <3>1. CASE OtherFetches
      <4>1. /\ writes' = writes /\ board' = Inserted(board, Key, Zero)
            /\ other' = [other EXCEPT !.holds = TRUE, !.total = shown + 1]
        BY <3>1 DEF OtherFetches, shown
      <4>2. other'.total = shown + 1
        BY <4>1 DEF ValueInv
      <4>3. GetOr(board, Key, Zero)' = shown
        BY <1>a, <4>1, BoardDefaults DEF shown
      <4> QED
        BY <1>a, <1>c, <1>d, <2>2, <4>1, <4>2, <4>3 DEF BoardSum
    <3>2. CASE OtherWrites
      <4>1. /\ writes' = writes + 1 /\ other.holds /\ ~other'.holds
            /\ board' = Set(board, Key, Value("u32", other.total))
        BY <3>2 DEF OtherWrites
      <4>2. GetOr(board, Key, Zero)' = other.total
        BY <1>a, <4>1, BoardCalls
      <4> QED
        BY <1>a, <1>b, <1>c, <2>2, <4>1, <4>2 DEF BoardSum
    <3>3. CASE OtherSpoils
      <4>1. /\ writes' = writes /\ ~other'.holds
            /\ \/ board' = Remove(board, Key)
               \/ board' = Set(board, Key, Value("String", ""))
        BY <3>3 DEF OtherSpoils, ValueInv
      <4>2. GetOr(board, Key, Zero)' = 0
        <5>1. CASE board' = Remove(board, Key)
          BY <1>a, <5>1, BoardDefaults
        <5>2. CASE board' = Set(board, Key, Value("String", ""))
          BY <1>a, <5>2, BoardDefaults
        <5> QED
          BY <4>1, <5>1, <5>2
      <4>3. GetOr(board, Key, Zero)' <= writes'
        <5>1. writes' \in Nat
          BY <1>c, <4>1
        <5> QED
          BY <4>2, <5>1
      <4>4. ~other'.holds /\ program'.shared
        BY <1>a, <2>2, <4>1
      <4>5. BoardSum'
        BY <4>3, <4>4, Zenon DEF BoardSum
      <4> QED
        BY <4>1, <4>5
    <3> QED
      BY <1>5, <3>1, <3>2, <3>3
  <2>4. StepSum'
    <3> SUFFICES ASSUME Op("write")' PROVE total' <= writes' + 1
      <4>1. program'.shared
        BY <1>a, <2>2
      <4> QED
        BY <4>1 DEF StepSum
    <3>1. Op("write")
      BY <2>1 DEF Op
    <3>2. total <= writes + 1
      BY <1>b, <3>1 DEF StepSum
    <3>3. \A m \in {writes, writes + 1} : total <= m + 1
      BY <1>c, <3>2
    <3> QED
      BY <2>1, <2>3, <3>3
  <2> QED
    BY <1>a, <1>b, <2>1, <2>2, <2>3, <2>4 DEF RunSum
<1>6. CASE Succeeds
  <2>1. /\ pc = "attempt" /\ pc' = "next" /\ index' = index + 1 /\ line \notin DOMAIN Ops
        /\ UNCHANGED <<task, board, other, writes, executed>>
    BY <1>6 DEF Succeeds, Returns, StepSucceeds, Untouched
  <2>2. index \in 1..task.steps /\ line \in 1..Len(Ops) + 1
    BY <1>b, <2>1, BoardLines
  <2>3. Totalled' = Totalled
    BY <1>c, <2>1, <2>2 DEF Totalled
  <2> QED
    BY <1>a, <1>b, <1>f, <1>g, <2>1, <2>3 DEF RunSum
<1>7. CASE Deletes \/ Fails \/ TimesOut
  <2>1. pc = "attempt" /\ (Result # "Success" \/ Body \in Awaits)
    BY <1>7 DEF Deletes, Fails, TimesOut, Returns
  <2> QED
    BY <1>b, <2>1, BoardLines
<1>8. CASE EndSteps /\ Untouched
  <2>1. /\ pc = "next" /\ pc' = "notify" /\ index \notin Step /\ executed' = executed + 1
        /\ UNCHANGED <<board, other, writes>>
    BY <1>8, <1>b DEF EndSteps, Untouched
  <2>2. Totalled /\ ~Totalled'
    BY <1>c, <2>1 DEF Totalled, Step
  <2> QED
    BY <1>a, <1>b, <1>c, <1>f, <1>g, <2>1, <2>2 DEF RunSum
<1>9. CASE EnterRun
  <2>1. /\ pc = "enter" /\ pc' = "next" /\ index' = 1
        /\ UNCHANGED <<task, board, other, writes, executed>>
    BY <1>9 DEF EnterRun, Enter
  <2>2. ~Totalled /\ ~Totalled'
    BY <1>c, <2>1 DEF Totalled
  <2> QED
    BY <1>a, <1>b, <1>f, <1>g, <2>1, <2>2 DEF RunSum
<1>10. CASE Cancelled
  <2>1. pc' = "dead" /\ UNCHANGED <<board, other, writes>>
    BY <1>10 DEF Cancelled, Die, Untouched
  <2> QED
    BY <1>f, <1>g, <2>1 DEF RunSum
<1>11. CASE (AsInTaskRun /\ ~EndSteps) \/ Reschedules
  <2>1. /\ pc \notin {"next", "attempt", "dead"} /\ pc' \notin {"next", "attempt", "delay", "end"}
        /\ UNCHANGED <<board, other, writes, executed>>
    BY <1>11
    DEF AsInTaskRun, OpenRecord, SetRunning, Refuse, Notify, ClearRunning, FinishRun, Retire,
        Publish, Loop, Reschedules, Reschedule, Untouched
  <2>2. ~Totalled /\ ~Totalled'
    BY <2>1 DEF Totalled
  <2> QED
    BY <1>a, <1>b, <1>f, <1>g, <2>1, <2>2 DEF RunSum
<1> QED
  BY <1>1, <1>2, <1>3, <1>4, <1>5, <1>6, <1>7, <1>8, <1>9, <1>10, <1>11
  DEF ProgramNext, AsInTaskRun

(* Before the first run there is nothing on the board to count.            *)
LEMMA TotalCorrect == ProgramSpec => []TotalInv
<1>1. ProgramInit => TotalInv
  <2> SUFFICES ASSUME ProgramInit PROVE TotalInv
    OBVIOUS
  <2>1. /\ pc = "idle" /\ executed = 0 /\ writes = 0 /\ ~other.holds /\ board = NewBoard
    BY DEF ProgramInit, Fresh
  <2>2. GetOr(board, Key, Zero) = 0
    BY <2>1, BoardCalls DEF GetOr, Zero, Value
  <2> QED
    BY <2>1, <2>2 DEF TotalInv, BoardSum, StepSum, RunSum, Op, Totalled
<1>2. TotalInv /\ TaskInv /\ Described /\ LineInv /\ ValueInv /\ [ProgramNext]_allVars => TotalInv'
  BY TotalStep
<1> QED
  BY <1>1, <1>2, TaskInvCorrect, DescribedCorrect, LineCorrect, ValueCorrect, PTL DEF ProgramSpec

(* The total that get_or_insert and set keep, as two calls, on a board     *)
(* that no other task uses counts the runs of the task; beside another     *)
(* task increments may be lost and none is counted twice.                  *)
THEOREM TotalIsOfRuns == ProgramSpec => []TotalCountsRuns
<1>1. TotalInv /\ TaskInv => TotalCountsRuns
  <2> SUFFICES ASSUME TotalInv, OnABoard, TaskInv
               PROVE  /\ GetOr(board, Key, Zero) <= writes
                      /\ ~program.shared => GetOr(board, Key, Zero) = writes
                      /\ ~program.shared /\ pc \in {"idle", "drain"} => writes = executed
    BY DEF TotalCountsRuns, OnABoard
  <2> QED
    BY DEF TotalInv, BoardSum, RunSum, Totalled, TaskInv, TypeOK
<1> QED
  BY <1>1, TotalCorrect, TaskInvCorrect, PTL

=============================================================================
