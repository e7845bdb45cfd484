---------------------------- MODULE TaskRunProofs ----------------------------
(***************************************************************************)
(* What holds of TaskRun for every number of steps, retries, records and   *)
(* runs.                                                                   *)
(***************************************************************************)
EXTENDS TaskRun, SequenceTheorems, TLAPS

USE DEF driver, shared, seen

-----------------------------------------------------------------------------
(* Types.                                                                  *)

Record == [id : Nat, outcome : Outcomes \union {"open"}, attempts : Nat]

(* A task of any shape and number of runs, before its first run. *)
Started ==
  /\ task \in [steps : Nat, retries : Nat, timeout : BOOLEAN, limit : Nat]
  /\ left \in Nat
  /\ Fresh

(* The tasks of Init are such tasks. *)
LEMMA InitStarted == Init => Started
  BY BoundsAssumption DEF Init, Started

(* The initial values have their types. *)
LEMMA TypeInit == Started => TypeOK
<1> SUFFICES ASSUME Started PROVE TypeOK
  OBVIOUS
<1>1. history \in Seq(Record)
  BY EmptySeq DEF Started, Fresh
<1>2. calls \in [success : Nat, failure : Nat, finish : Nat]
  BY DEF Started, Fresh
<1>3. states \in [Step -> StepStatuses] /\ sink \in [Step -> StepStatuses]
  BY DEF Started, Fresh, AllPending, StepStatuses
<1> QED
  BY <1>1, <1>2, <1>3 DEF Started, Fresh, TypeOK, Record, Statuses, Outcomes

(* Room is made, and a record appended, within the type of the history.    *)
LEMMA OpenedType ==
  ASSUME TypeOK
  PROVE  Opened \in Seq(Record)
<1>1. history \in Seq(Record) /\ NewRecord \in Record
  BY DEF TypeOK, NewRecord, Record
<1>2. Trimmed \in Seq(Record)
  <2>1. history # <<>> => Tail(history) \in Seq(Record)
    BY <1>1, HeadTailProperties
  <2> QED
    BY <1>1, <2>1 DEF Trimmed
<1>3. Append(Trimmed, NewRecord) \in Seq(Record)
  BY <1>1, <1>2, AppendProperties
<1> QED
  BY <1>2, <1>3 DEF Opened

(* The result of a run replaces the record of that run only. *)
LEMMA FinishRunType ==
  ASSUME TypeOK, FinishRun
  PROVE  /\ history' \in Seq(Record)
         /\ DOMAIN history' = DOMAIN history /\ Len(history') = Len(history)
<1> DEFINE closed == [id |-> runId, outcome |-> outcome, attempts |-> attempts]
<1>1. /\ history \in Seq(Record)
      /\ Len(history) \in Nat /\ DOMAIN history = 1..Len(history)
      /\ \A k \in 1..Len(history) : history[k] \in Record
  BY LenProperties, ElementOfSeq DEF TypeOK, Record
<1>2. closed \in Record
  BY DEF TypeOK, Record
<1>3. history' = [k \in 1..Len(history) |-> IF history[k].id = runId THEN closed ELSE history[k]]
  BY <1>1 DEF FinishRun
<1>4. \A k \in 1..Len(history) : history'[k] \in Record
  BY <1>1, <1>2, <1>3
<1>5. history' \in [1..Len(history) -> Record]
  BY <1>3, <1>4
<1>6. history' \in Seq(Record)
  BY <1>1, <1>5, SeqDef
<1>7. DOMAIN history' = 1..Len(history) /\ DOMAIN history' = 1..Len(history') /\ Len(history') \in Nat
  BY <1>3, <1>6, LenProperties
<1>8. \A a, b \in Nat : 1..a = 1..b => a = b
  OBVIOUS
<1> QED
  BY <1>1, <1>6, <1>7, <1>8

(* Marking a step keeps the types of the step states. *)
LEMMA MarkType ==
  ASSUME TypeOK, NEW s \in StepStatuses, MarkStep(s)
  PROVE  states' \in [Step -> StepStatuses] /\ sink' \in [Step -> StepStatuses]
BY DEF TypeOK, MarkStep

CallsType == [success : Nat, failure : Nat, finish : Nat]

(* A callback that is invoked is counted, and no other.                    *)
LEMMA CallsCounted ==
  ASSUME NEW c \in CallsType
  PROVE  /\ LET s == [c EXCEPT !.success = @ + 1]
            IN  /\ s \in CallsType /\ s.success = c.success + 1
                /\ s.failure = c.failure /\ s.finish = c.finish
         /\ LET s == [c EXCEPT !.failure = @ + 1]
            IN  /\ s \in CallsType /\ s.failure = c.failure + 1
                /\ s.success = c.success /\ s.finish = c.finish
         /\ LET s == [c EXCEPT !.finish = @ + 1]
            IN  /\ s \in CallsType /\ s.finish = c.finish + 1
                /\ s.success = c.success /\ s.failure = c.failure
         /\ LET s == [c EXCEPT !.failure = @ + 1, !.finish = @ + 1]
            IN  /\ s \in CallsType /\ s.failure = c.failure + 1
                /\ s.finish = c.finish + 1 /\ s.success = c.success
<1> DEFINE s == [c EXCEPT !.success = @ + 1]
           f == [c EXCEPT !.failure = @ + 1]
           n == [c EXCEPT !.finish = @ + 1]
           b == [c EXCEPT !.failure = @ + 1, !.finish = @ + 1]
<1>1. s \in CallsType /\ s.success = c.success + 1 /\ s.failure = c.failure /\ s.finish = c.finish
  BY DEF CallsType
<1>2. f \in CallsType /\ f.failure = c.failure + 1 /\ f.success = c.success /\ f.finish = c.finish
  BY DEF CallsType
<1>3. n \in CallsType /\ n.finish = c.finish + 1 /\ n.success = c.success /\ n.failure = c.failure
  BY DEF CallsType
<1>4. b \in CallsType /\ b.failure = c.failure + 1 /\ b.finish = c.finish + 1 /\ b.success = c.success
  <2>1. b = [f EXCEPT !.finish = @ + 1]
    BY DEF CallsType
  <2>2. b.failure = c.failure + 1 /\ b.finish = c.finish + 1 /\ b.success = c.success
    BY DEF CallsType
  <2>3. \A d \in CallsType : [d EXCEPT !.finish = @ + 1] \in CallsType
    BY DEF CallsType
  <2> HIDE DEF b, f
  <2> QED
    BY <1>2, <2>1, <2>2, <2>3
<1> HIDE DEF s, f, n, b
<1>5. /\ s \in CallsType /\ s.success = c.success + 1 /\ s.failure = c.failure /\ s.finish = c.finish
      /\ f \in CallsType /\ f.failure = c.failure + 1 /\ f.success = c.success /\ f.finish = c.finish
      /\ n \in CallsType /\ n.finish = c.finish + 1 /\ n.success = c.success /\ n.failure = c.failure
      /\ b \in CallsType /\ b.failure = c.failure + 1 /\ b.finish = c.finish + 1 /\ b.success = c.success
  BY <1>1, <1>2, <1>3, <1>4
<1> QED
  BY <1>5, Zenon DEF s, f, n, b

(* What the callbacks after the steps count. *)
LEMMA NotifyCounts ==
  ASSUME TypeOK, Notify
  PROVE  /\ calls' \in CallsType
         /\ status \in {"Executed", "Failed", "ForceRemoved"} =>
              calls'.success + calls'.failure = calls.success + calls.failure + 1
         /\ calls'.finish = IF status = "ForceRemoved" THEN calls.finish + 1 ELSE calls.finish
<1>1. calls \in CallsType
  BY DEF TypeOK, CallsType
<1>2. calls.success \in Nat /\ calls.failure \in Nat /\ calls.finish \in Nat
  BY <1>1 DEF CallsType
<1>3. calls' = Notified
  BY DEF Notify
<1>4. CASE status = "Executed"
  <2>1. calls' = [calls EXCEPT !.success = @ + 1]
    BY <1>3, <1>4 DEF Notified
  <2>2. /\ calls' \in CallsType /\ calls'.success = calls.success + 1
        /\ calls'.failure = calls.failure /\ calls'.finish = calls.finish
    BY <1>1, <2>1, CallsCounted, Zenon
  <2> QED
    BY <1>2, <1>4, <2>2
<1>5. CASE status = "Failed"
  <2>1. calls' = [calls EXCEPT !.failure = @ + 1]
    BY <1>3, <1>5 DEF Notified
  <2>2. /\ calls' \in CallsType /\ calls'.failure = calls.failure + 1
        /\ calls'.success = calls.success /\ calls'.finish = calls.finish
    BY <1>1, <2>1, CallsCounted, Zenon
  <2> QED
    BY <1>2, <1>5, <2>2
<1>6. CASE status = "ForceRemoved"
  <2>1. calls' = [calls EXCEPT !.failure = @ + 1, !.finish = @ + 1]
    BY <1>3, <1>6 DEF Notified
  <2>2. /\ calls' \in CallsType /\ calls'.failure = calls.failure + 1
        /\ calls'.success = calls.success /\ calls'.finish = calls.finish + 1
    BY <1>1, <2>1, CallsCounted, Zenon
  <2> QED
    BY <1>2, <1>6, <2>2
<1>7. CASE status \notin {"Executed", "Failed", "ForceRemoved"}
  <2>1. calls' = calls
    BY <1>3, <1>7 DEF Notified
  <2> QED
    BY <1>1, <1>7, <2>1
<1> QED
  BY <1>4, <1>5, <1>6, <1>7

(* And those after the reschedule. *)
LEMMA RescheduleCounts ==
  ASSUME TypeOK, Reschedule
  PROVE  /\ calls' \in CallsType
         /\ calls'.success = calls.success /\ calls'.failure = calls.failure
         /\ calls'.finish = IF status' = "Finished" THEN calls.finish + 1 ELSE calls.finish
<1>1. calls \in CallsType
  BY DEF TypeOK, CallsType
<1>2. calls' = IF status' = "Finished" THEN [calls EXCEPT !.finish = @ + 1] ELSE calls
  BY DEF Reschedule
<1> QED
  BY <1>1, <1>2, CallsCounted

(* Every step keeps the types. *)
LEMMA TypeStep ==
  ASSUME TypeOK, [Next]_vars
  PROVE  TypeOK'
<1> USE DEF TypeOK, Step
<1>1. CASE OpenRecord
  <2>1. history' \in Seq(Record)
    BY <1>1, OpenedType DEF OpenRecord
  <2> QED
    BY <1>1, <2>1 DEF OpenRecord, Record
<1>2. CASE SetRunning
  BY <1>2 DEF SetRunning
<1>3. CASE Refuse
  BY <1>3 DEF Refuse
<1>4. CASE Enter
  BY <1>4 DEF Enter, ResetSteps, AllPending, StepStatuses, Step
<1>5. CASE BeginAttempt
  BY <1>5 DEF BeginAttempt
<1>6. CASE StepSucceeds
  <2>1. states' \in [Step -> StepStatuses] /\ sink' \in [Step -> StepStatuses]
    BY <1>6, MarkType DEF StepSucceeds, StepStatuses
  <2> QED
    BY <1>6, <2>1 DEF StepSucceeds, Statuses, Step
<1>7. CASE StepDeletes
  <2>1. states' \in [Step -> StepStatuses] /\ sink' \in [Step -> StepStatuses]
    BY <1>7, MarkType DEF StepDeletes, StepStatuses
  <2> QED
    BY <1>7, <2>1 DEF StepDeletes, Statuses, Step
<1>8. CASE StepFails \/ StepTimesOut
  <2>1. states' \in [Step -> StepStatuses] /\ sink' \in [Step -> StepStatuses]
    BY <1>8, MarkType DEF StepFails, StepTimesOut, FailAttempt, StepStatuses
  <2>2. status' \in Statuses /\ pc' \in {"delay", "end"}
    BY <1>8 DEF StepFails, StepTimesOut, FailAttempt, Statuses
  <2> QED
    BY <1>8, <2>1, <2>2 DEF StepFails, StepTimesOut, Step
<1>9. CASE EndSteps
  <2>1. SkipPending \in [Step -> StepStatuses]
    BY DEF SkipPending, StepStatuses
  <2>2. OneLess \in Nat
    BY DEF OneLess
  <2> QED
    BY <1>9, <2>1, <2>2 DEF EndSteps, Statuses, Step
<1>10. CASE Notify
  <2>1. calls' \in [success : Nat, failure : Nat, finish : Nat]
    BY <1>10, NotifyCounts DEF CallsType
  <2>2. outcome' \in Outcomes
    BY <1>10 DEF Notify, RunOutcome, Outcomes
  <2> QED
    BY <1>10, <2>1, <2>2 DEF Notify, Step
<1>11. CASE Reschedule
  <2>1. calls' \in [success : Nat, failure : Nat, finish : Nat]
    BY <1>11, RescheduleCounts DEF CallsType
  <2>2. status' \in Statuses
    BY <1>11 DEF Reschedule, Statuses
  <2> QED
    BY <1>11, <2>1, <2>2 DEF Reschedule, Step
<1>12. CASE ClearRunning
  BY <1>12 DEF ClearRunning
<1>13. CASE FinishRun
  <2>1. history' \in Seq(Record)
    BY <1>13, FinishRunType
  <2> QED
    BY <1>13, <2>1 DEF FinishRun, Record
<1>14. CASE Retire
  <2>1. finished' \in BOOLEAN
    BY <1>14, Zenon DEF Retire
  <2> QED
    BY <1>14, <2>1 DEF Retire
<1>15. CASE Publish
  BY <1>15 DEF Publish, Step
<1>16. CASE Loop
  BY <1>16 DEF Loop
<1>17. CASE Die
  BY <1>17 DEF Die
<1>18. CASE UNCHANGED vars
  BY <1>18 DEF vars
<1> QED
  BY <1>1, <1>2, <1>3, <1>4, <1>5, <1>6, <1>7, <1>8, <1>9, <1>10, <1>11, <1>12, <1>13, <1>14,
     <1>15, <1>16, <1>17, <1>18 DEF Next, Proceed, UserCode

(* Type correctness: every cell keeps a value of its type. *)
THEOREM TaskTypes == Spec => []TypeOK
  BY InitStarted, TypeInit, TypeStep, PTL DEF Spec

-----------------------------------------------------------------------------
(* The history.                                                            *)

AtRest == {"retire", "publish", "loop", "drain", "idle", "ended"}   \* no run is open
Running == {"enter", "next", "attempt", "delay", "end", "notify", "reschedule", "clear"}
OpenPhases == Running \union {"opened", "finish"}

(* While a run goes on its record is the newest one and open; when it is   *)
(* over all records are closed.                                            *)
HistInv ==
  /\ HistoryIsRecentRuns
  /\ RunningIsRecorded
  /\ pc \in AtRest => \A k \in DOMAIN history : history[k].outcome # "open"
  /\ pc \in OpenPhases =>
       /\ runs > 0 /\ runId = runs - 1
       /\ task.limit > 0 =>
            history[Len(history)] = [id |-> runId, outcome |-> "open", attempts |-> 0]
  /\ running => pc \in Running \union {"dead"}

(* Room for a new record is made by giving up the oldest one, if there are *)
(* as many as the limit.                                                   *)
LEMMA TrimmedHistory ==
  ASSUME TypeOK, HistoryIsRecentRuns, task.limit > 0
  PROVE  /\ Trimmed \in Seq(Record)
         /\ Len(Trimmed) = IF runs < task.limit THEN runs ELSE task.limit - 1
         /\ \A k \in 1..Len(Trimmed) :
              /\ k + (Len(history) - Len(Trimmed)) \in DOMAIN history
              /\ Trimmed[k] = history[k + (Len(history) - Len(Trimmed))]
<1> DEFINE n == Len(history)
<1>1. /\ history \in Seq(Record) /\ n \in Nat /\ DOMAIN history = 1..n
      /\ runs \in Nat /\ task.limit \in Nat
      /\ n = IF runs < task.limit THEN runs ELSE task.limit
      /\ history # <<>> <=> n # 0
  BY LenProperties, EmptySeq DEF TypeOK, Record, HistoryIsRecentRuns
<1>2. CASE n >= task.limit
  <2>1. history # <<>> /\ Trimmed = Tail(history)
    BY <1>1, <1>2 DEF Trimmed
  <2>2. /\ Tail(history) \in Seq(Record) /\ Len(Tail(history)) = n - 1
        /\ \A k \in 1..n - 1 : Tail(history)[k] = history[k + 1]
    BY <1>1, <2>1, HeadTailProperties
  <2>3. Trimmed \in Seq(Record) /\ Len(Trimmed) = n - 1
    BY <2>1, <2>2, Zenon
  <2>4. n = task.limit /\ ~(runs < task.limit)
    BY <1>1, <1>2
  <2>5. n - Len(Trimmed) = 1 /\ \A k \in 1..n - 1 : k + 1 \in 1..n
    BY <1>1, <2>3
  <2>6. \A k \in 1..n - 1 : Trimmed[k] = history[k + 1]
    BY <2>1, <2>2, Zenon
  <2> HIDE DEF n
  <2> QED
    BY <1>1, <2>3, <2>4, <2>5, <2>6 DEF n
<1>3. CASE ~(n >= task.limit)
  <2>1. Trimmed = history
    BY <1>3 DEF Trimmed
  <2>2. n = runs /\ runs < task.limit
    BY <1>1, <1>3
  <2>3. \A k \in 1..n : k + (n - n) = k
    BY <1>1
  <2> QED
    BY <1>1, <2>1, <2>2, <2>3
<1> QED
  BY <1>2, <1>3

(* A history of the last of r runs, up to a limit, of which only the       *)
(* newest may be open.                                                     *)
Recent(h, r, limit) ==
  /\ Len(h) = IF r < limit THEN r ELSE limit
  /\ \A k \in DOMAIN h : h[k].id = r - Len(h) + k - 1
  /\ \A k \in DOMAIN h : h[k].outcome = "open" => k = Len(h)

(* The history with the record of a new run. *)
LEMMA OpenedHistory ==
  ASSUME TypeOK, HistoryIsRecentRuns, \A k \in DOMAIN history : history[k].outcome # "open"
  PROVE  /\ Recent(Opened, runs + 1, task.limit)
         /\ task.limit > 0 => Opened[Len(Opened)] = NewRecord
<1> USE DEF Recent
<1>1. runs \in Nat /\ task.limit \in Nat /\ history \in Seq(Record)
  BY DEF TypeOK, Record
<1>2. CASE task.limit = 0
  <2>1. Len(history) = 0
    BY <1>1, <1>2 DEF HistoryIsRecentRuns
  <2>2. history = <<>>
    BY <1>1, <2>1, EmptySeq
  <2>3. Opened = history /\ DOMAIN history = {}
    BY <1>2, <2>2 DEF Opened, Trimmed
  <2> QED
    BY <1>1, <1>2, <2>1, <2>3
<1>3. CASE task.limit > 0
  <2> DEFINE m == Len(Trimmed)
             d == Len(history) - m
  <2>1. /\ Trimmed \in Seq(Record)
        /\ m = IF runs < task.limit THEN runs ELSE task.limit - 1
        /\ \A k \in 1..m : k + d \in DOMAIN history /\ Trimmed[k] = history[k + d]
    BY <1>3, TrimmedHistory, Zenon
  <2>2. NewRecord \in Record /\ NewRecord.id = runs
    BY <1>1 DEF NewRecord, Record
  <2>3. Opened = Append(Trimmed, NewRecord)
    BY <1>1, <1>3 DEF Opened
  <2>4. /\ m \in Nat
        /\ Len(Opened) = m + 1 /\ DOMAIN Opened = 1..m + 1
        /\ \A k \in 1..m : Opened[k] = Trimmed[k]
        /\ Opened[m + 1] = NewRecord
    <3>1. /\ Append(Trimmed, NewRecord) \in Seq(Record)
          /\ Len(Append(Trimmed, NewRecord)) = m + 1
          /\ \A k \in 1..m : Append(Trimmed, NewRecord)[k] = Trimmed[k]
          /\ Append(Trimmed, NewRecord)[m + 1] = NewRecord
      BY <2>1, <2>2, AppendProperties
    <3>2. m \in Nat /\ DOMAIN Append(Trimmed, NewRecord) = 1..m + 1
      BY <2>1, <3>1, LenProperties
    <3> QED
      BY <2>3, <3>1, <3>2, Zenon
  <2>5. /\ Len(history) \in Nat /\ DOMAIN history = 1..Len(history)
        /\ Len(history) = IF runs < task.limit THEN runs ELSE task.limit
        /\ \A k \in DOMAIN history : history[k].id = runs - Len(history) + k - 1
    BY <1>1, LenProperties DEF HistoryIsRecentRuns
  <2> HIDE DEF m, d
  <2>6. d \in Int /\ Len(history) = m + d
    BY <2>4, <2>5 DEF d, m
  <2>7. \A k \in 1..m : Opened[k].id = runs - m + k - 1 /\ Opened[k].outcome # "open"
    <3> TAKE k \in 1..m
    <3>1. k + d \in DOMAIN history /\ Opened[k] = history[k + d]
      BY <2>1, <2>4
    <3>2. history[k + d].id = runs - Len(history) + (k + d) - 1
      BY <2>5, <3>1
    <3>3. runs - Len(history) + (k + d) - 1 = runs - m + k - 1
      BY <1>1, <2>4, <2>6
    <3> QED
      BY <3>1, <3>2, <3>3
  <2>8. Len(Opened) = IF runs + 1 < task.limit THEN runs + 1 ELSE task.limit
    BY <1>1, <1>3, <2>1, <2>4
  <2>9. \A k \in DOMAIN Opened : Opened[k].id = runs + 1 - Len(Opened) + k - 1
    <3> TAKE k \in DOMAIN Opened
    <3>1. CASE k = m + 1
      BY <1>1, <2>2, <2>4, <3>1
    <3>2. CASE k # m + 1
      <4>1. k \in 1..m
        BY <2>4, <3>2
      <4> QED
        BY <1>1, <2>4, <2>7, <4>1
    <3> QED
      BY <3>1, <3>2
  <2>10. \A k \in DOMAIN Opened : Opened[k].outcome = "open" => k = Len(Opened)
    <3> TAKE k \in DOMAIN Opened
    <3>1. k # m + 1 => k \in 1..m
      BY <2>4
    <3> QED
      BY <2>4, <2>7, <3>1
  <2>11. Recent(Opened, runs + 1, task.limit)
    BY <1>1, <2>4, <2>8, <2>9, <2>10
  <2>12. Opened[Len(Opened)] = NewRecord
    BY <2>4
  <2> QED
    BY <2>11, <2>12
<1> QED
  BY <1>1, <1>2, <1>3

(* The first record is opened with the first run. *)
LEMMA HistInit == Started => HistInv
<1> SUFFICES ASSUME Started PROVE HistInv
  OBVIOUS
<1>1. /\ history = <<>> /\ runs = 0 /\ ~running /\ pc = "idle" /\ Len(history) = 0
      /\ DOMAIN history = {} /\ task.limit \in Nat
  BY DEF Started, Fresh
<1> QED
  BY <1>1
  DEF HistInv, HistoryIsRecentRuns, RunningIsRecorded, AtRest, OpenPhases, Running

(* A run opens its record. *)
LEMMA HistOpen ==
  ASSUME TypeOK, HistInv, OpenRecord
  PROVE  HistInv'
<1>1. /\ pc \in AtRest /\ ~running
      /\ UNCHANGED <<running, task>> /\ history' = Opened /\ runs' = runs + 1 /\ runId' = runs
      /\ pc' = "opened"
  BY DEF OpenRecord, HistInv, AtRest, Running
<1>2. runs \in Nat /\ task.limit \in Nat
  BY DEF TypeOK
<1>3. /\ Recent(Opened, runs + 1, task.limit)
      /\ task.limit > 0 => Opened[Len(Opened)] = NewRecord
  BY <1>1, OpenedHistory DEF HistInv
<1>4. /\ Recent(history', runs', task'.limit)
      /\ task'.limit > 0 => history'[Len(history')] = NewRecord
  BY <1>1, <1>3
<1>5. HistoryIsRecentRuns'
  BY <1>1, <1>4 DEF HistoryIsRecentRuns, Recent
<1>6. runs' > 0 /\ runId' = runs' - 1 /\ NewRecord = [id |-> runId', outcome |-> "open", attempts |-> 0]
  BY <1>1, <1>2 DEF NewRecord
<1>7. RunningIsRecorded'
  BY <1>1 DEF RunningIsRecorded
<1> QED
  BY <1>1, <1>4, <1>5, <1>6, <1>7 DEF HistInv, AtRest, OpenPhases, Running

(* A run that is over closes its record: the newest, which is the only one *)
(* with its id.                                                            *)
LEMMA HistFinish ==
  ASSUME TypeOK, HistInv, FinishRun
  PROVE  HistInv'
<1> DEFINE n == Len(history)
           closed == [id |-> runId, outcome |-> outcome, attempts |-> attempts]
<1>1. /\ n \in Nat /\ DOMAIN history = 1..n /\ runs \in Nat
      /\ n = IF runs < task.limit THEN runs ELSE task.limit
      /\ \A k \in 1..n : history[k].id = runs - n + k - 1
      /\ \A k \in 1..n : history[k].outcome = "open" => k = n
      /\ runId = runs - 1 /\ ~running
  BY LenProperties
  DEF TypeOK, HistInv, HistoryIsRecentRuns, FinishRun, OpenPhases, Running
<1>2. /\ history' = [k \in 1..n |-> IF history[k].id = runId THEN closed ELSE history[k]]
      /\ pc' = "retire" /\ UNCHANGED <<task, runs, runId, running>>
  BY <1>1 DEF FinishRun
<1>3. closed.outcome # "open" /\ closed.id = runId
  BY DEF TypeOK, Outcomes
<1>4. Len(history') = n /\ DOMAIN history' = 1..n
  BY <1>1, FinishRunType
<1> HIDE DEF n, closed
<1>5. \A k \in 1..n : history'[k].id = history[k].id /\ history'[k].outcome # "open"
  <2> TAKE k \in 1..n
  <2>1. CASE history[k].id = runId
    BY <1>2, <1>3, <2>1
  <2>2. CASE history[k].id # runId
    <3>1. k # n
      BY <1>1, <2>2
    <3> QED
      BY <1>1, <1>2, <2>2, <3>1
  <2> QED
    BY <2>1, <2>2
<1>6. HistoryIsRecentRuns'
  BY <1>1, <1>2, <1>4, <1>5 DEF HistoryIsRecentRuns
<1> QED
  BY <1>1, <1>2, <1>4, <1>5, <1>6
  DEF HistInv, RunningIsRecorded, AtRest, OpenPhases, Running

(* Within a run, between runs, and when the driver dies, the history       *)
(* stays as it is.                                                         *)
LEMMA HistKept ==
  ASSUME TypeOK, HistInv, UNCHANGED <<task, history, runs, runId>>,
         \/ pc \in Running /\ pc' \in Running /\ UNCHANGED running
         \/ pc = "opened" /\ pc' = "enter" /\ running' = TRUE
         \/ pc = "clear" /\ pc' = "finish" /\ running' = FALSE
         \/ pc \in AtRest /\ pc' \in AtRest /\ UNCHANGED running
         \/ pc' = "dead" /\ UNCHANGED running
  PROVE  HistInv'
<1>1. HistoryIsRecentRuns'
  BY DEF HistInv, HistoryIsRecentRuns, AtRest, Running
<1>2. RunningIsRecorded'
  <2>1. CASE running' = running
    BY <2>1 DEF HistInv, RunningIsRecorded
  <2>2. CASE pc = "opened" /\ pc' = "enter" /\ running' = TRUE
    <3>1. /\ runs > 0 /\ runId = runs - 1
          /\ task.limit > 0 =>
               history[Len(history)] = [id |-> runId, outcome |-> "open", attempts |-> 0]
      BY <2>2 DEF HistInv, OpenPhases
    <3>2. task.limit > 0 => history # <<>>
      <4>1. Len(history) = (IF runs < task.limit THEN runs ELSE task.limit) /\ Len(<<>>) = 0
        BY EmptySeq DEF HistInv, HistoryIsRecentRuns
      <4> QED
        BY <3>1, <4>1 DEF TypeOK
    <3> QED
      BY <3>1, <3>2 DEF RunningIsRecorded
  <2>3. CASE running' = FALSE
    BY <2>3 DEF RunningIsRecorded
  <2> QED
    BY <2>1, <2>2, <2>3
<1> QED
  BY <1>1, <1>2 DEF HistInv, AtRest, OpenPhases, Running

(* Every step keeps the invariant. *)
LEMMA HistStep ==
  ASSUME TypeOK, HistInv, [Next]_vars
  PROVE  HistInv'
<1>1. CASE OpenRecord
  BY <1>1, HistOpen
<1>2. CASE FinishRun
  BY <1>2, HistFinish
<1>3. CASE SetRunning \/ ClearRunning
  BY <1>3, HistKept DEF SetRunning, ClearRunning
<1>4. CASE Refuse \/ Enter \/ BeginAttempt
  BY <1>4, HistKept DEF Refuse, Enter, BeginAttempt, Running
<1>5. CASE StepSucceeds \/ StepDeletes \/ StepFails \/ StepTimesOut
  <2>1. /\ UNCHANGED <<task, history, runs, runId, running>>
        /\ pc = "attempt" /\ pc' \in {"next", "delay", "end"}
    BY <1>5 DEF StepSucceeds, StepDeletes, StepFails, StepTimesOut, FailAttempt
  <2> QED
    BY <2>1, HistKept DEF Running
<1>6. CASE EndSteps \/ Notify \/ Reschedule
  BY <1>6, HistKept DEF EndSteps, Notify, Reschedule, Running
<1>7. CASE Retire \/ Publish \/ Loop
  <2>1. /\ UNCHANGED <<task, history, runs, runId, running>>
        /\ pc \in AtRest /\ pc' \in AtRest
    BY <1>7 DEF Retire, Publish, Loop, AtRest
  <2> QED
    BY <2>1, HistKept
<1>8. CASE Die
  BY <1>8, HistKept DEF Die
<1>9. CASE UNCHANGED vars
  BY <1>9 DEF vars, HistInv, HistoryIsRecentRuns, RunningIsRecorded
<1> QED
  BY <1>1, <1>2, <1>3, <1>4, <1>5, <1>6, <1>7, <1>8, <1>9 DEF Next, Proceed, UserCode

(* Hence the invariant holds in every behaviour. *)
LEMMA HistCorrect == Spec => []HistInv
  BY InitStarted, HistInit, HistStep, TaskTypes, PTL DEF Spec

(* The history holds the last runs, in order, without gaps, up to its      *)
(* limit, and only the newest record can be open.                          *)
THEOREM HistoryIsRecent == Spec => []HistoryIsRecentRuns
<1>1. HistInv => HistoryIsRecentRuns
  BY DEF HistInv
<1> QED
  BY <1>1, HistCorrect, PTL

(* Whoever sees running set finds the open record of the run, at the       *)
(* driver's suspensions and after its death too.                           *)
THEOREM RunningHasRecord == Spec => []RunningIsRecorded
<1>1. HistInv => RunningIsRecorded
  BY DEF HistInv
<1> QED
  BY <1>1, HistCorrect, PTL

(* Where a record comes from: it was there, or it is the open record of a  *)
(* new run, or the result of the run that ends.                            *)
LEMMA RecordsCome ==
  ASSUME TypeOK, HistInv, [Next]_vars, NEW j \in DOMAIN history'
  PROVE  \/ \E k \in DOMAIN history : history'[j] = history[k]
         \/ OpenRecord /\ history'[j] = NewRecord
         \/ /\ FinishRun /\ history[j].id = runId
            /\ history'[j] = [id |-> runId, outcome |-> outcome, attempts |-> attempts]
<1>1. CASE OpenRecord
  <2>1. history' = Opened /\ history \in Seq(Record) /\ runs \in Nat /\ task.limit \in Nat
    BY <1>1 DEF OpenRecord, TypeOK, Record
  <2>2. CASE task.limit = 0
    <3>1. history = <<>>
      BY <2>1, <2>2, EmptySeq DEF HistInv, HistoryIsRecentRuns
    <3> QED
      BY <2>1, <2>2, <3>1 DEF Opened, Trimmed
  <2>3. CASE task.limit > 0
    <3>1. /\ Trimmed \in Seq(Record)
          /\ \A k \in 1..Len(Trimmed) :
               /\ k + (Len(history) - Len(Trimmed)) \in DOMAIN history
               /\ Trimmed[k] = history[k + (Len(history) - Len(Trimmed))]
      BY <2>3, TrimmedHistory DEF HistInv
    <3>2. NewRecord \in Record
      BY <2>1 DEF NewRecord, Record
    <3>3. /\ Len(Trimmed) \in Nat
          /\ DOMAIN Append(Trimmed, NewRecord) = 1..Len(Trimmed) + 1
          /\ \A k \in 1..Len(Trimmed) : Append(Trimmed, NewRecord)[k] = Trimmed[k]
          /\ Append(Trimmed, NewRecord)[Len(Trimmed) + 1] = NewRecord
      BY <3>1, <3>2, AppendProperties, LenProperties
    <3>4. history' = Append(Trimmed, NewRecord)
      BY <2>1, <2>3 DEF Opened
    <3>5. CASE j = Len(Trimmed) + 1
      BY <1>1, <3>3, <3>4, <3>5
    <3>6. CASE j # Len(Trimmed) + 1
      <4>1. j \in 1..Len(Trimmed)
        BY <3>3, <3>4, <3>6
      <4> QED
        BY <3>1, <3>3, <3>4, <4>1
    <3> QED
      BY <3>5, <3>6
  <2> QED
    BY <2>1, <2>2, <2>3
<1>2. CASE FinishRun
  BY <1>2 DEF FinishRun
<1>3. CASE history' = history
  BY <1>3
<1> QED
  BY <1>1, <1>2, <1>3
  DEF Next, Proceed, UserCode, vars, SetRunning, Refuse, Enter, BeginAttempt, StepTimesOut,
      EndSteps, ClearRunning, Retire, Publish, Loop, StepSucceeds, StepDeletes, StepFails,
      Notify, Reschedule, Die

(* A step leaves what the closed records of the history say.               *)
ClosedStays ==
  \A k \in DOMAIN history, j \in DOMAIN history' :
    history[k].outcome # "open" /\ history'[j].id = history[k].id => history'[j] = history[k]

(* A record that finish_run has closed is never written again: while the   *)
(* history keeps it, it says of its run what was said when the run ended,  *)
(* whatever runs are opened, refused, retried or evicted later             *)
(* (start_run and finish_run of task.rs).                                  *)
THEOREM ClosedRecordsStay == Spec => [][ClosedStays]_vars
<1>1. ASSUME TypeOK, HistInv, HistInv', [Next]_vars,
             NEW k \in DOMAIN history, NEW j \in DOMAIN history',
             history[k].outcome # "open", history'[j].id = history[k].id
      PROVE  history'[j] = history[k]
  <2>1. /\ Len(history) \in Nat /\ DOMAIN history = 1..Len(history) /\ runs \in Nat
        /\ \A i \in DOMAIN history : history[i].id = runs - Len(history) + i - 1
    BY <1>1, LenProperties DEF TypeOK, HistInv, HistoryIsRecentRuns
  <2>2. \A i \in DOMAIN history : history[i].id = history[k].id => i = k
    BY <2>1
  <2>3. history[k].id < runs
    BY <2>1
  <2>4. CASE \E i \in DOMAIN history : history'[j] = history[i]
    BY <1>1, <2>2, <2>4
  <2>5. ~(OpenRecord /\ history'[j] = NewRecord)
    BY <1>1, <2>1, <2>3 DEF NewRecord
  <2>6. ~(FinishRun /\ history[j].id = runId /\ history'[j].id = runId)
    <3> SUFFICES ASSUME FinishRun, history'[j].id = runId PROVE FALSE
      OBVIOUS
    <3>1. runId = runs - 1 /\ pc \in OpenPhases
      BY <1>1 DEF FinishRun, HistInv, OpenPhases
    <3>2. k = Len(history)
      <4>1. history[k].id = runId
        BY <1>1
      <4>2. k \in 1..Len(history) /\ history[k].id = runs - Len(history) + k - 1
        BY <1>1, <2>1
      <4> QED
        BY <2>1, <3>1, <4>1, <4>2
    <3>3. task.limit > 0 => history[Len(history)].outcome = "open"
      BY <1>1, <3>1 DEF HistInv
    <3>4. task.limit \in Nat /\ (task.limit = 0 => Len(history) = 0)
      BY <1>1, <2>1 DEF TypeOK, HistInv, HistoryIsRecentRuns
    <3> QED
      BY <1>1, <2>1, <3>2, <3>3, <3>4
  <2> QED
    BY <1>1, <2>4, <2>5, <2>6, RecordsCome
<1>2. TypeOK /\ HistInv /\ HistInv' /\ [Next]_vars => ClosedStays
  BY <1>1 DEF ClosedStays
<1>3. TypeOK /\ HistInv /\ HistInv' /\ [Next]_vars => [ClosedStays]_vars
  BY <1>2
<1> QED
  BY <1>3, HistCorrect, TaskTypes, PTL DEF Spec

-----------------------------------------------------------------------------
(* The steps of a run.                                                     *)

AfterSteps == AtRest \union {"notify", "reschedule", "clear", "finish"}

(* A run that was not refused has ended its steps. *)
Over(phases) == pc \in phases /\ runs > 0 /\ ~refused

(* The states of the present step and of those after it. *)
Rest(here, later) ==
  \A i \in Step : (i = index => states[i] = here) /\ (i > index => states[i] = later)

(* Before the present step all are done; the present one is pending or, at *)
(* the end, failed; those after it are pending until the run is over.      *)
StepInv ==
  /\ sink = states
  /\ index \in 1..task.steps + 1
  /\ \A i \in Step : i < index => states[i] \in Done
  /\ Rest("Pending", "Pending") \/ Rest("Failed", "Pending") \/ Rest("Failed", "Skipped")
  /\ pc \in {"attempt", "delay", "end"} => index \in Step
  /\ pc \in {"next", "attempt", "delay"} => Rest("Pending", "Pending")
  /\ pc = "end" => Rest("Failed", "Pending")
  /\ Over(AfterSteps) => Rest("Failed", "Skipped")

(* Before the first run all steps are pending. *)
LEMMA StepInit == Started => StepInv
<1> SUFFICES ASSUME Started PROVE StepInv
  OBVIOUS
<1>1. /\ sink = states /\ index = 1 /\ runs = 0 /\ pc = "idle" /\ task.steps \in Nat
      /\ \A i \in Step : states[i] = "Pending"
  BY DEF Started, Fresh, AllPending
<1>2. index \in 1..task.steps + 1 /\ \A i \in Step : ~(i < index)
  BY <1>1 DEF Step
<1> QED
  BY <1>1, <1>2 DEF StepInv, Rest, Over

(* A run starts with all steps pending, and stands before the first.       *)
LEMMA StepEnter ==
  ASSUME TypeOK, Enter
  PROVE  StepInv'
<1>1. /\ states' = [i \in Step |-> "Pending"] /\ sink' = states' /\ index' = 1 /\ pc' = "next"
      /\ task' = task /\ task.steps \in Nat
  BY DEF Enter, ResetSteps, AllPending, TypeOK
<1>2. /\ index' \in 1..task'.steps + 1
      /\ \A i \in Step' : ~(i < index') /\ states'[i] = "Pending"
  BY <1>1 DEF Step
<1>3. Rest("Pending", "Pending")'
  BY <1>2 DEF Rest
<1> QED
  BY <1>1, <1>2, <1>3 DEF StepInv, Over, AfterSteps, AtRest

(* The present step gets its result. *)
LEMMA StepMarked ==
  ASSUME TypeOK, StepInv, pc = "attempt", NEW s, MarkStep(s), task' = task
  PROVE  /\ sink' = states' /\ index \in Step /\ Step' = Step /\ states'[index] = s
         /\ \A i \in Step : /\ i < index => states'[i] \in Done
                            /\ i > index => states'[i] = "Pending"
<1>1. /\ states' = [states EXCEPT ![index] = s] /\ sink' = states' /\ index \in Step
      /\ states \in [Step -> StepStatuses] /\ Step \subseteq Nat
  BY DEF MarkStep, StepInv, TypeOK, Step
<1>2. \A i \in Step : i # index => states'[i] = states[i]
  BY <1>1
<1>3. states'[index] = s /\ Step' = Step
  BY <1>1 DEF Step
<1>4. \A i \in Step : (i < index => i # index) /\ (i > index => i # index)
  BY <1>1
<1> QED
  BY <1>1, <1>2, <1>3, <1>4 DEF StepInv, Rest

(* A step that is done is followed by the next one. *)
LEMMA StepDone ==
  ASSUME TypeOK, StepInv, StepSucceeds
  PROVE  StepInv'
<1>1. PICK s \in Done : MarkStep(s)
  BY DEF StepSucceeds, Done
<1>2. pc = "attempt" /\ pc' = "next" /\ index' = index + 1 /\ task' = task
  BY DEF StepSucceeds
<1>3. /\ sink' = states' /\ index \in Step /\ Step' = Step /\ states'[index] \in Done
      /\ \A i \in Step : /\ i < index => states'[i] \in Done
                         /\ i > index => states'[i] = "Pending"
  BY <1>1, <1>2, StepMarked
<1>4. /\ index' \in 1..task'.steps + 1
      /\ \A i \in Step : (i < index' => i < index \/ i = index) /\ (~(i < index') => i > index)
      /\ \A i \in Step : i = index' \/ i > index' => i > index
  BY <1>2, <1>3 DEF TypeOK, Step
<1>5. \A i \in Step' : i < index' => states'[i] \in Done
  BY <1>3, <1>4
<1>6. Rest("Pending", "Pending")'
  BY <1>3, <1>4 DEF Rest
<1> QED
  BY <1>2, <1>3, <1>4, <1>5, <1>6 DEF StepInv, Over, AfterSteps, AtRest

(* A step that has failed for good ends the steps of the run. *)
LEMMA StepFailed ==
  ASSUME TypeOK, StepInv, pc = "attempt", MarkStep("Failed"), pc' = "end", UNCHANGED <<task, index>>
  PROVE  StepInv'
<1>1. /\ sink' = states' /\ index \in Step /\ Step' = Step /\ states'[index] = "Failed"
      /\ \A i \in Step : /\ i < index => states'[i] \in Done
                         /\ i > index => states'[i] = "Pending"
  BY StepMarked
<1>2. Rest("Failed", "Pending")'
  BY <1>1 DEF Rest
<1>3. index' \in 1..task'.steps + 1
  BY DEF StepInv
<1> QED
  BY <1>1, <1>2, <1>3 DEF StepInv, Over, AfterSteps, AtRest

(* What was not reached is skipped. *)
LEMMA StepEnd ==
  ASSUME TypeOK, StepInv, EndSteps
  PROVE  StepInv'
<1>1. /\ states' = SkipPending /\ sink' = states' /\ pc' = "notify" /\ UNCHANGED <<task, index>>
      /\ pc = "end" \/ (pc = "next" /\ index \notin Step)
  BY DEF EndSteps
<1>2. \A i \in Step : states'[i] = IF states[i] = "Pending" THEN "Skipped" ELSE states[i]
  BY <1>1 DEF SkipPending
<1>3. /\ index \in 1..task.steps + 1 /\ task.steps \in Nat
      /\ \A i \in Step : i < index => states[i] \in Done
  BY DEF StepInv, TypeOK
<1>4. \A i \in Step : i < index => states'[i] \in Done
  BY <1>2, <1>3 DEF Done
<1>5. Rest("Failed", "Skipped")'
  <2>1. CASE pc = "end"
    <3>1. Rest("Failed", "Pending")
      BY <2>1 DEF StepInv
    <3> QED
      BY <1>1, <1>2, <3>1 DEF Rest, Step
  <2>2. CASE index \notin Step
    <3>1. \A i \in Step : i < index /\ ~(i = index) /\ ~(i > index)
      BY <1>3, <2>2 DEF Step
    <3> QED
      BY <1>1, <3>1 DEF Rest, Step
  <2> QED
    BY <1>1, <2>1, <2>2
<1>6. \A i \in Step' : i < index' => states'[i] \in Done
  BY <1>1, <1>4 DEF Step
<1> QED
  BY <1>1, <1>3, <1>5, <1>6 DEF StepInv

(* Nothing else changes what the steps have come to. *)
LEMMA StepKept ==
  ASSUME StepInv, UNCHANGED <<task, states, index>>, sink' \in {sink, states},
         \/ pc' \in {"opened", "enter", "dead"}
         \/ pc = "enter" /\ pc' = "notify" /\ refused'
         \/ pc \in {"next", "delay"} /\ index \in Step /\ pc' = "attempt"
         \/ pc = "attempt" /\ pc' = "delay"
         \/ pc \in AfterSteps /\ pc' \in AfterSteps /\ UNCHANGED <<runs, refused>>
  PROVE  StepInv'
<1>1. /\ \A here, later : Rest(here, later)' <=> Rest(here, later)
      /\ Step' = Step
  BY DEF Rest, Step
<1>2. sink' = states'
  BY DEF StepInv
<1>3. /\ pc' \in {"attempt", "delay", "end"} => index \in Step
      /\ pc' \in {"next", "attempt", "delay"} => Rest("Pending", "Pending")
      /\ pc' # "end"
      /\ Over(AfterSteps)' => Rest("Failed", "Skipped")
  BY DEF StepInv, Over, AfterSteps, AtRest
<1> QED
  BY <1>1, <1>2, <1>3 DEF StepInv

(* Every step keeps the invariant. *)
LEMMA StepStep ==
  ASSUME TypeOK, StepInv, [Next]_vars
  PROVE  StepInv'
<1>1. CASE OpenRecord \/ SetRunning \/ Refuse \/ BeginAttempt \/ Die
  BY <1>1, StepKept DEF OpenRecord, SetRunning, Refuse, BeginAttempt, Die
<1>2. CASE Enter
  BY <1>2, StepEnter
<1>3. CASE StepSucceeds
  BY <1>3, StepDone
<1>4. CASE StepDeletes \/ StepFails \/ StepTimesOut
  <2>1. pc = "attempt" /\ UNCHANGED <<task, index>>
    BY <1>4 DEF StepDeletes, StepFails, StepTimesOut
  <2>2. \/ MarkStep("Failed") /\ pc' = "end"
        \/ pc' = "delay" /\ UNCHANGED <<states, sink>>
    BY <1>4 DEF StepDeletes, StepFails, StepTimesOut, FailAttempt
  <2> QED
    BY <2>1, <2>2, StepFailed, StepKept
<1>5. CASE EndSteps
  BY <1>5, StepEnd
<1>6. CASE Notify \/ Reschedule \/ ClearRunning \/ FinishRun \/ Retire \/ Publish \/ Loop
  <2>1. UNCHANGED <<task, states, index, runs, refused>> /\ sink' \in {sink, states}
    BY <1>6 DEF Notify, Reschedule, ClearRunning, FinishRun, Retire, Publish, Loop
  <2>2. pc \in AfterSteps /\ pc' \in AfterSteps
    BY <1>6
    DEF Notify, Reschedule, ClearRunning, FinishRun, Retire, Publish, Loop, AfterSteps, AtRest
  <2> QED
    BY <2>1, <2>2, StepKept
<1>7. CASE UNCHANGED vars
  BY <1>7 DEF vars, StepInv, Rest, Over, Step
<1> QED
  BY <1>1, <1>2, <1>3, <1>4, <1>5, <1>6, <1>7 DEF Next, Proceed, UserCode

(* Hence the invariant holds in every behaviour. *)
LEMMA StepCorrect == Spec => []StepInv
  BY InitStarted, StepInit, StepStep, TaskTypes, PTL DEF Spec

(* The step states that are streamed are in order whenever they are read:  *)
(* done up to a point, then at most one failure, then all pending or all   *)
(* skipped.                                                                *)
THEOREM StreamIsInOrder == Spec => []StreamedInOrder
<1>1. TypeOK /\ StepInv => StreamedInOrder
  <2> SUFFICES ASSUME TypeOK, StepInv, NEW i \in Step, NEW j \in Step, i < j
               PROVE  /\ sink[i] = "Failed" => sink[j] \in {"Pending", "Skipped"}
                      /\ sink[i] = "Pending" => sink[j] = "Pending"
                      /\ sink[i] = "Skipped" => sink[j] = "Skipped"
                      /\ sink[j] = "Skipped" => sink[i] \notin {"Pending"}
    BY DEF StreamedInOrder
  <2>1. /\ sink = states /\ index \in Nat /\ i \in Nat /\ j \in Nat
        /\ i < index => states[i] \in Done
        /\ j < index => states[j] \in Done
        /\ Rest("Pending", "Pending") \/ Rest("Failed", "Pending") \/ Rest("Failed", "Skipped")
    BY DEF StepInv, TypeOK, Step
  <2>2. CASE j < index
    BY <2>1, <2>2 DEF Done
  <2>3. CASE j >= index /\ i < index
    BY <2>1, <2>3 DEF Done, Rest
  <2>4. CASE i >= index
    <3>1. j > index /\ (i = index \/ i > index)
      BY <2>1, <2>4
    <3> QED
      BY <2>1, <3>1 DEF Rest
  <2> QED
    BY <2>1, <2>2, <2>3, <2>4
<1> QED
  BY <1>1, StepCorrect, TaskTypes, PTL

-----------------------------------------------------------------------------
(* The status, and what the callbacks are told.                            *)

(* The status follows the steps; a task that is over stays so, and only    *)
(* such a task refuses a run.                                              *)
StatusInv ==
  /\ pc \in AtRest \union {"opened", "enter", "clear", "finish"} =>
       status \in {"Scheduled", "Finished", "ForceRemoved"}
  /\ pc \in {"next", "attempt", "delay"} =>
       ~refused /\ status = (IF index = 1 THEN "Scheduled" ELSE "Executed")
  /\ pc = "end" => ~refused /\ status \in {"Failed", "ForceRemoved"}
  /\ pc \in {"notify", "reschedule"} /\ ~refused =>
       status \in (IF index \in Step THEN {"Failed", "ForceRemoved"} ELSE {"Executed"})
  /\ refused /\ pc # "dead" => IsTerminal

(* A task is scheduled before its first run. *)
LEMMA StatusInit == Started => StatusInv
  BY DEF Started, Fresh, StatusInv, AtRest

(* Every step keeps the invariant. *)
LEMMA StatusStep ==
  ASSUME TypeOK, StepInv, StatusInv, [Next]_vars
  PROVE  StatusInv'
<1> USE DEF StatusInv, AtRest, IsTerminal
<1>1. CASE OpenRecord \/ SetRunning \/ BeginAttempt \/ Die
  BY <1>1 DEF OpenRecord, SetRunning, BeginAttempt, Die
<1>2. CASE Refuse
  BY <1>2 DEF Refuse, Runnable
<1>3. CASE Enter
  BY <1>3 DEF Enter, Runnable
<1>4. CASE StepSucceeds
  <2>1. index' # 1
    BY <1>4 DEF StepSucceeds, StepInv, TypeOK
  <2> QED
    BY <1>4, <2>1 DEF StepSucceeds
<1>5. CASE StepDeletes
  BY <1>5 DEF StepDeletes
<1>6. CASE StepFails \/ StepTimesOut
  BY <1>6 DEF StepFails, StepTimesOut, FailAttempt
<1>7. CASE EndSteps
  <2>1. /\ pc' = "notify" /\ UNCHANGED <<task, index, refused>> /\ ~refused
        /\ pc = "end" \/ (pc = "next" /\ index \notin Step)
        /\ status' = IF task.steps = 0 THEN "Executed" ELSE status
    BY <1>7 DEF EndSteps
  <2>2. Step' = Step
    BY <2>1 DEF Step
  <2>3. CASE pc = "end"
    <3>1. index \in Step /\ task.steps # 0
      BY <2>3 DEF StepInv, Step, TypeOK
    <3> QED
      BY <2>1, <2>2, <2>3, <3>1
  <2>4. CASE pc = "next" /\ index \notin Step
    <3>1. index = 1 => task.steps = 0
      BY <2>4 DEF StepInv, Step, TypeOK
    <3> QED
      BY <2>1, <2>2, <2>4, <3>1
  <2> QED
    BY <2>1, <2>3, <2>4
<1>8. CASE Notify
  BY <1>8 DEF Notify, Step
<1>9. CASE Reschedule
  <2>1. pc = "reschedule" /\ pc' = "clear" /\ UNCHANGED refused
    BY <1>9 DEF Reschedule
  <2>2. status' \in {"Scheduled", "Finished", "ForceRemoved"}
    BY <1>9, <2>1 DEF Reschedule, TypeOK, Statuses
  <2>3. refused => status' = status
    BY <1>9, <2>1 DEF Reschedule
  <2> QED
    BY <2>1, <2>2, <2>3
<1>10. CASE ClearRunning \/ FinishRun \/ Retire \/ Publish \/ Loop
  BY <1>10 DEF ClearRunning, FinishRun, Retire, Publish, Loop
<1>11. CASE UNCHANGED vars
  BY <1>11 DEF vars, Step
<1> QED
  BY <1>1, <1>2, <1>3, <1>4, <1>5, <1>6, <1>7, <1>8, <1>9, <1>10, <1>11
  DEF Next, Proceed, UserCode

(* Hence the invariant holds in every behaviour. *)
LEMMA StatusCorrect == Spec => []StatusInv
  BY InitStarted, StatusInit, StatusStep, TaskTypes, StepCorrect, PTL DEF Spec

(* Each run that has ended its steps was or will at once be reported, and  *)
(* the end of the task was reported if it has come.                        *)
CallsInv ==
  pc # "dead" /\ ~refused =>
    /\ calls.success + calls.failure + (IF pc = "notify" THEN 1 ELSE 0) = executed
    /\ calls.finish = (IF IsTerminal /\ pc \notin {"end", "notify"} THEN 1 ELSE 0)

(* No callback was invoked before the first run. *)
LEMMA CallsInit == Started => CallsInv
  BY DEF Started, Fresh, CallsInv, IsTerminal

(* Every step keeps the invariant. *)
LEMMA CallsStep ==
  ASSUME TypeOK, StatusInv, CallsInv, [Next]_vars
  PROVE  CallsInv'
<1>0. /\ calls.success \in Nat /\ calls.failure \in Nat /\ calls.finish \in Nat
      /\ executed \in Nat
  BY DEF TypeOK
<1>1. CASE OpenRecord \/ SetRunning \/ BeginAttempt
  BY <1>1 DEF OpenRecord, SetRunning, BeginAttempt, CallsInv, IsTerminal
<1>2. CASE Refuse
  BY <1>2 DEF Refuse, CallsInv
<1>3. CASE Enter
  <2>1. /\ pc = "enter" /\ pc' = "next" /\ status = "Scheduled" /\ ~refused
        /\ UNCHANGED <<status, calls, executed>>
    BY <1>3 DEF Enter, Runnable, StatusInv, IsTerminal
  <2> QED
    BY <2>1 DEF CallsInv, IsTerminal
<1>4. CASE StepSucceeds \/ StepDeletes \/ StepFails \/ StepTimesOut
  <2>1. /\ pc = "attempt" /\ UNCHANGED <<calls, executed, refused>>
        /\ \/ pc' = "end"
           \/ pc' = "delay" /\ UNCHANGED status
           \/ pc' = "next" /\ status' = "Executed"
    BY <1>4 DEF StepSucceeds, StepDeletes, StepFails, StepTimesOut, FailAttempt
  <2>2. status \in {"Scheduled", "Executed"}
    BY <2>1 DEF StatusInv
  <2> QED
    BY <2>1, <2>2 DEF CallsInv, IsTerminal
<1>5. CASE EndSteps
  <2>1. /\ pc \in {"end", "next"} /\ pc' = "notify" /\ executed' = executed + 1
        /\ UNCHANGED <<calls, refused>>
    BY <1>5 DEF EndSteps
  <2>2. ~refused /\ (pc = "next" => status \in {"Scheduled", "Executed"})
    BY <2>1 DEF StatusInv
  <2>3. /\ calls.success + calls.failure + 0 = executed
        /\ calls.finish = 0
    BY <2>1, <2>2 DEF CallsInv, IsTerminal
  <2> QED
    BY <1>0, <2>1, <2>3 DEF CallsInv
<1>6. CASE Notify
  <2> SUFFICES ASSUME ~refused PROVE CallsInv'
    BY <1>6 DEF Notify, CallsInv
  <2>1. /\ pc = "notify" /\ pc' = "reschedule" /\ UNCHANGED <<status, executed, refused>>
    BY <1>6 DEF Notify
  <2>2. status \in {"Failed", "ForceRemoved", "Executed"}
    BY <2>1 DEF StatusInv
  <2>3. /\ calls'.success + calls'.failure = calls.success + calls.failure + 1
        /\ calls'.finish = IF status = "ForceRemoved" THEN calls.finish + 1 ELSE calls.finish
        /\ calls'.success \in Nat /\ calls'.failure \in Nat
    BY <1>6, <2>2, NotifyCounts DEF CallsType
  <2>4. /\ calls.success + calls.failure + 1 = executed
        /\ calls.finish = 0
    BY <2>1 DEF CallsInv
  <2>5. calls'.success + calls'.failure + 0 = executed
    BY <1>0, <2>3, <2>4
  <2> QED
    BY <2>1, <2>2, <2>3, <2>4, <2>5 DEF CallsInv, IsTerminal
<1>7. CASE Reschedule
  <2> SUFFICES ASSUME ~refused PROVE CallsInv'
    BY <1>7 DEF Reschedule, CallsInv
  <2>1. /\ pc = "reschedule" /\ pc' = "clear" /\ UNCHANGED <<executed, refused>>
    BY <1>7 DEF Reschedule
  <2>2. \/ status \in {"Failed", "Executed"} /\ status' \in {"Scheduled", "Finished"}
        \/ status = "ForceRemoved" /\ status' = status
    <3>1. status \in {"Failed", "Executed", "ForceRemoved"}
      BY <2>1 DEF StatusInv
    <3>2. CASE status \in {"Failed", "Executed"}
      <4>1. status' \in (IF left = 0 THEN {"Finished"} ELSE {"Scheduled", "Finished"})
        BY <1>7, <3>2 DEF Reschedule
      <4> QED
        BY <3>2, <4>1
    <3>3. CASE status = "ForceRemoved"
      BY <1>7, <3>3 DEF Reschedule
    <3> QED
      BY <3>1, <3>2, <3>3
  <2>3. /\ calls'.success = calls.success /\ calls'.failure = calls.failure
        /\ calls'.finish = IF status' = "Finished" THEN calls.finish + 1 ELSE calls.finish
    BY <1>7, RescheduleCounts
  <2>4. /\ calls.success + calls.failure + 0 = executed
        /\ calls.finish = IF status = "ForceRemoved" THEN 1 ELSE 0
    BY <2>1, <2>2 DEF CallsInv, IsTerminal
  <2> QED
    BY <2>1, <2>2, <2>3, <2>4 DEF CallsInv, IsTerminal
<1>8. CASE ClearRunning \/ FinishRun \/ Retire \/ Publish \/ Loop
  BY <1>8 DEF ClearRunning, FinishRun, Retire, Publish, Loop, CallsInv, IsTerminal
<1>9. CASE Die
  BY <1>9 DEF Die, CallsInv
<1>10. CASE UNCHANGED vars
  BY <1>10 DEF vars, CallsInv, IsTerminal
<1> QED
  BY <1>1, <1>2, <1>3, <1>4, <1>5, <1>6, <1>7, <1>8, <1>9, <1>10 DEF Next, Proceed, UserCode

(* Hence the invariant holds in every behaviour. *)
LEMMA CallsCorrect == Spec => []CallsInv
  BY InitStarted, CallsInit, CallsStep, TaskTypes, StatusCorrect, PTL DEF Spec

(* Each run that executed has been reported once, to on_success or to      *)
(* on_failure, and the end of the task once, to on_finish.                 *)
THEOREM RunsAreReported == Spec => []EachRunReported
<1>1. TypeOK /\ CallsInv => EachRunReported
  <2> SUFFICES ASSUME TypeOK, CallsInv, ~refused,
                      pc \in {"idle", "clear", "finish", "retire", "publish", "loop", "drain", "ended"}
               PROVE  /\ calls.success + calls.failure = executed
                      /\ calls.finish = (IF IsTerminal THEN 1 ELSE 0)
    BY DEF EachRunReported
  <2>1. calls.success \in Nat /\ calls.failure \in Nat
    BY DEF TypeOK
  <2> QED
    BY <2>1 DEF CallsInv
<1> QED
  BY <1>1, CallsCorrect, TaskTypes, PTL

(* Once on_finish was invoked no step of the task is attempted and no run  *)
(* of it executed.                                                         *)
THEOREM FinishIsFinal == Spec => NothingAfterFinish
<1>1. ASSUME TypeOK, StatusInv, CallsInv, [Next]_vars
      PROVE  [calls.finish > 0 => executed' = executed /\ attempts' = attempts]_vars
  <2>1. CASE Enter \/ BeginAttempt \/ EndSteps
    <3>1. CASE pc = "enter" /\ status = "Scheduled"
      BY <1>1, <3>1 DEF StatusInv, CallsInv, IsTerminal
    <3>2. CASE pc \in {"next", "delay", "end"}
      <4>1. ~refused /\ (status \in {"Scheduled", "Executed"} \/ pc = "end")
        BY <1>1, <3>2 DEF StatusInv
      <4> QED
        BY <1>1, <3>2, <4>1 DEF CallsInv, IsTerminal
    <3>3. \/ pc = "enter" /\ status = "Scheduled"
          \/ pc \in {"next", "delay", "end"}
      BY <2>1 DEF Enter, Runnable, BeginAttempt, EndSteps
    <3> QED
      BY <3>1, <3>2, <3>3
  <2>2. CASE ~(Enter \/ BeginAttempt \/ EndSteps)
    BY <1>1, <2>2
    DEF Next, Proceed, UserCode, OpenRecord, SetRunning, Refuse, StepSucceeds, StepDeletes, StepFails,
        StepTimesOut, Notify, Reschedule, ClearRunning, FinishRun, Retire, Publish, Loop, Die, vars
  <2> QED
    BY <2>1, <2>2
<1> QED
  BY <1>1, TaskTypes, StatusCorrect, CallsCorrect, PTL DEF Spec, NothingAfterFinish

-----------------------------------------------------------------------------
(* Attempts and retries.                                                   *)

(* How many steps the run came to. *)
Reached == IF index \in Step THEN index ELSE task.steps

(* Every step that was left took between one attempt and as many as the    *)
(* policy grants, and the present one has taken attempt.                   *)
AttemptInv ==
  /\ pc = "next" => attempt = 0
  /\ pc = "attempt" => attempt \in 1..Attempts
  /\ pc = "delay" => attempt \in 1..Attempts - 1
  /\ pc \in {"next", "attempt", "delay"} =>
       /\ index - 1 + attempt <= attempts
       /\ attempts <= (index - 1) * Attempts + attempt
  /\ pc = "end" \/ Over(AfterSteps) =>
       /\ Reached <= attempts
       /\ attempts <= Reached * Attempts

(* Before the first run nothing was attempted. *)
LEMMA AttemptInit == Started => AttemptInv
  BY DEF Started, Fresh, AttemptInv, Over

(* Leaving a step with at most as many attempts as the policy grants.      *)
LEMMA AttemptsOfStep ==
  ASSUME NEW i \in Nat \ {0}, NEW limit \in Nat, NEW made \in Nat, NEW all \in Nat,
         1 <= made, made <= limit,
         i - 1 + made <= all, all <= (i - 1) * limit + made
  PROVE  i <= all /\ all <= i * limit
<1>1. (i - 1) * limit + limit = i * limit /\ (i - 1) * limit \in Nat
  OBVIOUS
<1> QED
  BY <1>1

(* The last attempt of a step, whether it succeeded or not. *)
LEMMA StepLeft ==
  ASSUME TypeOK, StepInv, AttemptInv, pc = "attempt"
  PROVE  /\ index \in Step /\ index <= attempts /\ attempts <= index * Attempts
         /\ index \in Nat /\ index * Attempts \in Nat
<1>1. /\ index \in Nat \ {0} /\ Attempts \in Nat /\ attempt \in Nat /\ attempts \in Nat
      /\ index \in Step
  BY DEF TypeOK, StepInv, Step, Attempts
<1>2. /\ 1 <= attempt /\ attempt <= Attempts
      /\ index - 1 + attempt <= attempts
      /\ attempts <= (index - 1) * Attempts + attempt
  BY <1>1 DEF AttemptInv
<1> HIDE DEF Attempts
<1>3. index <= attempts /\ attempts <= index * Attempts
  BY <1>1, <1>2, AttemptsOfStep
<1> QED
  BY <1>1, <1>3

(* Every step keeps the invariant. *)
LEMMA AttemptStep ==
  ASSUME TypeOK, StepInv, AttemptInv, [Next]_vars
  PROVE  AttemptInv'
<1>0. /\ index \in Nat \ {0} /\ attempt \in Nat /\ attempts \in Nat
      /\ Attempts \in Nat \ {0} /\ task.steps \in Nat
  BY DEF TypeOK, StepInv, Attempts
<1>1. Attempts' = Attempts /\ Step' = Step /\ task' = task
  BY DEF Next, Proceed, UserCode, OpenRecord, SetRunning, Refuse, Enter, BeginAttempt,
         StepSucceeds, StepDeletes, StepFails, StepTimesOut, EndSteps, Notify, Reschedule,
         ClearRunning, FinishRun, Retire, Publish, Loop, Die, vars, Attempts, Step
<1> HIDE DEF Attempts
<1>2. CASE OpenRecord \/ SetRunning \/ Refuse \/ Die
  BY <1>2 DEF OpenRecord, SetRunning, Refuse, Die, AttemptInv, Over, AfterSteps, AtRest
<1>3. CASE Enter
  <2>1. pc' = "next" /\ attempt' = 0 /\ attempts' = 0 /\ index' = 1
    BY <1>3 DEF Enter
  <2>2. (1 - 1) * Attempts = 0
    BY <1>0
  <2> QED
    BY <1>1, <2>1, <2>2 DEF AttemptInv, Over, AfterSteps, AtRest
<1>4. CASE BeginAttempt
  <2>1. /\ pc' = "attempt" /\ attempt' = attempt + 1 /\ attempts' = attempts + 1 /\ index' = index
        /\ pc \in {"next", "delay"}
    BY <1>4 DEF BeginAttempt
  <2>2. /\ attempt + 1 \in 1..Attempts
        /\ index - 1 + attempt <= attempts
        /\ attempts <= (index - 1) * Attempts + attempt
    BY <1>0, <2>1 DEF AttemptInv
  <2>3. (index - 1) * Attempts \in Nat
    BY <1>0
  <2>4. /\ index - 1 + (attempt + 1) <= attempts + 1
        /\ attempts + 1 <= (index - 1) * Attempts + (attempt + 1)
    BY <1>0, <2>2, <2>3
  <2> QED
    BY <1>1, <2>1, <2>2, <2>4 DEF AttemptInv, Over, AfterSteps, AtRest
<1>5. CASE StepSucceeds
  <2>1. /\ pc = "attempt" /\ pc' = "next" /\ attempt' = 0 /\ attempts' = attempts
        /\ index' = index + 1
    BY <1>5 DEF StepSucceeds
  <2>2. /\ index <= attempts /\ attempts <= index * Attempts /\ index * Attempts \in Nat
    BY <2>1, StepLeft
  <2>3. index' - 1 = index /\ index + 0 = index /\ index * Attempts + 0 = index * Attempts
    BY <1>0, <2>1, <2>2
  <2>4. /\ index' - 1 + attempt' <= attempts'
        /\ attempts' <= (index' - 1) * Attempts + attempt'
    BY <2>1, <2>2, <2>3
  <2> QED
    BY <1>1, <2>1, <2>4 DEF AttemptInv, Over, AfterSteps, AtRest
<1>6. CASE StepDeletes \/ StepFails \/ StepTimesOut
  <2>1. /\ pc = "attempt" /\ UNCHANGED <<attempt, attempts, index>>
        /\ pc' = "end" \/ (pc' = "delay" /\ attempt < Attempts)
    BY <1>6 DEF StepDeletes, StepFails, StepTimesOut, FailAttempt, RetriesLeft
  <2>2. CASE pc' = "end"
    <3>1. index \in Step /\ index <= attempts /\ attempts <= index * Attempts
      BY <2>1, StepLeft
    <3>2. Reached' = index
      BY <1>1, <2>1, <3>1 DEF Reached
    <3> QED
      BY <1>1, <2>1, <2>2, <3>1, <3>2 DEF AttemptInv
  <2>3. CASE pc' = "delay" /\ attempt < Attempts
    <3>1. attempt \in 1..Attempts - 1
      BY <1>0, <2>1, <2>3 DEF AttemptInv
    <3> QED
      BY <1>1, <2>1, <2>3, <3>1 DEF AttemptInv, Over, AfterSteps, AtRest
  <2> QED
    BY <2>1, <2>2, <2>3
<1>7. CASE EndSteps
  <2>1. /\ pc = "end" \/ (pc = "next" /\ index \notin Step)
        /\ pc' = "notify" /\ UNCHANGED <<attempt, attempts, index>>
    BY <1>7 DEF EndSteps
  <2>2. Reached' = Reached
    BY <1>1, <2>1 DEF Reached
  <2>3. CASE pc = "end"
    BY <1>1, <2>1, <2>2, <2>3 DEF AttemptInv
  <2>4. CASE pc = "next" /\ index \notin Step
    <3>1. Reached = index - 1 /\ index - 1 \in Nat
      BY <1>0, <2>4 DEF Reached, StepInv, Step
    <3>2. /\ index - 1 + 0 <= attempts
          /\ attempts <= (index - 1) * Attempts + 0
      BY <2>4 DEF AttemptInv
    <3>3. Reached <= attempts /\ attempts <= Reached * Attempts
      BY <1>0, <3>1, <3>2
    <3> QED
      BY <1>1, <2>1, <2>2, <3>3 DEF AttemptInv
  <2> QED
    BY <2>1, <2>3, <2>4
<1>8. CASE Notify \/ Reschedule \/ ClearRunning \/ FinishRun \/ Retire \/ Publish \/ Loop
  <2>1. UNCHANGED <<index, attempts, runs, refused>>
    BY <1>8 DEF Notify, Reschedule, ClearRunning, FinishRun, Retire, Publish, Loop
  <2>2. pc \in AfterSteps /\ pc' \in AfterSteps
    BY <1>8
    DEF Notify, Reschedule, ClearRunning, FinishRun, Retire, Publish, Loop, AfterSteps, AtRest
  <2>3. Reached' = Reached /\ (Over(AfterSteps)' => Over(AfterSteps))
    BY <1>1, <2>1, <2>2 DEF Reached, Over
  <2> QED
    BY <1>1, <2>1, <2>2, <2>3 DEF AttemptInv, AfterSteps, AtRest
<1>9. CASE UNCHANGED vars
  <2>1. Reached' = Reached /\ (Over(AfterSteps)' => Over(AfterSteps))
    BY <1>1, <1>9 DEF vars, Reached, Over
  <2> QED
    BY <1>1, <1>9, <2>1 DEF vars, AttemptInv
<1> QED
  BY <1>2, <1>3, <1>4, <1>5, <1>6, <1>7, <1>8, <1>9, [Next]_vars DEF Next, Proceed, UserCode

(* Hence the invariant holds in every behaviour. *)
LEMMA AttemptCorrect == Spec => []AttemptInv
  BY InitStarted, AttemptInit, AttemptStep, TaskTypes, StepCorrect, PTL DEF Spec

-----------------------------------------------------------------------------
(* The result of a run and its record.                                     *)

(* The outcome says what the steps came to, and the newest record holds    *)
(* it, with the attempts, once the run is closed.                          *)
OutcomeInv ==
  /\ Over(AtRest \union {"reschedule", "clear", "finish"}) =>
       /\ outcome \in {"Failed", "ForceRemoved"} <=> index \in Step
       /\ outcome = "HadErrors" <=> index \notin Step /\ \E i \in Step : states[i] = "HadErrors"
  /\ pc \in AtRest /\ history # <<>> =>
       history[Len(history)] = [id |-> runs - 1, outcome |-> outcome, attempts |-> attempts]

(* There is no record before the first run. *)
LEMMA OutcomeInit == Started => OutcomeInv
  BY DEF Started, Fresh, OutcomeInv, Over

(* run_outcome looks at the status first, so an error of a step counts     *)
(* only if no step has failed.                                             *)
LEMMA OutcomeTold ==
  ASSUME TypeOK, StatusInv, Notify, ~refused
  PROVE  /\ outcome' \in {"Failed", "ForceRemoved"} <=> index \in Step
         /\ outcome' = "HadErrors" <=> index \notin Step /\ \E i \in Step : states[i] = "HadErrors"
<1>1. outcome' = RunOutcome /\ pc = "notify"
  BY DEF Notify
<1>2. DOMAIN states = Step
  BY DEF TypeOK
<1>3. CASE index \in Step
  <2>1. status \in {"Failed", "ForceRemoved"}
    BY <1>1, <1>3 DEF StatusInv
  <2> QED
    BY <1>1, <1>3, <2>1 DEF RunOutcome
<1>4. CASE index \notin Step
  <2>1. status = "Executed"
    BY <1>1, <1>4 DEF StatusInv
  <2> QED
    BY <1>1, <1>2, <1>4, <2>1 DEF RunOutcome
<1> QED
  BY <1>3, <1>4

(* The record that is closed is the newest one. *)
LEMMA LastIsClosed ==
  ASSUME TypeOK, HistInv, FinishRun, history' # <<>>
  PROVE  history'[Len(history')] = [id |-> runId, outcome |-> outcome, attempts |-> attempts]
<1>1. /\ Len(history) \in Nat /\ DOMAIN history = 1..Len(history) /\ runs \in Nat
      /\ runId = runs - 1
      /\ \A k \in DOMAIN history : history[k].id = runs - Len(history) + k - 1
  BY LenProperties
  DEF TypeOK, HistInv, HistoryIsRecentRuns, FinishRun, OpenPhases, Running
<1>2. /\ history' \in Seq(Record)
      /\ DOMAIN history' = DOMAIN history /\ Len(history') = Len(history)
  BY FinishRunType
<1>3. Len(history) # 0
  BY <1>2, EmptySeq
<1>4. Len(history) \in DOMAIN history /\ history[Len(history)].id = runId
  <2>1. Len(history) \in DOMAIN history
    BY <1>1, <1>3
  <2>2. history[Len(history)].id = runs - Len(history) + Len(history) - 1
    BY <1>1, <2>1
  <2> QED
    BY <1>1, <2>1, <2>2
<1>5. history'[Len(history)] = [id |-> runId, outcome |-> outcome, attempts |-> attempts]
  BY <1>4 DEF FinishRun
<1> QED
  BY <1>2, <1>5

(* Every step keeps the invariant. *)
LEMMA OutcomeStep ==
  ASSUME TypeOK, HistInv, StepInv, StatusInv, OutcomeInv, [Next]_vars
  PROVE  OutcomeInv'
<1> DEFINE late == AtRest \union {"reschedule", "clear", "finish"}
<1>1. CASE OpenRecord \/ SetRunning \/ Refuse \/ Enter \/ BeginAttempt \/ Die
  <2>1. pc' \notin late
    BY <1>1 DEF OpenRecord, SetRunning, Refuse, Enter, BeginAttempt, Die, AtRest
  <2> QED
    BY <2>1 DEF OutcomeInv, Over
<1>2. CASE StepSucceeds \/ StepDeletes \/ StepFails \/ StepTimesOut \/ EndSteps
  <2>1. pc' \notin late
    BY <1>2
    DEF StepSucceeds, StepDeletes, StepFails, StepTimesOut, FailAttempt, EndSteps, AtRest
  <2> QED
    BY <2>1 DEF OutcomeInv, Over
<1>3. CASE Notify
  <2>1. pc' = "reschedule" /\ UNCHANGED <<task, index, states, refused>>
    BY <1>3 DEF Notify
  <2>2. Step' = Step
    BY <2>1 DEF Step
  <2>3. ~refused' =>
          /\ outcome' \in {"Failed", "ForceRemoved"} <=> index \in Step
          /\ outcome' = "HadErrors" <=> index \notin Step /\ \E i \in Step : states[i] = "HadErrors"
    BY <1>3, <2>1, OutcomeTold
  <2> QED
    BY <2>1, <2>2, <2>3 DEF OutcomeInv, Over, AtRest
<1>4. CASE Reschedule \/ ClearRunning \/ FinishRun \/ Retire \/ Publish \/ Loop
  <2>1. UNCHANGED <<task, index, states, refused, outcome, attempts, runs, runId>>
    BY <1>4 DEF Reschedule, ClearRunning, FinishRun, Retire, Publish, Loop
  <2>2. pc \in late /\ pc' \in late /\ (pc' \in AtRest => pc \in AtRest \/ FinishRun)
    BY <1>4 DEF Reschedule, ClearRunning, FinishRun, Retire, Publish, Loop, AtRest
  <2>3. Step' = Step
    BY <2>1 DEF Step
  <2>4. Over(late)' => Over(late)
    BY <2>1, <2>2 DEF Over
  <2>5. pc' \in AtRest /\ history' # <<>> =>
          history'[Len(history')] = [id |-> runs - 1, outcome |-> outcome, attempts |-> attempts]
    <3>1. CASE FinishRun
      <4>1. runId = runs - 1
        BY <3>1 DEF FinishRun, HistInv, OpenPhases
      <4> QED
        BY <3>1, <4>1, LastIsClosed
    <3>2. CASE ~FinishRun
      <4>1. UNCHANGED history
        BY <1>4, <3>2 DEF Reschedule, ClearRunning, Retire, Publish, Loop
      <4> QED
        BY <2>2, <3>2, <4>1 DEF OutcomeInv
    <3> QED
      BY <3>1, <3>2
  <2> QED
    BY <2>1, <2>3, <2>4, <2>5 DEF OutcomeInv
<1>5. CASE UNCHANGED vars
  BY <1>5 DEF vars, OutcomeInv, Over, Step
<1> QED
  BY <1>1, <1>2, <1>3, <1>4, <1>5 DEF Next, Proceed, UserCode

(* Hence the invariant holds in every behaviour. *)
LEMMA OutcomeCorrect == Spec => []OutcomeInv
  BY InitStarted, OutcomeInit, OutcomeStep, TaskTypes, HistCorrect, StepCorrect, StatusCorrect, PTL DEF Spec

(* What the steps show once a run is over, which is what the outcome says. *)
LEMMA StepsWhenOver ==
  ASSUME TypeOK, StepInv, RunOver
  PROVE  /\ Over(AtRest) /\ Over(AfterSteps)
         /\ sink = states /\ index \in Nat
         /\ \A i \in Step : /\ i < index => sink[i] \in Done
                            /\ i = index => sink[i] = "Failed"
                            /\ i > index => sink[i] = "Skipped"
<1>1. Over(AtRest) /\ Over(AfterSteps)
  BY DEF RunOver, Over, AtRest, AfterSteps
<1> QED
  BY <1>1 DEF StepInv, Rest, TypeOK

(* A closed record agrees with the steps of its run as observers see them. *)
THEOREM OutcomeIsTrue == Spec => []OutcomeMatchesSteps
<1>1. TypeOK /\ StepInv /\ OutcomeInv => OutcomeMatchesSteps
  <2> SUFFICES ASSUME TypeOK, StepInv, OutcomeInv, RunOver, history # <<>>
               PROVE  LET record == history[Len(history)]
                          failed == \E i \in Step : sink[i] = "Failed"
                          errors == \E i \in Step : sink[i] = "HadErrors"
                      IN  /\ record.outcome \in {"Failed", "ForceRemoved"} <=> failed
                          /\ record.outcome = "HadErrors" <=> errors /\ ~failed
                          /\ \A i \in Step : sink[i] # "Pending"
    BY DEF OutcomeMatchesSteps
  <2>1. /\ Over(AtRest)
        /\ sink = states /\ index \in Nat
        /\ \A i \in Step : /\ i < index => sink[i] \in Done
                           /\ i = index => sink[i] = "Failed"
                           /\ i > index => sink[i] = "Skipped"
    BY StepsWhenOver
  <2>2. \A i \in Step : i < index \/ i = index \/ i > index
    BY <2>1 DEF Step
  <2>3. (\E i \in Step : sink[i] = "Failed") <=> index \in Step
    BY <2>1, <2>2 DEF Done
  <2>4. \A i \in Step : sink[i] # "Pending"
    BY <2>1, <2>2 DEF Done
  <2>5. history[Len(history)].outcome = outcome
    BY <2>1 DEF OutcomeInv, Over
  <2>6. /\ outcome \in {"Failed", "ForceRemoved"} <=> index \in Step
        /\ outcome = "HadErrors" <=> index \notin Step /\ \E i \in Step : sink[i] = "HadErrors"
    BY <2>1 DEF OutcomeInv, Over
  <2> QED
    BY <2>3, <2>4, <2>5, <2>6
<1> QED
  BY <1>1, TaskTypes, StepCorrect, OutcomeCorrect, PTL

(* A closed record counts at least one attempt for each step that was      *)
(* reached, and at most 1 + max_retries.                                   *)
THEOREM RetriesWithinPolicy == Spec => []AttemptsWithinPolicy
<1>1. TypeOK /\ StepInv /\ AttemptInv /\ OutcomeInv => AttemptsWithinPolicy
  <2> SUFFICES ASSUME TypeOK, StepInv, AttemptInv, OutcomeInv, RunOver, history # <<>>
               PROVE  \E n \in 0..task.steps :
                        /\ {i \in Step : sink[i] # "Skipped"} = 1..n
                        /\ n <= history[Len(history)].attempts
                        /\ history[Len(history)].attempts <= n * Attempts
    BY DEF AttemptsWithinPolicy
  <2>1. /\ Over(AtRest) /\ Over(AfterSteps)
        /\ sink = states /\ index \in Nat
        /\ \A i \in Step : /\ i < index => sink[i] \in Done
                           /\ i = index => sink[i] = "Failed"
                           /\ i > index => sink[i] = "Skipped"
    BY StepsWhenOver
  <2>2. task.steps \in Nat /\ index \in 1..task.steps + 1
    BY DEF TypeOK, StepInv
  <2>3. Reached \in 0..task.steps /\ \A i \in Step : i <= Reached <=> i <= index
    BY <2>2 DEF Reached, Step
  <2>4. {i \in Step : sink[i] # "Skipped"} = 1..Reached
    <3>1. \A i \in Step : sink[i] # "Skipped" <=> i <= Reached
      <4> TAKE i \in Step
      <4>1. i \in Nat /\ (i < index \/ i = index \/ i > index) /\ (i > index <=> ~(i <= index))
        BY <2>1 DEF Step
      <4> QED
        BY <2>1, <2>3, <4>1 DEF Done
    <3>2. \A i : i \in 1..Reached <=> i \in Step /\ i <= Reached
      BY <2>2, <2>3 DEF Step
    <3> QED
      BY <3>1, <3>2
  <2>5. history[Len(history)].attempts = attempts
    BY <2>1 DEF OutcomeInv, Over
  <2>6. Reached <= attempts /\ attempts <= Reached * Attempts
    BY <2>1 DEF AttemptInv
  <2> QED
    BY <2>3, <2>4, <2>5, <2>6
<1> QED
  BY <1>1, TaskTypes, StepCorrect, AttemptCorrect, OutcomeCorrect, PTL

=============================================================================
