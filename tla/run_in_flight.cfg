SPECIFICATION Spec
CONSTANTS
  t1 = t1
  t2 = t2
  NoTask = NoTask
  Forever = Forever
  Task = {t1}
  Overlap <- OverlapOf
  Repeats <- RepeatsOf
  Slots <- SlotsOf
  MultiThread = TRUE
  MayPanic = FALSE
  MaxTime = 3
  MaxCalls = 0
INVARIANT OneRunInFlight

