SPECIFICATION FairSpec
CONSTANTS
  t1 = t1
  t2 = t2
  NoTask = NoTask
  Forever = Forever
  Task = {t1, t2}
  Overlap <- OverlapOf
  Repeats <- RepeatsOf
  Slots <- SlotsOf
  MultiThread = FALSE
  MayPanic = FALSE
  MaxTime = 1
  MaxCalls = 1
INVARIANTS
  OneRunInFlight
  NoStrandedPending
  SentPerInstant
PROPERTIES
  DispatchedOnlyIfDue
  NoRequestLost
  ReapableIsReaped
  DueIsDispatched
  ShutdownEndsDrivers
