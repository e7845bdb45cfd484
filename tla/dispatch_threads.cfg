SPECIFICATION Spec
CONSTANTS
  t1 = t1
  t2 = t2
  NoTask = NoTask
  Forever = Forever
  Task = {t1}
  Overlap <- OverlapOf
  Repeats <- RepeatsOf
  Slots <- SlotsOf
  MultiThread = TRUE
  MayPanic = TRUE
  MaxTime = 3
  MaxCalls = 1
INVARIANTS
  TypeOK
  ParkedMeansPublished
  ExecutionsWithinRepeats
  SentPerInstant
  AnnouncedBeforeRetired
PROPERTIES
  RetiredNeverExecutes
  ImplementsRunQueue

