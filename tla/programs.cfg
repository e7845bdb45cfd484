SPECIFICATION ProgramSpec
CONSTANTS
  MaxSteps = 2
  MaxRetries = 4
  MaxHistory = 20
  MaxRepeats = 5
  MaxRuns = 12
  Milli = 4
  MaxU64 = 31
  MaxU128 = 255
  Bases = {0, 2, 4, 9, 40}
  Factors = {0, 1, 2, 3}
  Caps = {5, 20}
  Retries = {4}
  MaxOther = 2
INVARIANTS
  ProgramTypeOK
  RunStoreIsPrivate
  TotalCountsRuns
  DelaysAsDocumented
  ScheduleIsLastAsked
  ExamplesAsCoded
PROPERTIES
  ContextsInOrder
CHECK_DEADLOCK FALSE
