SPECIFICATION FairSpec
CONSTANTS
  MaxSteps = 2
  MaxRetries = 1
  MaxHistory = 2
  MaxRepeats = 4
  MaxRuns = 3
INVARIANTS
  TypeOK
  StreamedInOrder
  OutcomeMatchesSteps
  HistoryIsRecentRuns
  RunningIsRecorded
  AttemptsWithinPolicy
  EachRunReported
PROPERTIES
  NothingAfterFinish
  TimeoutEndsRun
CHECK_DEADLOCK FALSE
