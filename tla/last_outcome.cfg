SPECIFICATION Spec
CONSTANTS
  MaxSteps = 2
  MaxRetries = 1
  MaxHistory = 2
  MaxRepeats = 4
  MaxRuns = 3
INVARIANT CompletedRunHasOutcome
CHECK_DEADLOCK FALSE
