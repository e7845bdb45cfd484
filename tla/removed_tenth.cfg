SPECIFICATION ProgramSpec
CONSTANTS
  MaxSteps = 2
  MaxRetries = 4
  MaxHistory = 20
  MaxRepeats = 5
  MaxRuns = 12
  Milli = 4
  MaxU64 = 31
  MaxU128 = 255
  Bases = {0}
  Factors = {1}
  Caps = {5}
  Retries = {4}
  MaxOther = 0
INVARIANT RemovedOnTenthExecution
CHECK_DEADLOCK FALSE
