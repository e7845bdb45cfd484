SPECIFICATION Spec
CONSTANTS
  Name = {a}
  NoName = NoName
  Client = {h1}
  GenSlots = {1, 2}
  MaxTime = 2
  MaxTasks = 2
  MaxStarts = 2
  MaxCalls = 1
PROPERTY StoppedRefusesSpawns
CHECK_DEADLOCK FALSE
