SPECIFICATION FairSpec
CONSTANTS
  Name = {a}
  NoName = NoName
  Client = {h1}
  GenSlots = {1, 2}
  MaxTime = 2
  MaxTasks = 2
  MaxStarts = 2
  MaxCalls = 2
INVARIANTS
  TypeOK
  RegistryLagsOneRound
  LiveIsRegistered
  DiscoveryPerInstant
PROPERTIES
  ImplementsDirectory
  NameCallHitsNamedTask
  AnswerIsVisible
  SpawnAnswered
  RemovalCompletes
CHECK_DEADLOCK FALSE
