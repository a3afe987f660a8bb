SPECIFICATION MCSpec
CONSTANTS
  LeaseDuration = 2
  WorkerTTL = 1
  OutputLimit = 1
  ChunkLimit = 1
  FirstWorkflow = 1
  MinTasks = 1
  MaxTasks = 3
  MaxDependencies = 1
  MaxWorkers = 1
  MaxCapacity = 2
  LabelSets <- MCLabelSets
  Policies <- MCPolicies
  TimeSteps = {1, 2}
  TextSizes = {1}
  MaxTime = 2
  MaxLeases = 3
  MaxWriters = 1
CHECK_DEADLOCK FALSE
INVARIANTS
  TypeOK
  OverIsQuiet
  GeneratorAsksInOrder
  EveryTaskHasAPlace
PROPERTIES
  OnlyTwoChecksCanFail
  ClosedStaysClosed
  KeepsThePromise
