SPECIFICATION FairSpec
CONSTANTS
  Workflow = {"f"}
  Task = {"a", "b"}
  Worker = {"w", "v"}
  Key = {}
  NoKey = NoKey
  NoWorker = NoWorker
  WfOf <- PairWfOf
  Deps <- PairDeps
  Order <- PairOrder
  MaxAttempts <- PairAttempts
  Delay <- PairDelay
  Fits <- PairFits
  Requested <- PairCapacity
  LeaseDuration = 1
  WorkerTTL = 0
  MaxOutput = 1
  Chunk = {}
  MaxLeases = 4
  InitBus = 0
  Deliver <- Discard
PROPERTIES
  SilentLeasesEnd
  RetriesWake
  WorkflowsEnd
