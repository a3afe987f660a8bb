SPECIFICATION PassSpec
CONSTANTS
  Workflow = {"f"}
  Task = {"a", "b", "c", "d", "e"}
  Worker = {"w"}
  Key = {}
  NoKey = NoKey
  NoWorker = NoWorker
  WfOf <- GraphWfOf
  Deps <- GraphDeps
  Order <- GraphOrder
  MaxAttempts <- GraphAttempts
  Delay <- GraphDelay
  Fits <- GraphFits
  Requested <- GraphCapacity
  LeaseDuration = 2
  WorkerTTL = 1
  MaxOutput = 1
  Chunk = {}
  MaxLeases = 4
  InitBus = 0
  Deliver <- Discard
INVARIANTS
  PassAgrees
