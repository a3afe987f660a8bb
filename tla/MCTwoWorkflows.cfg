SPECIFICATION Spec
CONSTANTS
  Workflow = {"f", "g"}
  Task = {"a", "b", "x"}
  Worker = {"w"}
  Key = {"key"}
  NoKey = NoKey
  NoWorker = NoWorker
  WfOf <- TwoWfOf
  Deps <- TwoDeps
  Order <- TwoOrder
  MaxAttempts <- TwoAttempts
  Delay <- TwoDelay
  Fits <- TwoFits
  Requested <- TwoCapacity
  LeaseDuration = 2
  WorkerTTL = 0
  MaxOutput = 2
  Chunk = {1}
  MaxLeases = 4
  InitBus = 0
  Deliver <- Discard
INVARIANTS
  ActiveCountsLeases
PROPERTIES
  KeepsThePromise
