SPECIFICATION Spec
CONSTANTS
  Workflow = {"f"}
  Task = {"a", "b", "c"}
  Worker = {"w", "v"}
  Key = {}
  NoKey = NoKey
  NoWorker = NoWorker
  WfOf <- OneWfOf
  Deps <- OneDeps
  Order <- OneOrder
  MaxAttempts <- OneAttempts
  Delay <- OneDelay
  Fits <- OneFits
  Requested <- OneCapacity
  LeaseDuration = 2
  WorkerTTL = 1
  MaxOutput = 1
  Chunk = {}
  MaxLeases = 4
  InitBus = 0
  Deliver <- Discard
INVARIANTS
  TypeOK
  LeaseMatchesTask
  ActiveCountsLeases
  DependenciesDone
  TerminalIsQuiet
  OutcomeJustified
  NeverStuck
  BudgetDecides
PROPERTIES
  ClosedTokensStayClosed
  ResultsNeedALiveLease
  FinalIsForever
  BackoffRespected
