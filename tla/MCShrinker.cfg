SPECIFICATION Spec
CONSTANTS
  LeaseDuration = 2
  WorkerTTL = 9
  OutputLimit = 4
  ChunkLimit = 4
  FirstWorkflow = 1
  MaxRounds = 6
  Ladder <- MCLadder
  Scenarios <- MCScenarios
INVARIANTS
  NothingLost
  ResultIsMinimal
  OrderSurvives
PROPERTIES
  Converges
