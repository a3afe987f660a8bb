SPECIFICATION Spec
CONSTANTS
  Flow = {"f"}
  NoFlow = NoFlow
  Prober = {"p", "q"}
  NoTimeout = NoTimeout
  Timeouts <- Limits
  Poll = 1
  Patience = 2
  Forever = 7
INVARIANTS
  OneActionAtATime
  SaysTheTruth
  WaitIsPunctual
PROPERTY
  ComesToRest
