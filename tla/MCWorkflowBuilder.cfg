SPECIFICATION Spec
CONSTANTS
  TaskNames <- MCTaskNames
  MaxEdges = 4
  Unknown = 9
  Weightings <- MCWeightings
  Policies <- MCPolicies
  Defaults <- MCDefaults
INVARIANTS
  BuildsWhatIsValid
  ValidatorsAgree
  CriticalPathIsLongest
  WidthIsReached
  BackoffIsCapped
