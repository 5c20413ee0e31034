SPECIFICATION Spec
CONSTANTS
  a = a
  b = b
  p = p
  q = q
  Bad = Bad
  None = None
  Games = {a, b}
  Sources = {p, q}
  Items <- TwoFiles
  NumLines = {1, 3}
  BatchSize = 2
  Faults <- TolerableFaults
  SizeModulus = 16
  MaxRuns = 4
  MaxFailures = 2
  MaxCrashes = 2
INVARIANTS
  CheckpointBehindRows
  CompletedImportHoldsEveryGame
  SummaryAddsUp
  IdentityRestored
PROPERTIES
  GamesStay
CHECK_DEADLOCK FALSE
