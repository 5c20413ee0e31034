SPECIFICATION Spec
CONSTANTS
  a = a
  b = b
  p = p
  q = q
  Bad = Bad
  None = None
  Games = {a, b}
  Sources = {p}
  Items <- OneFile
  NumLines = {2}
  BatchSize = 2
  Faults <- EveryFault
  SizeModulus = 16
  MaxRuns = 2
  MaxFailures = 1
  MaxCrashes = 1
PROPERTY
  FailedRunsKeepCheckpoint
CHECK_DEADLOCK FALSE
