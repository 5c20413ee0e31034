SPECIFICATION Spec
CONSTANTS
  a = a
  b = b
  p = p
  q = q
  Bad = Bad
  None = None
  Games = {a, b}
  Sources = {p}
  Items <- OneFile
  NumLines = {2}
  BatchSize = 2
  Faults <- TolerableFaults
  SizeModulus = 16
  MaxRuns = 1
  MaxFailures = 0
  MaxCrashes = 0
PROPERTY
  CancelKeepsCheckpoint
CHECK_DEADLOCK FALSE
