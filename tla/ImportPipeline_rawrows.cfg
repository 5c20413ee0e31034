SPECIFICATION Spec
CONSTANTS
  a = a
  b = b
  p = p
  q = q
  Bad = Bad
  None = None
  Games = {a, b}
  Sources = {p, q}
  Items <- TwoFiles
  NumLines = {1, 3}
  BatchSize = 2
  Faults <- TolerableFaults
  SizeModulus = 16
  MaxRuns = 2
  MaxFailures = 0
  MaxCrashes = 1
INVARIANT
  SummaryAlwaysAddsUp
CHECK_DEADLOCK FALSE
