SPECIFICATION PSpec
CONSTANTS
  Games = {g1, g2}
  Versions = {v1, v2}
  Absent = Absent
  None = None
  Corrupt = Corrupt
  WriteOutcomes = {"published", "not_published"}
  MaxOps = 4
  MaxFailures = 0
  MaxCrashes = 1
SYMMETRY Symmetric
INVARIANT
  AnswersAreExact
CHECK_DEADLOCK FALSE
