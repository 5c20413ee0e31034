SPECIFICATION PSpec
CONSTANTS
  Games = {g1, g2}
  Versions = {v1, v2}
  Absent = Absent
  None = None
  Corrupt = Corrupt
  WriteOutcomes = {"published", "published_not_durable", "not_published"}
  MaxOps = 4
  MaxFailures = 1
  MaxCrashes = 1
SYMMETRY Symmetric
INVARIANT
  ExactUnlessRowsLost
CHECK_DEADLOCK FALSE
