SPECIFICATION PSpec
CONSTANTS
  Games = {g1, g2}
  Versions = {v1}
  Absent = Absent
  None = None
  Corrupt = Corrupt
  WriteOutcomes = {"published", "published_not_durable", "not_published"}
  MaxOps = 3
  MaxFailures = 2
  MaxCrashes = 2
SYMMETRY Symmetric
INVARIANT
  ExactUnlessPowerTookIt
CHECK_DEADLOCK FALSE
