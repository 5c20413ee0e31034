SPECIFICATION FairSpec
CONSTANTS
  g1 = g1
  g2 = g2
  v1 = v1
  v2 = v2
  Games <- MCGames
  Versions <- MCVersions
  Absent = Absent
  None = None
  Corrupt = Corrupt
  WriteOutcomes = {"published", "published_not_durable", "not_published"}
  MaxOps = 3
  MaxFailures = 2
  MaxCrashes = 1
INVARIANTS
  Consistent
  AnswersAreExact
PROPERTIES
  MutationsFollowInvalidation
  PublishedArtifactsStay
  RebuildKeepsService
  FailsClosed
  ReopenRecovers
CHECK_DEADLOCK FALSE
