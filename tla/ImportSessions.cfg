SPECIFICATION FairSpec
CONSTANTS
  Handlers = {h1, h2}
  MaxImports = 2
  MaxCompletedSessions = 0
INVARIANTS
  OneActiveImport
  StreamTellsOutcome
  SessionsBounded
  NoWorkerOutlivesServer
PROPERTIES
  EarlyCancelHolds
  SessionsEnd
CHECK_DEADLOCK FALSE
