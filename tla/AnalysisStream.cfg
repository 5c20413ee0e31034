SPECIFICATION FairSpec
CONSTANTS
  MaxInfos = 3
  MaxLosses = 2
INVARIANTS
  AtMostOnce
  EndedStreamIsWhole
PROPERTY
  AnswerEndsStream
CHECK_DEADLOCK FALSE
