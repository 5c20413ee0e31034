SPECIFICATION FairSpec
CONSTANTS
  MaxInfos = 1
  MaxLosses = 0
PROPERTY
  EveryStreamEnds
CHECK_DEADLOCK FALSE
