SPECIFICATION FairSpec
CONSTANTS
  Bands <- OneArfcn
  Levels <- TwoLevels
  Air <- OneCell
  RA = {ra1}
  MIN_RXLEV <- MCMinRxlev
  RACH_MAX = 1
  Gps = FALSE
  CountBound = 5
  PmBatch = 1
  LinkBound = 1
  FnBound = 2
  MaxRefs = 1
  MaxReboots = 1
  Leftover = FALSE
PROPERTIES KeepsSweeping
CHECK_DEADLOCK FALSE
