SPECIFICATION FairSpec
CONSTANTS
  Bands <- OneBand
  Levels <- ThreeLevels
  Air <- TwoCells
  RA = {ra1}
  MIN_RXLEV <- MCMinRxlev
  RACH_MAX = 2
  Gps = FALSE
  CountBound = 5
  PmBatch = 1
  LinkBound = 1
  FnBound = 2
  MaxRefs = 1
  MaxReboots = 0
  Leftover = FALSE
PROPERTIES KeepsSweeping HeardIsTuned
