SPECIFICATION FairSpec
CONSTANTS
  Bands <- TwoArfcns
  Levels <- OneLevel
  Air <- SI3Only
  RA = {ra1}
  PmBatch = 1
  LinkBound = 1
  FnBound = 0
  MaxRefs = 0
  MaxReboots = 1
  Targets <- BothInTurn
  PCH_retries = 2
  PipeBound = 1

PROPERTY WaitsUntilTimeout
CHECK_DEADLOCK FALSE
