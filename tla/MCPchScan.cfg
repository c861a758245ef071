SPECIFICATION FairSpec
CONSTANTS
  Bands <- TwoArfcns
  Levels <- OneLevel
  Air <- SI3Only
  RA = {ra1}
  PmBatch = 1
  LinkBound = 1
  FnBound = 0
  MaxRefs = 0
  MaxReboots = 1
  Targets <- BothInTurn
  PCH_retries = 1
  PipeBound = 1
INVARIANTS OwnCell ModeInForce NeverDeaf
PROPERTY EndsInTime
CHECK_DEADLOCK FALSE
