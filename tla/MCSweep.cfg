SPECIFICATION Spec
CONSTANTS
  Bands <- TwoBands
  Levels <- TwoLevels
  Air <- ThreeCells
  RA = {ra1, ra2}
  MIN_RXLEV <- MCMinRxlev
  RACH_MAX = 2
  Gps = TRUE
  CountBound = 5
  PmBatch = 2
  LinkBound = 1
  FnBound = 3
  MaxRefs = 1
  MaxReboots = 1
  Leftover = FALSE
INVARIANTS TypeOK OneOutstanding TunedCell OwnSysinfo TimerArmed SyncCountExact ConfirmedBurst
PROPERTIES ImplementsSweep LoggedAfterFrame
CHECK_DEADLOCK FALSE
SYMMETRY RaSymmetry
