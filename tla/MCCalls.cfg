SPECIFICATION FairSpec
CONSTANTS
  TiCount = 1
  MaxMo = 1
  MaxMt = 1
  Settings <- MCSettings
INVARIANTS TypeOK LayersAgree
PROPERTIES Cleared PendingDecided
