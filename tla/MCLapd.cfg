SPECIFICATION FairSpec
CONSTANTS
  Msgs = {"short", "long"}
  Parts <- MCParts
  Contents = {"none", "own"}
  VRange = 4
  N200 = 2
  N200EstRel = 1
  MaxLost = 2
  MaxLate = 2
  MaxSent = 2
  MaxEst = 1
  Initiators = {"ms"}
INVARIANTS TypeOK NoFalseAlarm InOrderOnce
PROPERTIES Implements Settled
CHECK_DEADLOCK FALSE
