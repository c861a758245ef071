CONSTANTS
  RA <- RADef
  MaxReq = 2

SPECIFICATION Spec

INVARIANTS
  ChannelEnds
  ModifyEnds
