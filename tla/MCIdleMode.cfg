SPECIFICATION Spec
CONSTANTS
  N = 3
  Net <- MCNet
  Ncell <- MCNcell
  Home = 1
  MaxChanges = 1
  Starts <- MCStarts
  Causes <- MCCauses
INVARIANTS TypeOK AllowedCell SearchGoesOn ChannelAgreed HomeSearched
