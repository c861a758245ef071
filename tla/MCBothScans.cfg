SPECIFICATION Spec
CONSTANTS
  Requests <- Three
  Timeouts <- ZeroOrTen
  ScanThreads = {s1, s2}
  PchThreads = {p1, p2}
  Patience = {TRUE}
INVARIANT PhoneExclusive
CHECK_DEADLOCK FALSE
