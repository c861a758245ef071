SPECIFICATION FairSpec
CONSTANTS
  Requests <- Three
  Timeouts <- ZeroOrTen
  ScanThreads = {s1, s2}
  PchThreads = {p1, p2}
  Patience = {TRUE, FALSE}
INVARIANTS OneListener OnePchScan AnsweredAsAsked
PROPERTIES Answered
CHECK_DEADLOCK FALSE
