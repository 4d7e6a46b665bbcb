CONSTANTS
  MaxLosses = 3
  MaxIntervals = 2
  Searches = {s1}
  Commands = {k1}
  Wishes = {w1}
  None = None
SPECIFICATION SearchSpec
INVARIANTS SearchTypeOK SessionAgrees ReaderLoops EofIsFinal ResultsBelong
PROPERTIES SessionRegained RequestEnds
CHECK_DEADLOCK FALSE
