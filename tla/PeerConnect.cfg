CONSTANTS
  Calls = {c1}
  Requests = {r1}
  Sockets = {s1}
  Modes = {"race", "fallback"}
  None = None
  MaxCloses = 2
SPECIFICATION FairSpec
INVARIANTS TypeOK CallsSettle ListedWhileOpen
PROPERTY CallsEnd
CHECK_DEADLOCK FALSE
