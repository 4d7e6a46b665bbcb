CONSTANTS
  c1 = c1
  c2 = c2
  c3 = c3
  Conns = {c1, c2, c3}
  Named = {c1, c2}
  Server = Server
  Users = {"a", "b"}
  Me = "me"
  Roots = {"a", "me"}
  UserOf <- Peer
  Levels = {0, 1}
  Limits = {0,1}
  None = None
  MaxMessages = 3
  MaxLosses = 1
SPECIFICATION Spec
INVARIANTS TypeOK ParentAgrees ClosedIsForgotten ServerKnowsSearch ChildrenInformed AwaitedEnds
CHECK_DEADLOCK FALSE
