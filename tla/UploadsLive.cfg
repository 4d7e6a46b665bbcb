CONSTANTS
  u1 = u1 u2 = u2 u3 = u3 u4 = u4 u5 = u5
  alice = alice bob = bob carol = carol dave = dave
  Transfers = {u1}
  Tasks = {t1, t2, t3}
  Calls = {k1}
  Backlog = 3
  Users = {alice}
  UserOf <- Alone
  Rank <- Unranked
  Slots = 1
  CachedStates = {"QUEUED"}
  CallJobs = {"abort", "pause"}
  Changeable = {"blocked"}
  MaxChanges = 1
SPECIFICATION FairSpec
PROPERTIES StopReturns RequestServed
CHECK_DEADLOCK FALSE
