CONSTANTS
  u1 = u1 u2 = u2 u3 = u3 u4 = u4 u5 = u5
  alice = alice bob = bob carol = carol dave = dave
  Transfers = {u1, u2, u3, u4, u5}
  Tasks = {t1, t2, t3}
  Calls = {k1}
  Backlog = 3
  Users = {alice, bob, carol, dave}
  UserOf <- Several
  Rank <- Unranked
  Slots = 2
  CachedStates = {"QUEUED"}
  CallJobs = {"queue"}
  Changeable = {}
  MaxChanges = 0
SPECIFICATION Crowded
SYMMETRY AlikeToo
INVARIANTS TypeOK SlotLimit OneUploadPerUser
CHECK_DEADLOCK FALSE
