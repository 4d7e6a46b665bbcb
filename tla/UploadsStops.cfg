CONSTANTS
  u1 = u1 u2 = u2 u3 = u3 u4 = u4 u5 = u5
  alice = alice bob = bob carol = carol dave = dave
  Transfers = {u1}
  Tasks = {t1, t2, t3}
  Calls = {k1, k2}
  Backlog = 2
  Users = {alice}
  UserOf <- Alone
  Rank <- Unranked
  Slots = 1
  CachedStates = {"QUEUED", "ABORTED"}
  CallJobs = {"abort", "queue", "pause", "remove", "peer_queue", "peer_request"}
  Changeable = {"status", "blocked", "shared", "restart"}
  MaxChanges = 1
SPECIFICATION Spec
SYMMETRY Symmetry
INVARIANTS SlotHasDriver NoLostRequest
CHECK_DEADLOCK FALSE
