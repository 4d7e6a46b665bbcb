CONSTANTS
  d1 = d1 alice = alice
  Transfers = {d1}
  Tasks = {t1, t2, t3}
  Calls = {k1, k2}
  Backlog = 2
  Users = {alice}
  UserOf <- Alone
  CachedStates = {"QUEUED", "INCOMPLETE", "FAILED"}
  CallJobs = {"download", "download_paused", "abort", "queue", "pause", "remove", "peer_offer", "peer_refusal"}
  Changeable = {"status", "upload_failed", "restart"}
  MaxChanges = 1
SPECIFICATION Spec
SYMMETRY Symmetry
INVARIANTS TypeOK IncompleteRetried DownloadingHasTask
CHECK_DEADLOCK FALSE
