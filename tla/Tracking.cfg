CONSTANTS
  Flags = {"REQUESTED", "FRIEND"}
  MaxAsks = 4
  MaxCloses = 2
  MaxTimeouts = 1
  MaxWriteErrors = 1
SPECIFICATION FairSpec
INVARIANTS TypeOK NoGhost TrackedIsWatched PendingIsRetried RemoveOnce
PROPERTIES WatchKept InSyncUnlessStuck
CHECK_DEADLOCK FALSE
