SPECIFICATION FairSpec
CONSTANTS
  Worker = {w1, w2}
  MaxPosts = 3
INVARIANTS TypeOK SnapshotsAreConsistent HandlerCallsDropNewJobs
PROPERTIES WorkersKeepExit StopJoins CatchesUp
CHECK_DEADLOCK FALSE
