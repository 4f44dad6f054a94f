CONSTANTS
  Keys = {k1, k2}
  Jobs = {j1, j2, j3}
  NoJob = NoJob
SPECIFICATION FairSpec
INVARIANTS NoOrphan RegisteredRuns ReturnClean OverlapCancelled
PROPERTIES JobsRun StopReturns
CHECK_DEADLOCK FALSE
