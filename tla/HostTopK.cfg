SPECIFICATION FairSpec
CONSTANTS
  NThreads = 3
  MaxRuns = 3
INVARIANTS TypeOK MergeIsComplete RowsAlive NobodyWorks PendingCountsOwing
PROPERTIES RunReturns DestructorReturns
