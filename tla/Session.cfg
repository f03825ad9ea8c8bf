SPECIFICATION Spec
CONSTANTS
  DatasetLen = 6
  ReqOffset = 1
  MaxRequestNum <- WholeDataset
  SampleReqCnt = 2
  Orders <- Shuffled
  Long = {3}
  PromptLen = 2
  MaxNew = 2
  MaxRound = 1
  Dirs = {"a", "b"}
  Limits <- NoLimitOrOne
  MaxRuns = 2
INVARIANTS TraceIsVisitingPrefix TxtMatchesTrace RoundsAccountForTrace ServerFollowsRun ReplayFollowsRecording
PROPERTIES DoneMeansOnDisk RunEnds
CHECK_DEADLOCK FALSE
