SPECIFICATION Spec
CONSTANTS
  threadCountM = 2
  Jobs <- MCJobs
  Id <- MCId
INVARIANTS
  WakesForJobs
PROPERTIES
  QueuedJobsRun
  StopReturns
CHECK_DEADLOCK FALSE
