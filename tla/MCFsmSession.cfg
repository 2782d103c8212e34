SPECIFICATION Spec
CONSTANTS
  States <- RzStates
  Events <- ZEvents
  Funcs <- ZFuncs
  Table <- LongTable
  FirstState = "IDLE_STATE"
  LastState = "DESTROY_STATE"
  FirstEvent = "ENTRY_EVT"
  Posts <- ZPosts
  Syncs <- ZSyncs
  Restarters <- ZRestarters
  MaxReads = 2
  MaxJobs = 3
INVARIANTS
  StopsOnlyAfterDelete
  CrashNeedsSecondDestroy
  TimerOfCurrentState
  NeverWaitsForever
  TimersAfterInit
PROPERTIES
  DestroyIsFinal
  EndStateStops
CHECK_DEADLOCK FALSE
