SPECIFICATION Spec
CONSTANTS
  States <- SfStates
  Events <- OscEvents
  Funcs <- OscFuncs
  Table <- SfTable
  FirstState = "INIT_STATE"
  LastState = "DESTROY_STATE"
  Files <- MCFiles
  FileList <- MCList
  Size <- MCSize
  Block = 2
  EmptyDirs = TRUE
  ClientDir = TRUE
  Holdings <- MCHoldings
  Troubles = {"beat", "cancel", "damage"}
  Signals = TRUE
  Patient = TRUE
  MaxJobs = 3
INVARIANTS
  CompleteFilesAreWhole
PROPERTIES
  TransferEnds
  SignalEndsProgram
CHECK_DEADLOCK FALSE
