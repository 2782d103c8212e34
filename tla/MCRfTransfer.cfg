SPECIFICATION Spec
CONSTANTS
  States <- RfStates
  Events <- OscEvents
  Funcs <- OscFuncs
  Table <- RfTable
  FirstState = "INIT_STATE"
  LastState = "DESTROY_STATE"
  Files <- MCFiles
  Size <- MCSize
  Length <- MCSize
  SBlock = 2
  OnDisk <- MCOnDisk
  Batches <- MCBatches
  ClientDir = FALSE
  Troubles = {"beat", "cancel", "damage"}
  Signals = TRUE
  Patient = TRUE
  MaxJobs = 3
INVARIANTS
  AckedFilesAreWhole
PROPERTIES
  GrowsSoundly
  TransferEnds
  SignalEndsProgram
CHECK_DEADLOCK FALSE
