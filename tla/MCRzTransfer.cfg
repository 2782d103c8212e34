SPECIFICATION Spec
CONSTANTS
  FirstEvent = "ENTRY_EVT"
  States <- RzStates
  Events <- ZEvents
  Funcs <- ZFuncs
  Table <- RzTable
  FirstState = "IDLE_STATE"
  LastState = "DESTROY_STATE"
  Files <- MCFiles
  SFiles <- MCFiles
  NoFile = NoFile
  Size <- MCSize
  Length <- MCSize
  Batches <- MCBatches
  OnDisk <- MCOnDisk
  Flavours <- PoliteFlavours
  DiskFails = FALSE
  Preset = TRUE
  SBlock = 2
  Chunk = 2
  ClientDir = TRUE
  MaxBeats = 1
  Splits = FALSE
  Signals = FALSE
  Swift = FALSE
  Patient = TRUE
  MaxReads = 2
  MaxJobs = 3
INVARIANTS
  NoFreedCall
  GoodbyeAfterBatch
PROPERTIES
  TransferEnds
CHECK_DEADLOCK FALSE
