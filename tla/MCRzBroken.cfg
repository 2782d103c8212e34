SPECIFICATION ProgramSpec
CONSTANTS
  FirstEvent = "ENTRY_EVT"
  States <- RzStates
  Events <- ZEvents
  Funcs <- ZFuncs
  Table <- RzTable
  FirstState = "IDLE_STATE"
  LastState = "DESTROY_STATE"
  Files <- PairFiles
  SFiles <- PairFiles
  NoFile = NoFile
  Size <- PairSize
  Length <- PairSize
  Batches <- PairBatches
  OnDisk <- PairOnDisk
  Flavours <- BrokenFlavours
  DiskFails = TRUE
  Preset = FALSE
  SBlock = 2
  Chunk = 2
  ClientDir = FALSE
  MaxBeats = 0
  Splits = TRUE
  Signals = TRUE
  Swift = TRUE
  Patient = FALSE
  MaxReads = 2
  MaxJobs = 3
INVARIANTS
  RzTypeOK
  AcknowledgedFilesAreWhole
  SkippedFilesAreWhole
PROPERTIES
  ImplementsSkeleton
  GrowsSoundly
  SoundPartsAreKept
  SignalEndsProgram
CHECK_DEADLOCK FALSE
