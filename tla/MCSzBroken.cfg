SPECIFICATION ProgramSpec
CONSTANTS
  FirstEvent = "SEND_FILE_EVT"
  States <- SzStates
  Events <- ZEvents
  Funcs <- ZFuncs
  Table <- SzTable
  FirstState = "IDLE_STATE"
  LastState = "DESTROY_STATE"
  Files <- PairFiles
  TFiles <- PairFiles
  NoFile = NoFile
  FileList <- PairFileList
  Size <- PairSize
  Length <- PairSize
  Large = {"full"}
  Block = 2
  ClientDir = FALSE
  Holdings <- PairHoldings
  Versions = {1}
  MaxBeats = 0
  Splits = TRUE
  Signals = TRUE
  Patient = FALSE
  MaxReads = 2
  MaxJobs = 3
INVARIANTS
  SzTypeOK
  SameFile
  DataNeedsOpenFile
  ReceivedFilesAreSound
PROPERTIES
  ImplementsSkeleton
  SignalEndsProgram
CHECK_DEADLOCK FALSE
