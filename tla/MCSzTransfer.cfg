SPECIFICATION Spec
CONSTANTS
  FirstEvent = "SEND_FILE_EVT"
  States <- SzStates
  Events <- ZEvents
  Funcs <- ZFuncs
  Table <- SzTable
  FirstState = "IDLE_STATE"
  LastState = "DESTROY_STATE"
  Files <- MCFiles
  TFiles <- MCFiles
  NoFile = NoFile
  FileList <- MCFileList
  Size <- MCSize
  Length <- MCSize
  Large = {"full"}
  Block = 2
  ClientDir = TRUE
  Holdings <- MCHoldings
  Versions = {0, 1}
  MaxBeats = 1
  Splits = FALSE
  Signals = FALSE
  Patient = TRUE
  MaxReads = 2
  MaxJobs = 3
INVARIANTS
  ReceivedFilesAreWhole
  GoodbyeAfterLastFile
PROPERTIES
  TransferEnds
CHECK_DEADLOCK FALSE
