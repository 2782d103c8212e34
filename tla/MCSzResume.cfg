SPECIFICATION Spec
CONSTANTS
  FirstEvent = "SEND_FILE_EVT"
  States <- SzStates
  Events <- ZEvents
  Funcs <- ZFuncs
  Table <- SzTable
  FirstState = "IDLE_STATE"
  LastState = "DESTROY_STATE"
  Files <- PairFiles
  TFiles <- PairFiles
  NoFile = NoFile
  FileList <- PairFileList
  Size <- PairSize
  Length <- PairSize
  Large = {"full"}
  Block = 2
  ClientDir = TRUE
  Holdings <- PairHoldings
  Versions = {0, 1}
  MaxBeats = 1
  Splits = TRUE
  Signals = FALSE
  Patient = TRUE
  MaxReads = 2
  MaxJobs = 3
PROPERTY
  ResumeIsAnswered
CHECK_DEADLOCK FALSE
