SPECIFICATION Spec
CONSTANTS
  Frames <- AllFrames
  Fragile <- FragileFrames
  Block = 2
  MaxEvents = 2
INVARIANTS
  TypeOK
  KeptIsCovered
PROPERTIES
  WritesSubpackets
  FrameIsTaken
CHECK_DEADLOCK FALSE
