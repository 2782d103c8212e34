SPECIFICATION Spec
CONSTANTS
  Frames <- ZackFrames
  Fragile = {}
  Block = 2
  MaxEvents = 2
PROPERTY ContinuesAfterZack
CHECK_DEADLOCK FALSE
