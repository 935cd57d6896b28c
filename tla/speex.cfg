SPECIFICATION FairSpec
CONSTANTS
  MAX_CHARS_PER_FRAME = 16
  Qualities = {0, 1, 2, 3, 6, 7, 9, 10}
  FrameSize = 64
  Garbage = 4
  MaxCalls = 4
INVARIANTS
  TypeOK
  InsideBuffer
  FrameSurvives
PROPERTY DecodeReturns
CHECK_DEADLOCK FALSE
