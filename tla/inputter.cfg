SPECIFICATION FairSpec
CONSTANTS
  SeqMod = 8
  MAX_DROPOUT = 2
  MAX_MISORDER = 2
  MAX_TIMEOUT_COUNT = 2
  Frame = 1
  FirstLimit = 1
  Elapsed <- Gaps
  IntMax = 3
INVARIANTS
  TypeOK
  TimerArmed
  CatchesUp
PROPERTY EndsAfterSilence
CHECK_DEADLOCK FALSE
