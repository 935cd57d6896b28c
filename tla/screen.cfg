SPECIFICATION FairSpec
CONSTANTS
  AccountLevel = 1
  Levels = {0, 2}
  MaxPending = 3
  MaxCalls = 4
INVARIANTS
  TypeOK
  MicrophoneIsShown
  ToggleMeansTalk
  ReceptionIsShown
PROPERTY FinishSilences
CHECK_DEADLOCK FALSE
