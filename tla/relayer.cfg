SPECIFICATION FairSpec
CONSTANTS
  Halter = {main, ctrl}
  Relayer = relayer
  NoThread = NoThread
  Targets = 2
INVARIANTS
  TypeOK
  RoundIsWhole
  ForwardsAsReceived
  NothingLeftOpen
PROPERTY HaltEndsAll
CHECK_DEADLOCK FALSE
