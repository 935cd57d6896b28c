SPECIFICATION Spec
CONSTANTS
  Call = {o1, c1}
  OwnCall = {o1}
  NoCall = NoCall
  None = None
  LevelMod = 8
  Receiver = {r1, r2}
  AccountLevel = 1
  Levels = {0, 2}
  MainCalls = {"press"}
  MaxCalls = 3
INVARIANT OneDirection
CHECK_DEADLOCK FALSE
