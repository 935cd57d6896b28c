SPECIFICATION Spec
CONSTANTS
  a = a
  b = b
  d = d
  Node <- Pair
  NoNode = NoNode
  Target <- MeshOfTwo
  AccountLevels <- LevelsOfTwo
  Call = {c1, c2}
  NoCall = NoCall
  LevelMod = 2
  Faults = {"timeout"}
  MaxFaults = 1
  MaxReleases = 1
SYMMETRY Calls
INVARIANTS
  ScreenShowsSession
CHECK_DEADLOCK FALSE
