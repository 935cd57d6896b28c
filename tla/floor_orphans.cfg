SPECIFICATION FairSpec
CONSTANTS
  a = a
  b = b
  d = d
  Node <- Three
  NoNode = NoNode
  Target <- FanOfThree
  AccountLevels <- OneTalker
  Call = {c1}
  NoCall = NoCall
  LevelMod = 4
  Faults = {"lose", "restart", "timeout"}
  MaxFaults = 2
  MaxReleases = 1
PROPERTY OrphansLeave
CHECK_DEADLOCK FALSE
