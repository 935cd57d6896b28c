SPECIFICATION FairSpec
CONSTANTS
  a = a
  b = b
  d = d
  Node <- Three
  NoNode = NoNode
  Target <- RingOfThree
  AccountLevels <- LevelsOfThree
  Call = {c1, c2}
  NoCall = NoCall
  LevelMod = 4
  Faults = {}
  MaxFaults = 0
  MaxReleases = 2
INVARIANTS
  RelayTree
  PriorityWins
  ReleaseReachesAll
PROPERTY FloodsDieOut
CHECK_DEADLOCK FALSE
