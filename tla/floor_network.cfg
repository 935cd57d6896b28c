SPECIFICATION Spec
CONSTANTS
  a = a
  b = b
  d = d
  Node <- Pair
  NoNode = NoNode
  Target <- MeshOfTwo
  AccountLevels <- WideLevelsOfTwo
  Call = {c1, c2}
  NoCall = NoCall
  LevelMod = 2
  Faults = {"lose", "repeat", "bind", "relayer", "timeout", "link", "restart"}
  MaxFaults = 1
  MaxReleases = 1
SYMMETRY Calls
INVARIANTS
  TypeOK
  CallAgreement
  StopOnlyAfterEnd
  HalfDuplex
  RelayerOwnsSession
PROPERTIES
  FloorPromise
CHECK_DEADLOCK FALSE
