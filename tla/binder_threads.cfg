SPECIFICATION FairSpec
CONSTANTS
  Call = {o1, o2, c1}
  OwnCall = {o1, o2}
  NoCall = NoCall
  None = None
  LevelMod = 8
  Receiver = {r1, r2}
  AccountLevel = 1
  Levels = {0, 2}
  MainCalls = {"press", "release", "link", "reload"}
  MaxCalls = 3
INVARIANTS
  TypeOK
  OneDirectionUnlessCrossed
  SurvivesUnlessCrossed
  NoOrphanUnlessCrossed
  OwnSessionUnlessCrossed
  OwnPacketUnlessCrossed
PROPERTY ComesToRest
CHECK_DEADLOCK FALSE
