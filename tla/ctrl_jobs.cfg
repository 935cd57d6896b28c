SPECIFICATION FairSpec
CONSTANTS
  Call = {c1, c2}
  OwnCall = {c1}
  None = None
  NTargets = 2
  MaxJobs = 2
  MaxArrivals = 2
INVARIANTS
  TypeOK
  AsMadeUnlessOverwritten
  AtMostOnce
PROPERTY HaltEndsReceiver
CHECK_DEADLOCK FALSE
