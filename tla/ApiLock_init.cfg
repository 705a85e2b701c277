SPECIFICATION FairSpec
CONSTANTS
  Proc = {p1, p2}
  NoProc = NoProc
  MaxField = 4
  MaxStart = 4
  Environments <- AgainOrMost
INVARIANT TypeOK
INVARIANT MutualExclusion
INVARIANT OwnerOnFile
INVARIANT FilesOwned
PROPERTY CrashRecovery
CHECK_DEADLOCK FALSE
