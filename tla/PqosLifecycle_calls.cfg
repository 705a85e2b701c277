SPECIFICATION FairSpec
CONSTANTS
  t1 = t1
  t2 = t2
  t3 = t3
  NoThread = NoThread
  Thread <- Threads
  NumDomain = 1
  Faults <- NoFaults
INVARIANT TypeOK
INVARIANT Exclusion
INVARIANT DataSound
INVARIANT LockFileKept
PROPERTY LockReleased
PROPERTY ServiceKept
