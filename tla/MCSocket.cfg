SPECIFICATION FairSpec
CONSTANTS
  Threads = {t1, t2, t3}
  MaxDials = 2
  NULL = NULL
INVARIANT TypeOK
INVARIANT ExclusiveFrameAccess
INVARIANT NeverUsesNilConn
PROPERTY NoCallStuckInSocket
CHECK_DEADLOCK FALSE
