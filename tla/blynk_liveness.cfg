CONSTANTS
  Requests <- OneRequest
  QueueLen = 2
  MaxAwaiting = 1
  MaxId = 3
  HardwareIds = {}
  GarbageId = 2
  WakeCap = 1
  WakeMayFail = FALSE
SPECIFICATION FairSpec
INVARIANT NoLostWakeup
PROPERTIES LoginDecided RequestResolved StuckWriteNoticed
CHECK_DEADLOCK FALSE
