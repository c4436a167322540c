CONSTANTS
  Requests <- OneRequest
  QueueLen = 2
  MaxAwaiting = 2
  MaxId = 3
  HardwareIds = {0, 1}
  GarbageId = 2
  WakeCap = 2
  WakeMayFail = TRUE
SPECIFICATION Spec
INVARIANTS CallbacksSound UnauthenticatedOnlyStale
CHECK_DEADLOCK FALSE
