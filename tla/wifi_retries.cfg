CONSTANTS
  Creds <- MCCreds
  GoodCreds <- MCGood
  TimeErr = 3
  QueueSize = 4
  RestartPosts <- StartsAgain
  Faults = FALSE
SPECIFICATION Spec
INVARIANT FailAfterMaxRetries
CHECK_DEADLOCK FALSE
