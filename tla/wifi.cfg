CONSTANTS
  Creds <- MCCreds
  GoodCreds <- MCGood
  TimeErr = 3
  QueueSize = 4
  RestartPosts <- BothStarts
  Faults = TRUE
SPECIFICATION LuckySpec
INVARIANTS TypeOK NoUseAfterDelete CredentialsWhole MarkNeverSaved ServicesStartOnce
PROPERTIES ConnectSessionEnds EventuallyServes

