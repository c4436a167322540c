SPECIFICATION FairSpec
CONSTANTS
  QueueSize = 6
  Ids <- MCIds
  NetCap = 1
  MaxFaults = 1
  MaxMessages = 1
  Fragments = {2, 4}
  BufferSize = 1
  SizeMax = 7
INVARIANTS PendingCounts PublishKept
PROPERTIES EventTaskProceeds SubscribedEventually PublishDelivered
\* A long message may stop the MQTT task and the event loop task for good.
CHECK_DEADLOCK FALSE
