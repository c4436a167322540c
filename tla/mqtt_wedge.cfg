SPECIFICATION FairSpec
CONSTANTS
  QueueSize = 6
  Ids <- MCIds
  NetCap = 1
  MaxFaults = 0
  MaxMessages = 1
  Fragments = {7}
  BufferSize = 2
  SizeMax = 15
PROPERTY SubscribeReturns
\* A long message may stop the MQTT task and the event loop task for good.
CHECK_DEADLOCK FALSE
