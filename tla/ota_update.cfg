CONSTANTS
  Versions <- TwoVersions
  Size <- TwoSizes
  Hdr = 1
  Chunk = 150
  MaxPublish = 3
SPECIFICATION FairSpec
INVARIANTS TypeOK AlwaysBootable RunningIntact LockReleased
PROPERTIES AtomicSpec EventuallyCurrent
