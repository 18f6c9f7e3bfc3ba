SPECIFICATION FairSpec
CONSTANTS
  Streams = {clob}
  QueueCapacity = 2
  BatchEvents = 2
  MaxRows = 2
  WindowsPerHour = 2
  MaxEnvelopes = 3
  MaxWindow = 2
  MaxCrashes = 1
  MaxFailures = 1
INVARIANTS
  NoDuplicateRows
  NothingLostWhileRunning
  
PROPERTIES
  ManifestedNeverChanges
  StopFinalizesFiles
  
