SPECIFICATION FairSpec
CONSTANTS
  LastEpisode = 2
  Indexes <- Both
  Requests <- AllOrLast
  Bytes <- OneEach
  Budget = 1
  MaxRetained = 0
  Overwrites = {FALSE}
  MaxRefreshes = 2
  MaxCrashes = 1
  MaxJobs = 2
  MaxLookups = 1
 
PROPERTY EveryJobEnds
CHECK_DEADLOCK FALSE
