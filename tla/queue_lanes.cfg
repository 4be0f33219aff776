SPECIFICATION FairSpec
CONSTANTS
  None = None
  Keys = {1, 2}
  Streams = {"s1", "s2"}
  Plans <- LanePlans
  Fingerprints = {f1}
  Unbounds = {{}, {2}}
  Batch = 1
  Short = 1
  CronScan = 1
  RunTimeout = 3
  ShortBelow = 2
  MinShortCap = 1
  StalePlan = 3
  Backoff <- SmallBackoff
  RetriesPerDay = 1
  Day = 3
  Faults = {}
  RunNowAllowed = FALSE
  MaxTime = 1
  MaxCrashes = 1
PROPERTIES
  OldestFirst
  QueuedRunLeaves
  DueTimeIsServed
  RestartRewrites
  LaneKeepsLimit
  NoSlotIdles
