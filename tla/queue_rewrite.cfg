SPECIFICATION FairSpec
CONSTANTS
  None = None
  Keys = {1}
  Streams = {"s1", "s2"}
  Plans <- RewritePlans
  Fingerprints = {f1}
  Unbounds = {{}}
  Batch = 1
  Short = 1
  CronScan = 2
  RunTimeout = 2
  ShortBelow = 2
  MinShortCap = 1
  StalePlan = 3
  Backoff <- SmallBackoff
  RetriesPerDay = 1
  Day = 3
  Faults = {}
  RunNowAllowed = FALSE
  MaxTime = 2
  MaxCrashes = 0
PROPERTY
  ReplaceIsRewritten
