SPECIFICATION Spec
CONSTANTS
  None = None
  Keys = {1}
  Streams = {"s1", "s2"}
  Plans <- OnePlans
  Fingerprints = {f1, f2}
  Unbounds = {{}}
  Batch = 1
  Short = 1
  CronScan = 2
  RunTimeout = 2
  ShortBelow = 2
  MinShortCap = 1
  StalePlan = 3
  Backoff <- SmallBackoff
  RetriesPerDay = 1
  Day = 3
  Faults = {"delete_timeout", "start_refused", "start_unanswered", "runner_lost", "slow_calls", "no_answer", "delete_error", "outside_failure"}
  RunNowAllowed = TRUE
  MaxTime = 2
  MaxCrashes = 0
INVARIANTS
  TypeOK
  NoForgottenRun
  RunnerHoldsNamedRun
  RetryWindow
PROPERTIES
  TickSparesRunning
  EndsNameWhatRan
  QueuedKeepsItsRun
  NeverTwoRuns
