SPECIFICATION FairSpec
CONSTANTS
  None = None
  People = {a, b}
  Replicas = {r}
  Stores = {"broker", "portal"}
  Alike = {1, 2}
  Logged = {1}
  MaxErasures = 2
  MaxAttempts = 2
  OpenLimit = 1
  ReapplyEvery = 2
  MaxFaults = 2
INVARIANTS
  TypeOK
  LogIsTrue
PROPERTIES
  KeepsPromise
  EveryStoreAnswers
  RestoredIsSentAgain
