SPECIFICATION FairSpec
CONSTANTS
  None = None
  Ids = {i, j}
  Listings = {{}, {j}, {i, j}}
  Foreign = {i}
  Misses = 2
  MostMisses = 3
  Shares = {40, 50}
  Faults = {"unfinished", "dropped", "failed", "unseen", "unjudged", "refused", "restart", "lost"}
  MaxFaults = 1
  MaxActs = 1
INVARIANTS
  TypeOK
  OnlyOursGo
PROPERTIES
  OnlyMissingOrUntold
  LedgerDrains
