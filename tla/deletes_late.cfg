SPECIFICATION Spec
CONSTANTS
  None = None
  Ids = {i, j}
  Listings = {{}, {i}, {j}, {i, j}}
  Foreign = {}
  Misses = 2
  MostMisses = 3
  Shares = {50}
  Faults = {"late"}
  MaxFaults = 0
  MaxActs = 0
PROPERTIES
  OnlyMissingGo
