SPECIFICATION FairSpec
CONSTANTS
  None = None
  Replicas = {r1, r2}
  Lease = 2
  MaxFaults = 2
INVARIANTS
  FlagIsSession
  LockIsKept
PROPERTIES
  RunStartsUnderLock
  SomeoneLeads
