SPECIFICATION FairSpec
CONSTANTS
  None = None
  Reaper = Reaper
  Runs = {r}
  Unattended = {r}
  Owners = {a}
  Approvers = {b}
  MaxVersions = 2
  MaxChanges = 1
  Files = {"manifest", "other"}
  Manifest = "manifest"
  Elsewhere = "elsewhere"
  MaxPushes = 1
  MaxOvertakes = 1
  MaxFaults = 1
  Apart = TRUE
INVARIANTS
  TypeOK
  PublishedIsApproved
  CancelledHasNoTicket
PROPERTIES
  MergedAsRead
  ClosedRunEnds
CHECK_DEADLOCK FALSE
