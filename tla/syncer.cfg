SPECIFICATION FairSpec
CONSTANTS
  None = None
  Absent = Absent
  Resources = {"endpoint", "policy", "pipeline", "project"}
  LiveKinds = {"endpoint", "policy"}
  Rules = {"policy"}
  Projects = {{"endpoint"}}
  Registry = {"project"}
  Contents <- SmallContents
  Initial <- StartContents
  Publishing = {"open"}
  MaxMerges = 2
  MaxFaults = 1
INVARIANT
  TypeOK
PROPERTIES
  RunKeepsMerge
  Converges
CHECK_DEADLOCK FALSE
