SPECIFICATION Spec
CONSTANTS
  None = None
  Absent = Absent
  Resources = {"endpoint", "policy", "pipeline", "project"}
  LiveKinds = {"endpoint", "policy"}
  Rules = {"policy"}
  Projects = {}
  Registry = {"project"}
  Contents <- PublishedContents
  Initial <- PublishedContents
  Publishing = {"open"}
  MaxMerges = 2
  MaxFaults = 0
INVARIANT
  NextWaveKnows
CHECK_DEADLOCK FALSE
