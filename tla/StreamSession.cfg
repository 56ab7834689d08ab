SPECIFICATION FairSpec
CONSTANTS
  Half = 4
  Capacity = 1
  ResyncDistance = 2
  LeaseTicks = 3
  SilenceTicks = 1
  MaxRuns = 2
  PacketsPerTick = 2
  Formats = {stereo, quad}
  NoFormat = NoFormat
INVARIANTS ConnectionReports PlayedInFormat
PROPERTIES ConnectionRecovers SilenceIsReported
CHECK_DEADLOCK FALSE
