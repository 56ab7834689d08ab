SPECIFICATION Spec
CONSTANTS
  Half = 4
  Capacity = 1
  ResyncDistance = 2
  LeaseTicks = 3
  SilenceTicks = 1
  MaxRuns = 2
  PacketsPerTick = 2
  Formats = {stereo, quad}
  NoFormat = NoFormat
PROPERTY RestartIsHeard
CHECK_DEADLOCK FALSE
