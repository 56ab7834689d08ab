SPECIFICATION LossSpec
CONSTANTS
  Half = 8
  Capacity = 2
  ResyncDistance = 4
  FirstSeqs <- MCFirstSeqs
  MaxSent = 7
  Skews = {2, 15}
  GroupSize = 3
  FecGroupSize = 3
  FecSpace = 16
  NotStarted = NotStarted
  FecFirstSeqs = {0}
  HistoryCapacity = 4
  Lengths = {1, 2}
  FecMaxSent = 6
  MaxSkew = 4
INVARIANT HeldAhead
PROPERTIES PlaybackOrdered HeldIsReleased FecKept
CHECK_DEADLOCK FALSE
