SPECIFICATION FairSpec
CONSTANTS
  Half = 8
  Capacity = 2
  ResyncDistance = 4
  FirstSeqs <- MCFirstSeqs
  MaxSent = 7
  Skews = {15}
  GroupSize = 3
  NotStarted = NotStarted
PROPERTIES PlaysForward
CHECK_DEADLOCK FALSE
