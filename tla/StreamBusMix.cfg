SPECIFICATION BusFairSpec
CONSTANTS
  Half = 8
  Capacity = 2
  ResyncDistance = 4
  Streams = {s1, s2}
  FirstNumbers = {0, 6}
  MaxPublished = 3
  Skew = 15
  BusGroup = 3
  MinFrames = 1
  MaxFrames = 1
  Rates = {1}
  PrimeTarget = 2
  MaxQueue = 3
PROPERTIES NewestIsKept
CHECK_DEADLOCK FALSE
