SPECIFICATION BusFairSpec
CONSTANTS
  Half = 8
  Capacity = 2
  ResyncDistance = 4
  Streams = {s1}
  FirstNumbers = {13}
  MaxPublished = 4
  Skew = 2
  BusGroup = 2
  MinFrames = 1
  MaxFrames = 2
  Rates = {2,3}
  PrimeTarget = 2
  MaxQueue = 2
INVARIANTS ConcealmentKeepsTime PlayoutBounded
PROPERTIES StopEnds
CHECK_DEADLOCK FALSE
