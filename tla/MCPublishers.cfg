SPECIFICATION PublishersSpec
CONSTANTS
  MaxFrames = 3
  PoolInit = 1
  PoolLimit = 2
  Free = Free
  Callback = Callback
  Worker = Worker
  Closer = Closer
  BlockSizes = {1, 3, 4}
  MaxBlocks = 3
  PacketFrames = 2
  MaxToggles = 2
  OpusFrame = 2
  OpusBlocks = {1, 3, 4}
  MaxCaptured = 9
  PacketLimit = 3
  CatchUp = 3
  MaxTime = 6
  MaxTestRuns = 3
  Writers = {"audio"}
  QueueBlocks = 2
  MaxWritten = 5
  Rates = {1, 2, 3, 5}
  PacketSizes = {1, 2, 3}
  MaxIn = 7
  Metered = {"s1", "s2"}
  MeterName <- SessionNames
  ObserverOf <- SessionThreads
  Levels = {1, 2}
  MaxObserved = 2
INVARIANTS LatencyBounded FramesAccounted NothingLeftBehind StreamsKeepTime SamplesKept MonitorIsTrue
PROPERTIES QueueIsLossyFifo StopsEnd
CHECK_DEADLOCK FALSE
