SPECIFICATION PluginSpec
CONSTANTS
  Blocks = 2
  MaxCaptured = 3
  Configs <- SlotConfigs
  Slots = {1, 2}
  PoolSize = 2
  BlockFrames = 2
  MaxPackets = 3
INVARIANTS BlocksAccounted SentInOrder PoolBounded
PROPERTIES OffGoesQuiet PlayedForward StopsEnd
