SPECIFICATION DesktopSpec
CONSTANTS
  publish = publish
  capture = capture
  asioPlay = asioPlay
  play = play
  asio = asio
  NoDriver = NoDriver
  Sessions = {publish, capture, asioPlay, play}
  Receiving = {asioPlay, play}
  AsioPlayback = {asioPlay}
  Drivers = {asio}
  DriverOf <- MCDriverOf
  MaxStarts = 2
  Nodes = {1, 2}
  Interfaces = {"wired", "wireless"}
  InterfaceOf <- AllWired
  MaxNodes = 1
  Expiry = 3
  LookEvery = 2
  MaxLostInRow = 1
INVARIANTS DriversHeldOnce RunningIsBacked NoOrphanRuns DirectoryFollows
PROPERTY StoppedEnds
