SPECIFICATION MultiSpec
CONSTANTS
  Sources = {1, 2, 3}
  Skipped = {2}
  Capacity = 2
  MaxBlock = 2
  MaxPacket = 2
  MaxFrames = 4
  Selected <- SelectedChannels
  MaxBufferedFrames = 3
  MaxPacketFrames = 2
  MaxBlockFrames = 4
  MaxDelivered = 6
  Routes <- RoutedChannels
  Outputs = {"left", "right"}
  Muted = "muted"
  PacketFrames = 2
  Targets = {1, 2}
  CapFrames = 4
  Packets = {1, 2, 3}
  CallbackFrames = 2
  Devices = 2
  MaximumSamples = 2
  MaxPayload = 2
  MaxReceived = 5
INVARIANTS CombinedWhole PublishedWhole PlayoutWhole
PROPERTY WorkersGoOn
CHECK_DEADLOCK FALSE
