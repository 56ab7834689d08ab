SPECIFICATION WebSpec
CONSTANTS
  Requests = {1, 2, 3, 4}
  Addresses = {"lan"}
  MaxLoginFailures = 2
  Lockout = 1
  SessionDuration = 1
  NotBlocked = NotBlocked
  Browsers = {listener, player}
  Publishing = {player}
  MaxClients = 1
  SeqSpace = 16
  First = 13
  MaxSent = 5
  MaxSurplus = 2
  MinFrames = 1
  MaxFrames = 2
  TargetFrames = 3
  GroupSize = 2
  Timeouts = 2
  NoSeq = NoSeq
  NoFormat = NoFormat
  Receivers = {r1, r2}
  MessageFrames = {0, 1, 3}
  FramesPerPacket = 2
  MaxMessages = 3
INVARIANTS GatewayKept BrowserAudioWhole
PROPERTY GatewayEnds
CHECK_DEADLOCK FALSE
