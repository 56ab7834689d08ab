SPECIFICATION LeasesSpec
CONSTANTS
  r1 = r1
  r2 = r2
  s1 = s1
  s2 = s2
  Receivers = {r1, r2}
  Streams = {s1, s2}
  Assignments <- MCAssignments
  Lease = 4
  MaxStreams = 1
  Limits = {1, 2}
  RenewEvery = 1
  MaxLosses = 1
  MaxDelay = 1
INVARIANTS OnePlaceEach LeaseHonoured
PROPERTY PlacesComeBack
