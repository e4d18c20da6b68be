SPECIFICATION Spec
CONSTANTS
  r1 = r1
  r2 = r2
  r3 = r3
  mirror = mirror
  Endpoint = {r1, r2, r3, mirror}
  AddressOf <- MCAddressOf
  HostAddress <- MCHostAddress
  Nodes = {r1}
  Incoming = {r2, r3, mirror}
  Named = {r1}
  Rude = {r1}
  RudeSessions = 1
  LengthInBytes = 2
  MaxBucketSize = 2
  QuietLimit = 0
  TimeRange = 65536
  RatingLimit = 30
  PeerId = {p1, p2, p3}
  MaxDials = 2
  MaxTime = 1
SYMMETRY Symmetry
CHECK_DEADLOCK FALSE
INVARIANTS TypeOK OnePeerPerEndpoint BucketsArePrefixes  DialsAreTimed
PROPERTY LivePeersStay
