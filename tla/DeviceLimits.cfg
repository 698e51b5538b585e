SPECIFICATION MCSpec
CONSTANTS
  Clients = {c1, c2, c3}
  Ips = {i1, i2}
  Nodes = {n1}
  Limit = 1
  Policies = {FALSE, TRUE}
  PanelNodes = {n1}
  AliveCounts = {1}
  Revocations = 1
  NoIp = NoIp
  Sessions = {1, 2}
  PacketIds = 1
  PayloadSizes = {0, 1, 5}
  MaxSizes = {9, 16, 19}
  MaxSends = 2
  MaxTime = 2
  Lifetime = 1
  Expiry = 1
  MaxFragments = 3
  HYSTERIA2_MAX_FRAGMENT_SETS = 1
  TUIC_MAX_FRAGMENT_SETS = 2
  UDP_MAX_REASSEMBLED_BYTES = 6
SYMMETRY Symmetry
INVARIANTS
  NoPhantomDevice
  DevicesWithinLimit
  PacketsAreWhole
