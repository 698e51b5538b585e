SPECIFICATION HandlersSpec
CONSTANTS
  c1 = c1
  c2 = c2
  near = near
  far = far
  Absent = Absent
  Conns = {c1, c2}
  IpAddrs = {near, far}
  Settings <- MCSettings
  BlockedSources = {far}
  Slots = 1
  Threshold = 2
  Window = 1
  BlockDuration = 2
  MaxEntries = 2
INVARIANTS
  DeviceIsHeld
PROPERTIES
  ShutOutForCause
  HandlersEnd
CHECK_DEADLOCK FALSE
