SPECIFICATION FairSpec
CONSTANTS
  ConnectionIdle = 1
  UplinkOnly = 1
  DownlinkOnly = 1
  Drain = 1
  Window = 1
  None = None
INVARIANTS
  
  WholeIfUndisturbed
PROPERTIES
  RelaysEnd
CHECK_DEADLOCK FALSE
