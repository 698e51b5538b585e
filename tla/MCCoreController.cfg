SPECIFICATION MCSpec
CONSTANTS
  Tags <- MCTags
  Ports <- MCPorts
  Shapes <- MCShapes
  TcpShapes <- MCTcp
  UdpShapes <- MCUdp
  QuicShapes <- MCQuic
  Routes <- MCRoutes
  Cores <- MCCores
  Invalid <- MCInvalid
  Uuids <- MCUuids
  Records <- MCRecords
  Revisions <- MCRevisions
  Configs <- MCConfigs
  Deltas <- MCDeltas
  None = None
  Cases <- MCCases
  MaxTries = 2
INVARIANTS
  ListenersMatchConfig
  FingerprintNamesService
  UsersAreCurrent
  
