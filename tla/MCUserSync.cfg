SPECIFICATION MCSpec
CONSTANTS
  Tags <- MCTags
  Ports <- MCPorts
  Shapes <- MCShapes
  TcpShapes <- MCTcp
  UdpShapes <- MCUdp
  QuicShapes <- MCQuic
  Routes <- MCRoutes
  Cores <- MCCores
  Invalid = {}
  Uuids <- MCUuids
  Records <- MCRecords
  Revisions <- MCRevisions
  Configs <- MCConfigs
  Deltas = {}
  PanelTables <- MCPanelTables
  None = None
INVARIANTS
  RevisionNamesTable
  FingerprintsAreExact
  
  TablesAreFaithful
