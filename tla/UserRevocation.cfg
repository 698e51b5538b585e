SPECIFICATION MCSpec
CONSTANTS
  Inbounds = {tcp, quic}
  Quic = {quic}
  Connections = {c1, c2}
  Commands = {"delta", "full", "config"}
  None = None
  Sizes = {1, 4, 12, 17}
  PacketSizes = {0, 1, 5}
  MaxWrites = 2
SYMMETRY Interchangeable
INVARIANTS RegisteredAreShut EnabledIsOpen FramesAreWhole
