SPECIFICATION Spec
CONSTANTS
  Names = {"flag", "sin"}
  Fronts = {"flag"}
  Vals = {0, 1}
  PacketSz = 2
  MaxFd = 1
INVARIANTS TypeOK PacketIsSamples Disconnected
PROPERTIES Served DisconnectReturns
