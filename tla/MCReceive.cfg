SPECIFICATION Spec
CONSTANTS
  Clients = {c1}
  Frames = 3
  PayloadLen = 1
  Modes = {"com", "tcp"}
  c1 = c1
  MaxMess = 3
INVARIANTS TypeOK FramesServed StoresIntoServer
PROPERTIES ExitEnds
CHECK_DEADLOCK FALSE
