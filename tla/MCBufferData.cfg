SPECIFICATION Spec
CONSTANTS
  Writers = {w1, w2}
  BufSz = 4
  BatchShare = 2
  MaxPacket = 3
  Modules = {m1}
  OffsetMs = 1
  MaxRecords = 6
INVARIANTS TypeOK WriterExclusion IntactDelivery
PROPERTIES ImplementsQueue EventuallyDelivered
