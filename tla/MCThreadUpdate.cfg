SPECIFICATION Spec
CONSTANTS
  Signals <- Apart
  KeyOf <- ApartKeys
  Virtual = "Virtual"
  ScriptKey = "vVirtual"
  TwoHours = 3
  MinAlloc = 2
  MaxRecords = 4
INVARIANTS TypeOK RingIsLatest ScanInOrder
PROPERTY HeardIsConnected
