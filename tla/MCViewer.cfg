CONSTANTS
  sig1 = sig1
  sig2 = sig2
  file1 = file1
  file2 = file2
  file3 = file3
  Signals <- MCSignals
  Files <- MCFiles
  OtherSizes <- MCOtherSizes
  Shift <- MCShift
  Steps <- MCSteps
  Cycle = 2
  MaxRecs = 2
  MaxBlocks = 2

SPECIFICATION ViewerSpec
INVARIANTS ViewerTypeOK  ViewsAgree
 
CHECK_DEADLOCK FALSE
