SPECIFICATION Spec
CONSTANTS
  Signals = {s1, s2}
  CopySz = 2
  BlockMax = 1
  MaxValues = 3
  MaxFaults = 1
  MaxToggles = 1
  MaxHours = 1
INVARIANT FlushedWhenFull
CHECK_DEADLOCK FALSE
