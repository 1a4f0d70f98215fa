SPECIFICATION Spec
CONSTANTS
  Signals = {"temp"}
  SignalTriggers = {"high"}
  OnName = "On"
  OffName = "Off"
  Values = {0, 1}
  Conditions <- SomeConditions
  CycleTms = {1}
  ModuleActive = {FALSE}
  MaxObjs = 4
INVARIANTS TypeOK
  
