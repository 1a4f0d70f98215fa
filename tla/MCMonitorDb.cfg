CONSTANTS
  a = a
  b = b
  t = t
  u = u
  Signals <- MCSignals
  Triggers <- MCTriggers
  Owner <- MCOwner
  OnName = "on"
  Comments <- MCComments
  Colours = {"red"}
  MaxSessions = 3

SPECIFICATION Spec
INVARIANTS TypeOK  
CHECK_DEADLOCK FALSE
