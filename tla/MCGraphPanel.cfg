CONSTANTS
  sig1 = sig1
  sig2 = sig2
  PanelSignals <- MCSignals
  BoolSignals <- MCBoolSignals
  MaxGraphs = 3
  PanelSessions = 2
  Texts <- MCTexts
  NoText = "none"
  iniText <- MCIniText
  slashed <- MCSlashed
  Speeds = {"1200", "9600"}
  Slowest = "1200"
  Parts = 720

SPECIFICATION PanelSpec
INVARIANTS PanelTypeOK
PROPERTIES MovingKeeps LayoutKept
CHECK_DEADLOCK FALSE
