---------------------------- MODULE MCGraphPanel ----------------------------
(* Two signals, one of them BOOL; three graphs a session.  The texts of the *)
(* settings: none, a plain one, one with \ in it, one with a comma.  The    *)
(* gestures on the axes are checked by the assumptions of AxesChecks, what  *)
(* is painted and tabulated by those of PlotChecks, the graph windows and   *)
(* their saved state by those of WindowsChecks.                             *)
EXTENDS GraphPanel, Settings, AxesChecks, PlotChecks, WindowsChecks

CONSTANTS sig1, sig2

MCSignals     == {sig1, sig2}
MCBoolSignals == {sig2}

MCTexts   == {"none", "plain", "windows", "comma", "1200", "9600"}
MCIniText == [t \in MCTexts |-> IF t = "comma" THEN "none" ELSE t]
MCSlashed == [t \in MCTexts |-> IF t = "windows" THEN "plain" ELSE t]
=============================================================================
