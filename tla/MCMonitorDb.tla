----------------------------- MODULE MCMonitorDb ----------------------------
EXTENDS MonitorDb

CONSTANTS a, b, t, u

MCSignals  == {a, b}
MCTriggers == {t, u}
MCOwner    == [n \in MCTriggers |-> a]
MCComments == {Empty, "comment"}
=============================================================================
