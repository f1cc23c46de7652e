--------------------------- MODULE MCTargetMonitor ---------------------------
EXTENDS TargetMonitorProps
=============================================================================
