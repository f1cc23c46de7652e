---------------------------- MODULE MCScanReports ----------------------------
EXTENDS ScanReportsProps

\* Two payloads make the first, the last and the order of answers matter.
TwoEach == [f \in Files |-> 2]
=============================================================================
