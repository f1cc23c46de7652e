------------------------------ MODULE MCZapScan ------------------------------
EXTENDS ZapScanProps

\* In polls, a tenth and less of the code's 300, 10 and 240.
MCTimeout == [spider |-> 2, ajax |-> 3, ascan |-> 3]

MCProcess == [s \in Scans |-> "server"]
=============================================================================
