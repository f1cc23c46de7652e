-------------------------- MODULE ScanReportsProps --------------------------
(***************************************************************************)
(* What the reports of a scan promise to its reader.                       *)
(***************************************************************************)
EXTENDS ScanReports, PocVerdictProps

ReportTypeOK ==
    /\ TypeOK
    /\ rest \subseteq {"confirmed", "false_positive"}
    /\ twin \in BOOLEAN
    /\ place \in [Writers -> {"verifying", "exporting", "recording", "done", "failed"}]
    /\ next \in [Writers -> Paths]
    /\ open \in [Writers -> BOOLEAN]
    /\ files \subseteq Paths
    /\ wrote \in [Paths -> SUBSET Writers]
    /\ rows \subseteq Paths
    /\ faults \in 0..MaxFaults

\* A file is there and holds this scan's list and nothing else.
Whole(path) == path \in files /\ wrote[path] = {"this"}

\* A row of the table leads to this scan's own, whole file, whatever failed and
\* wherever: unless the list is empty, and there is no file (the link is dead),
\* or another scan of the target began in the same second.
LinkLeadsToReport ==
    \A path \in rows : Exports[path] \in NotEmpty /\ ~twin => Whole(path)

\* Once a scan is through, its finding can be read in the three files of the full
\* list and in exactly one of the lists by verdict, the one its own verdict names.
FindingIsReported ==
    place["this"] = "done" /\ ~twin =>
        LET read == {path \in Paths : Whole(path) /\ Exports[path] \in lists} IN
        /\ Cardinality(read) = 4
        /\ \A path \in read :
              /\ Exports[path] = "confirmed" => status = "CONFIRMED"
              /\ Exports[path] = "false_positive" => status = "FALSE_POSITIVE"

-----------------------------------------------------------------------------
(* What a reader of the dashboard may expect, and the code does not keep *)

\* Every link of the dashboard leads to a file.
NoDeadLinks == rows \subseteq files

\* "Report files of the scan": the files that a row leads to are the scan's own.
LinkLeadsToOwn == \A path \in rows \intersect files : wrote[path] \subseteq {"this"}

\* Every report of a scan that is through has its link.
EveryReportLinked ==
    place["this"] = "done" => {path \in Paths : Exports[path] \in NotEmpty} \subseteq rows
=============================================================================
