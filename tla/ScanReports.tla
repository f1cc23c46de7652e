----------------------------- MODULE ScanReports -----------------------------
(***************************************************************************)
(* The last stage of run_pipeline_with_cb: what becomes of the finding     *)
(* that PocVerdict follows.  The findings are split by their verdicts, one *)
(* file per list is written by reporter.py, and then one row per file is   *)
(* saved, whether the file was written or not, for the dashboard to link.  *)
(*                                                                         *)
(* Files are named by the target and the second in which the scan began,   *)
(* so another scan, of the server or of the command line, may write the    *)
(* same ones.  What it does before this scan has its verdict is what it    *)
(* could do just after as well: it is let in then.                         *)
(***************************************************************************)
EXTENDS PocVerdict

CONSTANTS
    TwinTools,   \* tools beside whose findings there is a second scan: bounds a model
    MaxFaults    \* bounds the failures of the followed scan

ASSUME ReportsAssumption == TwinTools \subseteq Tools /\ MaxFaults \in Nat

\* The files in the order they are written and what they list: four CSVs, the
\* JSON and two HTMLs, the second of which is for laymen and shows a choice.
Exports == <<"confirmed", "false_positive", "unverified", "full", "full", "full", "simple">>
Paths  == DOMAIN Exports

VARIABLES
    rest,      \* the lists that other findings of the scan are in
    twin,      \* whether another scan writes files of the same name
    place,     \* of each scan: exporting, recording, done or failed
    next,      \* and the file it has come to
    open,      \* whether it is writing that file
    files,     \* the files there are
    wrote,     \* the scans that have written to each file since it was emptied
    rows,      \* the rows of table reports
    faults

exportVars == <<place, next, open, files, wrote>>
reportVars == <<rest, twin, exportVars, rows, faults>>
allVars    == <<vars, reportVars>>

Writers == {"this", "other"}

ReportInit ==
    /\ Init
    /\ rest = {} /\ twin = FALSE
    /\ place = [w \in Writers |-> "verifying"]
    /\ next = [w \in Writers |-> 1]
    /\ open = [w \in Writers |-> FALSE]
    /\ files = {}
    /\ wrote = [path \in Paths |-> {}]
    /\ rows = {}
    /\ faults = 0

\* The lists that are not empty in any scan, because SQLMap always makes a
\* finding, which has no parameter and therefore no verdict; and in this one.
AnyScans == {"full", "simple", "unverified"}
NotEmpty == AnyScans \union lists \union rest

List(w) == Exports[next[w]]
Exporting(w) == place[w] = "exporting"

\* Whoever comes to the end of the exports goes on with the rows; the other
\* scan's rows are of no interest.
Advance(w) ==
    IF next[w] < Len(Exports)
    THEN next' = [next EXCEPT ![w] = @ + 1] /\ UNCHANGED place
    ELSE /\ next' = [next EXCEPT ![w] = 1]
         /\ place' = [place EXCEPT ![w] = IF w = "this" THEN "recording" ELSE "done"]

-----------------------------------------------------------------------------
Verify ==
    /\ Dispatch \/ \E answer \in Answers : Request(answer)
    /\ UNCHANGED reportVars

\* make_paths and the three filters.
Split ==
    /\ Report
    /\ rest' \in SUBSET {"confirmed", "false_positive"}
    /\ twin' \in BOOLEAN /\ (twin' => finding.tool \in TwinTools)
    /\ place' = [w \in Writers |-> IF w = "this" \/ twin' THEN "exporting" ELSE "done"]
    /\ UNCHANGED <<next, open, files, wrote, rows, faults>>

\* export_csv leaves an empty list out, and with it the file.
Skip(w) ==
    /\ Exporting(w) /\ ~open[w]
    /\ List(w) \notin IF w = "this" THEN NotEmpty ELSE AnyScans
    /\ Advance(w)
    /\ UNCHANGED <<vars, rest, twin, open, files, wrote, rows, faults>>

\* open(path, "w") empties the file.
OpenFile(w) ==
    /\ Exporting(w) /\ ~open[w]
    /\ w = "this" => List(w) \in NotEmpty
    /\ open' = [open EXCEPT ![w] = TRUE]
    /\ files' = files \union {next[w]}
    /\ wrote' = [wrote EXCEPT ![next[w]] = {}]
    /\ UNCHANGED <<vars, rest, twin, place, next, rows, faults>>

\* The list is written.
CloseFile(w) ==
    /\ Exporting(w) /\ open[w]
    /\ open' = [open EXCEPT ![w] = FALSE]
    /\ wrote' = [wrote EXCEPT ![next[w]] = @ \union {w}]
    /\ Advance(w)
    /\ UNCHANGED <<vars, rest, twin, files, rows, faults>>

Fault(w) ==
    IF w = "this" THEN faults < MaxFaults /\ faults' = faults + 1 ELSE UNCHANGED faults

\* Mutated form of ExportFails: the failure of an export is ignored.
ExportFailsIgnored(w) ==
    /\ Exporting(w)
    /\ Fault(w)
    /\ open' = [open EXCEPT ![w] = FALSE]
    /\ Advance(w)
    /\ UNCHANGED <<vars, rest, twin, files, wrote, rows>>

\* An export raises, before or while it writes, and with it the pipeline; or the
\* process dies.
ExportFails(w) ==
    /\ Exporting(w)
    /\ Fault(w)
    /\ place' = [place EXCEPT ![w] = "failed"]
    /\ open' = [open EXCEPT ![w] = FALSE]
    /\ UNCHANGED <<vars, rest, twin, next, files, wrote, rows>>

\* _save_report_safe: a row that cannot be saved is left out.
SaveRow ==
    /\ place["this"] = "recording"
    /\ \/ rows' = rows \union {next["this"]} /\ UNCHANGED faults
       \/ Fault("this") /\ UNCHANGED rows
    /\ IF next["this"] < Len(Exports)
       THEN next' = [next EXCEPT !["this"] = @ + 1] /\ UNCHANGED place
       ELSE place' = [place EXCEPT !["this"] = "done"] /\ UNCHANGED next
    /\ UNCHANGED <<vars, rest, twin, open, files, wrote>>

ReportNext ==
    \/ Verify
    \/ Split
    \/ \E w \in Writers : Skip(w) \/ OpenFile(w) \/ CloseFile(w) \/ ExportFails(w)
    \/ SaveRow

ReportSpec == ReportInit /\ [][ReportNext]_allVars
=============================================================================
