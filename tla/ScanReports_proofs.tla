------------------------- MODULE ScanReports_proofs -------------------------
(***************************************************************************)
(* Proofs about the verdict of a finding and the reports of a scan, for    *)
(* payload files of any length and any number of failures.                 *)
(*                                                                         *)
(* A verdict is justified by the answers of all sweeps, so the invariant   *)
(* says what the sweeps behind the current one have brought.  It is        *)
(* carried over to the reports, because they do not touch it.  What a row  *)
(* leads to rests on the order of the last stage: all files first, then    *)
(* the rows.                                                               *)
(***************************************************************************)
EXTENDS ScanReportsProps, FiniteSetTheorems, TLAPS

-----------------------------------------------------------------------------
(* The verdict *)

\* No branch is decided before the first answer; while the check goes on, the
\* earlier sweeps are complete, the later ones not begun, and nothing but clean
\* or delayed answers came.
Underway ==
    /\ stage = "found" =>
          step = 1 /\ seen = {} /\ asked = [i \in 1..3 |-> 0]
    /\ stage = "checking" =>
          /\ step <= Len(Sweeps(kind))
          /\ asked[step] < planned[step]
          /\ \A i \in 1..3 : i < step => planned[i] > 0 /\ asked[i] = planned[i]
          /\ \A i \in 1..3 : i > step => asked[i] = 0
          /\ seen \subseteq {"clean", "delayed"}

IInv == TypeOK /\ Underway /\ FalsePositiveWasSwept /\ ConfirmedWasSeen

LEMMA SweepCount == ASSUME NEW k PROVE Len(Sweeps(k)) \in 1..3
BY DEF Sweeps

LEMMA SizesNatural == ASSUME NEW sweep PROVE Sizes(sweep) \subseteq Nat
BY PayloadsAssumption DEF Sizes, Files

LEMMA PossibleAnswers ==
    ASSUME NEW f, NEW k, NEW sweep PROVE Possible(f, k, sweep) \subseteq Answers
BY DEF Possible, Answers

\* An answer that settles nothing is clean or delayed, and no answer settles
\* that a finding is a false positive.
LEMMA RulingMeans ==
    ASSUME NEW answer \in Answers, NEW f, NEW k, NEW sweep
    PROVE  /\ Ruling(answer, f, k, sweep) \in {"PENDING", "CONFIRMED", "UNVERIFIED"}
           /\ Ruling(answer, f, k, sweep) = "PENDING" => answer \in {"clean", "delayed"}
           /\ Ruling(answer, f, k, sweep) = "CONFIRMED" /\ k # "unmapped" =>
                 answer = "evidence" \/ (answer = "timeout" /\ sweep = "sqli_time")
<1>1. CASE k = "unmapped"
    BY <1>1 DEF Ruling
<1>2. CASE k # "unmapped" /\ (answer = "evidence" \/ (answer = "timeout" /\ sweep = "sqli_time"))
    BY <1>2 DEF Ruling
<1>3. CASE k # "unmapped" /\ answer # "evidence" /\ ~(answer = "timeout" /\ sweep = "sqli_time")
  <2>1. CASE answer \in {"absent", "error", "timeout"}
      BY <1>3, <2>1 DEF Ruling
  <2>2. CASE answer \in {"clean", "delayed"}
      BY <1>3, <2>2 DEF Ruling
  <2> QED
      BY <1>3, <2>1, <2>2 DEF Answers
<1> QED
    BY <1>1, <1>2, <1>3

LEMMA InitInv == Init => IInv
<1> SUFFICES ASSUME Init PROVE IInv
    OBVIOUS
<1> USE DEF Init
<1>1. finding \in Finding
    BY DEF Normalized
<1>2. kind \in Kinds
  <2>1. Order[11] = "unmapped" /\ 11 \in DOMAIN Order
      BY DEF Order
  <2> QED
      BY <2>1 DEF Kinds
<1>3. status \in Status
    BY DEF FirstStatus, Status
<1>4. TypeOK
    BY <1>1, <1>2, <1>3 DEF TypeOK
<1>5. Underway /\ FalsePositiveWasSwept /\ ConfirmedWasSeen
    BY DEF Underway, FalsePositiveWasSwept, ConfirmedWasSeen, Judged
<1> QED
    BY <1>4, <1>5 DEF IInv

\* Sweep s starts, or has no payload: what Dispatch and NextSweep share.
LEMMA EnterInv ==
    ASSUME TypeOK, NEW k \in Kinds, NEW s \in 1..3, s <= Len(Sweeps(k)), Enter(k, s),
           kind' = k, finding' = finding, lists' = lists,
           asked' \in [1..3 -> Nat], seen' \subseteq {"clean", "delayed"},
           \A i \in 1..3 : i < s => planned[i] > 0 /\ asked'[i] = planned[i],
           \A i \in 1..3 : i >= s => asked'[i] = 0
    PROVE  IInv'
<1>1. PICK n \in Sizes(Sweeps(k)[s]) :
        /\ step' = s
        /\ planned' = [planned EXCEPT ![s] = n]
        /\ IF n = 0 THEN Judge("UNVERIFIED") ELSE stage' = "checking" /\ UNCHANGED status
    BY DEF Enter
<1>2. n \in Nat
    BY SizesNatural
<1>3. stage' \in {"checking", "judged"} /\ status' \in Status
    BY <1>1 DEF Judge, TypeOK, Status
<1>4. planned' \in [1..3 -> Nat] /\ planned'[s] = n /\ \A i \in 1..3 : i # s => planned'[i] = planned[i]
    BY <1>1, <1>2 DEF TypeOK
<1>5. TypeOK'
  <2>1. \A i \in 1..3 : asked'[i] <= planned'[i]
    <3> SUFFICES ASSUME NEW i \in 1..3 PROVE asked'[i] <= planned'[i]
        OBVIOUS
    <3>1. CASE i < s
      <4>1. asked'[i] = planned'[i] /\ asked'[i] \in Nat
          BY <1>4, <3>1
      <4> QED
          BY <4>1
    <3>2. CASE i >= s
      <4>1. asked'[i] = 0 /\ planned'[i] \in Nat
          BY <1>4, <3>2
      <4> QED
          BY <4>1
    <3> QED
        BY <3>1, <3>2
  <2>2. seen' \subseteq Answers
      BY DEF Answers
  <2> QED
      BY <1>1, <1>3, <1>4, <2>1, <2>2 DEF TypeOK
<1>6. Underway'
  <2>1. CASE n = 0
      BY <1>1, <2>1 DEF Judge, Underway
  <2>2. CASE n # 0
      BY <1>1, <1>2, <1>4, <2>2 DEF Underway
  <2> QED
      BY <2>1, <2>2
<1>7. (FalsePositiveWasSwept /\ ConfirmedWasSeen)'
    BY <1>1 DEF Judge, FalsePositiveWasSwept, ConfirmedWasSeen, Judged
<1> QED
    BY <1>5, <1>6, <1>7 DEF IInv

LEMMA DispatchInv == IInv /\ Dispatch => IInv'
<1> SUFFICES ASSUME IInv, Dispatch PROVE IInv'
    OBVIOUS
<1>1. PICK i \in DOMAIN Order :
        /\ kind' = Order[i]
        /\ IF \/ Order[i] = "noheader"
              \/ Order[i] \in NeedsParam /\ ~finding.param
           THEN Judge("UNVERIFIED") /\ UNCHANGED <<step, planned>>
           ELSE Enter(Order[i], 1)
    BY DEF Dispatch
<1>2. Order[i] \in Kinds
    BY DEF Kinds
<1>3. /\ stage = "found" /\ step = 1 /\ seen = {} /\ asked = [j \in 1..3 |-> 0]
      /\ UNCHANGED <<finding, asked, seen, lists>>
    BY DEF Dispatch, IInv, Underway
<1>4. CASE Judge("UNVERIFIED") /\ UNCHANGED <<step, planned>>
    BY <1>1, <1>2, <1>3, <1>4 DEF IInv, TypeOK, Underway, FalsePositiveWasSwept,
       ConfirmedWasSeen, Judged, Judge, Status
<1>5. CASE Enter(Order[i], 1)
  <2>1. 1 <= Len(Sweeps(Order[i]))
    <3>1. Len(Sweeps(Order[i])) \in 1..3
        BY SweepCount
    <3> QED
        BY <3>1
  <2>2. /\ TypeOK /\ seen' \subseteq {"clean", "delayed"}
        /\ asked' = [j \in 1..3 |-> 0]
      BY <1>3 DEF IInv
  <2>3. /\ asked' \in [1..3 -> Nat] /\ \A j \in 1..3 : asked'[j] = 0
      BY <2>2
  <2>4. kind' = Order[i] /\ UNCHANGED <<finding, lists>>
      BY <1>1, <1>3
  <2> HIDE DEF Order, Enter
  <2> QED
      BY <1>2, <1>5, <2>1, <2>2, <2>3, <2>4, EnterInv
<1> QED
    BY <1>1, <1>4, <1>5

\* What every answered request leaves behind.
LEMMA AnswerFacts ==
    ASSUME IInv, NEW answer, Answer(answer)
    PROVE  /\ answer \in Answers
           /\ Rule(answer) \in {"PENDING", "CONFIRMED", "UNVERIFIED"}
           /\ Rule(answer) = "PENDING" => answer \in {"clean", "delayed"}
           /\ step \in 1..3 /\ Len(Sweeps(kind)) \in 1..3
           /\ planned \in [1..3 -> Nat] /\ asked \in [1..3 -> Nat]
           /\ asked' \in [1..3 -> Nat]
           /\ asked'[step] = asked[step] + 1
           /\ \A i \in 1..3 : i # step => asked'[i] = asked[i]
           /\ \A i \in 1..3 : asked'[i] <= planned[i]
           /\ seen' = seen \union {answer}
           /\ seen' \subseteq Answers
<1>1. answer \in Answers
    BY PossibleAnswers DEF Answer
<1>2. /\ Rule(answer) \in {"PENDING", "CONFIRMED", "UNVERIFIED"}
      /\ Rule(answer) = "PENDING" => answer \in {"clean", "delayed"}
    BY <1>1, RulingMeans DEF Rule
<1>3. /\ asked' \in [1..3 -> Nat]
      /\ asked'[step] = asked[step] + 1
      /\ \A i \in 1..3 : i # step => asked'[i] = asked[i]
  <2>1. step \in 1..3 /\ asked \in [1..3 -> Nat]
      BY DEF IInv, TypeOK
  <2>2. asked' = [asked EXCEPT ![step] = asked[step] + 1]
      BY DEF Answer
  <2> QED
      BY <2>1, <2>2
<1>4. \A i \in 1..3 : asked'[i] <= planned[i]
  <2> SUFFICES ASSUME NEW i \in 1..3 PROVE asked'[i] <= planned[i]
      OBVIOUS
  <2>1. /\ asked[step] < planned[step] /\ asked[i] <= planned[i]
        /\ asked[i] \in Nat /\ planned[i] \in Nat /\ asked[step] \in Nat /\ planned[step] \in Nat
      BY DEF Answer, IInv, TypeOK, Underway
  <2> QED
      BY <1>3, <2>1
<1>5. seen' = seen \union {answer} /\ seen' \subseteq Answers
    BY <1>1 DEF Answer, IInv, TypeOK
<1>6. /\ step \in 1..3 /\ Len(Sweeps(kind)) \in 1..3
      /\ planned \in [1..3 -> Nat] /\ asked \in [1..3 -> Nat]
    BY SweepCount DEF IInv, TypeOK
<1> QED
    BY <1>1, <1>2, <1>3, <1>4, <1>5, <1>6

\* What is known of the other sweeps while the check goes on.
LEMMA CheckingFacts ==
    ASSUME IInv, stage = "checking"
    PROVE  /\ step <= Len(Sweeps(kind))
           /\ \A i \in 1..3 : i < step => planned[i] > 0 /\ asked[i] = planned[i]
           /\ \A i \in 1..3 : i > step => asked[i] = 0
           /\ seen \subseteq {"clean", "delayed"}
BY DEF IInv, Underway

LEMMA SettlesInv == ASSUME IInv, NEW answer, Settles(answer) PROVE IInv'
<1>1. Answer(answer)
    BY DEF Settles
<1>2. /\ stage' = "judged" /\ status' = Rule(answer)
      /\ UNCHANGED <<finding, kind, lists, step, planned>>
    BY DEF Settles, Judge, Answer
<1>3. status' \in {"CONFIRMED", "UNVERIFIED"}
    BY <1>1, <1>2, AnswerFacts DEF Settles
<1>4. TypeOK'
    BY <1>1, <1>2, <1>3, AnswerFacts DEF IInv, TypeOK, Status
<1>5. Underway' /\ FalsePositiveWasSwept'
    BY <1>2, <1>3 DEF Underway, FalsePositiveWasSwept
<1>6. ConfirmedWasSeen'
  <2>1. SUFFICES ASSUME status' = "CONFIRMED", kind # "unmapped"
                 PROVE  answer = "evidence" \/ (answer = "timeout" /\ Sweep = "sqli_time")
      BY <1>1, <1>2, AnswerFacts DEF ConfirmedWasSeen, Sweep
  <2> QED
      BY <1>1, <1>2, <2>1, AnswerFacts, RulingMeans DEF Rule
<1> QED
    BY <1>4, <1>5, <1>6 DEF IInv

LEMMA ContinuesInv == ASSUME IInv, NEW answer, Continues(answer) PROVE IInv'
<1>1. Answer(answer) /\ Rule(answer) = "PENDING"
    BY DEF Continues
<1>2. /\ stage = "checking" /\ asked'[step] < planned[step]
      /\ UNCHANGED <<finding, kind, stage, status, step, planned, lists>>
    BY DEF Continues, Answer
<1>3. TypeOK'
    BY <1>1, <1>2, AnswerFacts DEF IInv, TypeOK
<1>4. Underway'
    BY <1>1, <1>2, AnswerFacts, CheckingFacts DEF Underway
<1>5. (FalsePositiveWasSwept /\ ConfirmedWasSeen)'
    BY <1>2 DEF FalsePositiveWasSwept, ConfirmedWasSeen, Judged
<1> QED
    BY <1>3, <1>4, <1>5 DEF IInv

LEMMA NextSweepInv == ASSUME IInv, NEW answer, NextSweep(answer) PROVE IInv'
<1>1. Answer(answer) /\ Rule(answer) = "PENDING"
    BY DEF NextSweep
<1>2. /\ stage = "checking" /\ asked'[step] = planned[step]
      /\ UNCHANGED <<finding, kind, lists>>
    BY DEF NextSweep, Answer
<1>3. step \in 1..3 /\ step + 1 \in 1..3 /\ step + 1 <= Len(Sweeps(kind))
  <2>1. step \in 1..3 /\ step < Len(Sweeps(kind))
      BY DEF NextSweep, IInv, TypeOK
  <2>2. Len(Sweeps(kind)) \in 1..3
      BY SweepCount
  <2>3. \A m, n \in 1..3 : m < n => m + 1 \in 1..3 /\ m + 1 <= n
      OBVIOUS
  <2> QED
      BY <2>1, <2>2, <2>3
<1>4. seen' \subseteq {"clean", "delayed"}
    BY <1>1, <1>2, AnswerFacts, CheckingFacts
<1>5. \A i \in 1..3 : i < step + 1 => planned[i] > 0 /\ asked'[i] = planned[i]
    BY <1>1, <1>2, <1>3, AnswerFacts, CheckingFacts
<1>6. \A i \in 1..3 : i >= step + 1 => asked'[i] = 0
    BY <1>1, <1>2, <1>3, AnswerFacts, CheckingFacts
<1>7. asked' \in [1..3 -> Nat] /\ TypeOK /\ kind \in Kinds
    BY <1>1, AnswerFacts DEF IInv, TypeOK
<1>8. Enter(kind, step + 1)
    BY DEF NextSweep
<1> HIDE DEF Enter
<1> QED
    BY <1>2, <1>3, <1>4, <1>5, <1>6, <1>7, <1>8, EnterInv

LEMMA EndsInv == ASSUME IInv, NEW answer, Ends(answer) PROVE IInv'
<1>1. Answer(answer) /\ Rule(answer) = "PENDING"
    BY DEF Ends
<1>2. /\ stage = "checking" /\ asked'[step] = planned[step] /\ step = Len(Sweeps(kind))
      /\ UNCHANGED <<finding, kind, lists, step, planned>>
      /\ stage' = "judged"
      /\ status' = IF "delayed" \in seen' THEN "UNVERIFIED" ELSE "FALSE_POSITIVE"
    BY DEF Ends, Answer, Judge
<1>3. TypeOK'
    BY <1>1, <1>2, AnswerFacts DEF IInv, TypeOK, Status
<1>4. Underway' /\ ConfirmedWasSeen'
    BY <1>2 DEF Underway, ConfirmedWasSeen
<1>5. FalsePositiveWasSwept'
  <2>1. ASSUME status' = "FALSE_POSITIVE" PROVE seen' = {"clean"}
      BY <1>1, <1>2, <2>1, AnswerFacts, CheckingFacts
  <2>2. \A i \in 1..Len(Sweeps(kind)) : planned[i] > 0 /\ asked'[i] = planned[i]
      BY <1>1, <1>2, AnswerFacts, CheckingFacts
  <2> QED
      BY <1>2, <2>1, <2>2 DEF FalsePositiveWasSwept
<1> QED
    BY <1>3, <1>4, <1>5 DEF IInv

LEMMA ReportInv == IInv /\ Report => IInv'
<1> SUFFICES ASSUME IInv, Report PROVE IInv'
    OBVIOUS
<1>1. TypeOK'
    BY DEF IInv, TypeOK, Report, ReportsOf, checkVars
<1>2. (Underway /\ FalsePositiveWasSwept /\ ConfirmedWasSeen)'
    BY DEF IInv, Underway, FalsePositiveWasSwept, ConfirmedWasSeen, Judged, Report, checkVars, Sweep
<1> QED
    BY <1>1, <1>2 DEF IInv

LEMMA StepInv == IInv /\ [Next]_vars => IInv'
<1> SUFFICES ASSUME IInv, [Next]_vars PROVE IInv'
    OBVIOUS
<1>1. CASE UNCHANGED vars
    BY <1>1 DEF vars, checkVars, IInv, TypeOK, Underway, FalsePositiveWasSwept,
       ConfirmedWasSeen, Judged, Sweep
<1>2. CASE Dispatch
    BY <1>2, DispatchInv
<1>3. ASSUME NEW answer \in Answers, Request(answer) PROVE IInv'
    BY <1>3, SettlesInv, ContinuesInv, NextSweepInv, EndsInv DEF Request
<1>4. CASE Report
    BY <1>4, ReportInv
<1> QED
    BY <1>1, <1>2, <1>3, <1>4 DEF Next

LEMMA Inductive == Spec => []IInv
BY InitInv, StepInv, PTL DEF Spec

\* Every variable keeps its type; no sweep asks more often than it has payloads.
THEOREM TypeCorrect == Spec => []TypeOK
BY Inductive, PTL DEF IInv

\* poc_verifier.py calls a finding a false positive only after every payload of
\* every sweep was answered without a trace, however long the files are.
THEOREM FalsePositiveAlwaysSwept == Spec => []FalsePositiveWasSwept
BY Inductive, PTL DEF IInv

\* A verifier confirms a finding only by an answer that shows the flaw.
THEOREM ConfirmedAlwaysSeen == Spec => []ConfirmedWasSeen
BY Inductive, PTL DEF IInv

-----------------------------------------------------------------------------
(* The scan with its reports is the verification followed by PocVerdict *)

LEMMA StepRefines == [ReportNext]_allVars => [Next]_vars
<1> SUFFICES ASSUME [ReportNext]_allVars PROVE [Next]_vars
    OBVIOUS
<1>1. CASE UNCHANGED allVars
    BY <1>1 DEF allVars
<1>2. CASE Verify
    BY <1>2 DEF Verify, Next
<1>3. CASE Split
    BY <1>3 DEF Split, Next
<1>4. ASSUME NEW w \in Writers, Skip(w) \/ OpenFile(w) \/ CloseFile(w) \/ ExportFails(w)
      PROVE  UNCHANGED vars
    BY <1>4 DEF Skip, OpenFile, CloseFile, ExportFails
<1>5. CASE SaveRow
    BY <1>5 DEF SaveRow
<1> QED
    BY <1>1, <1>2, <1>3, <1>4, <1>5 DEF ReportNext

\* A finding comes to its verdict as if nothing followed: neither a failing
\* export nor another scan that writes the same files changes one.
THEOREM ReportsKeepVerdicts == ReportSpec => Spec
<1>1. ReportInit => Init
    BY DEF ReportInit
<1> QED
    BY <1>1, StepRefines, PTL DEF ReportSpec, Spec

\* With its reports, too, a scan calls a finding a false positive only after all
\* sweeps were answered without a trace.
THEOREM ReportedFalsePositiveWasSwept == ReportSpec => []FalsePositiveWasSwept
BY ReportsKeepVerdicts, FalsePositiveAlwaysSwept, PTL

\* And it confirms only what an answer has shown.
THEOREM ReportedConfirmedWasSeen == ReportSpec => []ConfirmedWasSeen
BY ReportsKeepVerdicts, ConfirmedAlwaysSeen, PTL

-----------------------------------------------------------------------------
(* The files *)

LEMMA ExportsAre ==
    /\ Paths = 1..7 /\ Len(Exports) = 7
    /\ Exports[1] = "confirmed" /\ Exports[2] = "false_positive"
    /\ Exports[3] = "unverified" /\ Exports[7] = "simple"
    /\ \A p \in 4..6 : Exports[p] = "full"
<1> USE DEF Exports
<1>1. Len(Exports) = 7
    OBVIOUS
<1>2. Paths = 1..7
    BY <1>1 DEF Paths
<1>3. Exports[4] = "full" /\ Exports[5] = "full" /\ Exports[6] = "full"
    OBVIOUS
<1>4. \A p \in 4..6 : p = 4 \/ p = 5 \/ p = 6
    OBVIOUS
<1> QED
    BY <1>1, <1>2, <1>3, <1>4

\* Until the split, nothing of the last stage has begun; after it, the lists are
\* those of the verdict.
SplitOnce ==
    /\ stage # "reported" =>
          /\ ~twin /\ \A w \in Writers : place[w] = "verifying" /\ next[w] = 1 /\ ~open[w]
    /\ stage = "reported" => place["this"] # "verifying" /\ lists = ReportsOf(status)
    /\ place["this"] \notin {"recording", "done"} => rows = {}

\* A scan that is alone with its names finds every file whole that it has passed.
Wanted(path) == Exports[path] \in NotEmpty
Alone ==
    ~twin =>
        /\ place["other"] \notin {"exporting", "recording"}
        /\ open["this"] =>
              place["this"] = "exporting" /\ wrote[next["this"]] = {} /\ next["this"] \in files
        /\ place["this"] = "exporting" =>
              \A path \in Paths : path < next["this"] /\ Wanted(path) => Whole(path)
        /\ place["this"] \in {"recording", "done"} =>
              \A path \in Paths : Wanted(path) => Whole(path)

RInv == ReportTypeOK /\ SplitOnce /\ Alone

LEMMA RInit == ReportInit => RInv
<1> SUFFICES ASSUME ReportInit PROVE RInv
    OBVIOUS
<1> USE DEF ReportInit
<1>1. TypeOK /\ stage = "found"
    BY InitInv DEF IInv, Init
<1>2. 1 \in Paths
    BY ExportsAre
<1>3. faults \in 0..MaxFaults
    BY ReportsAssumption
<1>4. ReportTypeOK
    BY <1>1, <1>2, <1>3 DEF ReportTypeOK
<1>5. SplitOnce
    BY <1>1 DEF SplitOnce
<1>6. Alone
    BY ExportsAre DEF Alone, Writers
<1> QED
    BY <1>4, <1>5, <1>6 DEF RInv

LEMMA FaultTypes ==
    ASSUME ReportTypeOK, NEW w \in Writers, Fault(w) PROVE faults' \in 0..MaxFaults
BY ReportsAssumption DEF ReportTypeOK, Fault

\* Where a writer comes to.
LEMMA AdvanceFacts ==
    ASSUME ReportTypeOK, NEW w \in Writers, Exporting(w), Advance(w)
    PROVE  /\ place' \in [Writers -> {"verifying", "exporting", "recording", "done", "failed"}]
           /\ next' \in [Writers -> Paths]
           /\ \A v \in Writers \ {w} : place'[v] = place[v] /\ next'[v] = next[v]
           /\ w = "other" => place'[w] \in {"exporting", "done"}
           /\ w = "this" =>
                 \/ /\ place'[w] = "exporting" /\ next'[w] = next[w] + 1
                 \/ /\ place'[w] = "recording" /\ next'[w] = 1 /\ next[w] = 7
<1> USE ExportsAre DEF ReportTypeOK, Exporting
<1>1. CASE next[w] < 7
    BY <1>1 DEF Advance
<1>2. CASE ~(next[w] < 7)
  <2>1. next[w] = 7
      BY <1>2
  <2>2. /\ next' = [next EXCEPT ![w] = 1]
        /\ place' = [place EXCEPT ![w] = IF w = "this" THEN "recording" ELSE "done"]
      BY <1>2 DEF Advance
  <2> QED
      BY <2>1, <2>2 DEF Writers
<1> QED
    BY <1>1, <1>2

\* A file passed in the right state keeps the promise of Alone.
LEMMA AdvanceAlone ==
    ASSUME RInv, Exporting("this"), Advance("this"), ~twin, UNCHANGED <<lists, rest, twin>>,
           ~open'["this"], \A path \in Paths : Whole(path) => Whole(path)',
           \A path \in Paths : path = next["this"] /\ Wanted(path) => Whole(path)'
    PROVE  Alone'
<1> USE ExportsAre DEF RInv
<1>1. "this" \in Writers /\ "other" \in Writers /\ "other" # "this"
    BY DEF Writers
<1>2. place'["other"] = place["other"]
    BY <1>1, AdvanceFacts
<1>3. \A path \in Paths : Wanted(path)' <=> Wanted(path)
    BY DEF Wanted, NotEmpty
<1>4. \A path \in Paths : path < next["this"] /\ Wanted(path) => Whole(path)'
    BY DEF Alone, Exporting
<1>5. \A path \in Paths : path <= next["this"] /\ Wanted(path) => Whole(path)'
  <2> SUFFICES ASSUME NEW path \in Paths, path <= next["this"], Wanted(path)
               PROVE  Whole(path)'
      OBVIOUS
  <2>1. path < next["this"] \/ path = next["this"]
      BY <1>1 DEF ReportTypeOK
  <2> QED
      BY <1>4, <2>1
<1>6. next["this"] \in Paths
    BY <1>1 DEF ReportTypeOK
<1>7. CASE place'["this"] = "exporting" /\ next'["this"] = next["this"] + 1
  <2>1. \A path \in Paths : path < next'["this"] => path <= next["this"]
      BY <1>6, <1>7
  <2> QED
      BY <1>2, <1>3, <1>5, <1>7, <2>1 DEF Alone
<1>8. CASE place'["this"] = "recording" /\ next["this"] = 7
    BY <1>2, <1>3, <1>5, <1>8 DEF Alone
<1> QED
    BY <1>1, <1>7, <1>8, AdvanceFacts

\* TypeOK of the verdict is known of every state, by TypeCorrect.
LEMMA RVerify == ASSUME RInv, TypeOK', Verify PROVE RInv'
<1>1. stage # "reported" /\ stage' # "reported" /\ lists' = lists
  <2>1. CASE Dispatch
      BY <2>1 DEF Dispatch, Enter, Judge
  <2>2. ASSUME NEW answer \in Answers, Request(answer)
        PROVE  stage = "checking" /\ lists' = lists /\ stage' # "reported"
      BY <2>2 DEF Request, Settles, Continues, NextSweep, Ends, Answer, Enter, Judge
  <2> QED
      BY <2>1, <2>2 DEF Verify
<1>2. UNCHANGED <<rest, twin, place, next, open, files, wrote, rows, faults>>
    BY DEF Verify, reportVars, exportVars
<1>3. ReportTypeOK'
    BY <1>2 DEF RInv, ReportTypeOK
<1>4. SplitOnce'
    BY <1>1, <1>2 DEF RInv, SplitOnce
<1>5. Alone'
    BY <1>1, <1>2 DEF RInv, Alone, Wanted, NotEmpty, Whole
<1> QED
    BY <1>3, <1>4, <1>5 DEF RInv

LEMMA RSplit == ASSUME RInv, TypeOK', Split PROVE RInv'
<1>1. /\ stage # "reported" /\ stage' = "reported" /\ lists' = ReportsOf(status')
      /\ UNCHANGED <<next, open, files, wrote, rows, faults>>
      /\ place' = [w \in Writers |-> IF w = "this" \/ twin' THEN "exporting" ELSE "done"]
      /\ twin' \in BOOLEAN /\ rest' \subseteq {"confirmed", "false_positive"}
    BY DEF Split, Report
<1>2. "this" \in Writers /\ "other" \in Writers
    BY DEF Writers
<1>3. ReportTypeOK'
    BY <1>1 DEF RInv, ReportTypeOK
<1>4. SplitOnce'
    BY <1>1, <1>2 DEF RInv, SplitOnce
<1>5. next["this"] = 1 /\ ~open["this"]
    BY <1>1, <1>2 DEF RInv, SplitOnce
<1>6. Alone'
  <2>1. \A path \in Paths : ~(path < 1)
      BY ExportsAre
  <2> QED
      BY <1>1, <1>2, <1>5, <2>1 DEF Alone
<1> QED
    BY <1>3, <1>4, <1>6 DEF RInv

\* What the steps of the exports share: the finding and its lists stay.
Kept == UNCHANGED <<vars, rest, twin, rows>>

LEMMA ExportSplitOnce ==
    ASSUME RInv, NEW w \in Writers, Exporting(w), Kept,
           \A v \in Writers \ {w} : place'[v] = place[v],
           place'[w] \notin {"verifying"}
    PROVE  SplitOnce'
<1>1. /\ stage = "reported" /\ lists = ReportsOf(status)
      /\ UNCHANGED <<stage, lists, status, rows>>
    BY DEF RInv, SplitOnce, Exporting, Kept, vars
<1>2. place'["this"] # "verifying"
    BY <1>1 DEF RInv, SplitOnce, Writers
<1>3. place'["this"] \notin {"recording", "done"} => rows = {}
    BY DEF RInv, SplitOnce, Writers, Exporting
<1> QED
    BY <1>1, <1>2, <1>3 DEF SplitOnce

\* Another scan in the exports is a twin, and of a scan with a twin Alone says
\* nothing.
LEMMA OtherAlone ==
    ASSUME RInv, NEW w \in Writers, w # "this", Exporting(w), Kept
    PROVE  Alone'
BY DEF RInv, Alone, Exporting, Kept, Writers

LEMMA RSkip == ASSUME RInv, TypeOK', NEW w \in Writers, Skip(w) PROVE RInv'
<1>1. /\ Exporting(w) /\ ~open[w] /\ Advance(w) /\ Kept
      /\ UNCHANGED <<lists, rest, twin, rows, open, files, wrote, faults>>
      /\ w = "this" => List(w) \notin NotEmpty
    BY DEF Skip, Kept, vars
<1>2. ReportTypeOK
    BY DEF RInv
<1>3. ReportTypeOK'
    BY <1>1, <1>2, AdvanceFacts DEF ReportTypeOK
<1>4. SplitOnce'
    BY <1>1, <1>2, AdvanceFacts, ExportSplitOnce DEF Writers
<1>5. Alone'
  <2>1. CASE w = "this" /\ ~twin
    <3>1. \A path \in Paths : Whole(path) => Whole(path)'
        BY <1>1 DEF Whole
    <3>2. \A path \in Paths : path = next["this"] /\ Wanted(path) => Whole(path)'
        BY <1>1, <2>1 DEF Wanted, List
    <3> QED
        BY <1>1, <2>1, <3>1, <3>2, AdvanceAlone
  <2>2. CASE twin
      BY <1>1, <2>2 DEF Alone
  <2>3. CASE w # "this"
      BY <1>1, <2>3, OtherAlone
  <2> QED
      BY <2>1, <2>2, <2>3
<1> QED
    BY <1>3, <1>4, <1>5 DEF RInv

LEMMA ROpen == ASSUME RInv, TypeOK', NEW w \in Writers, OpenFile(w) PROVE RInv'
<1>1. /\ Exporting(w) /\ ~open[w] /\ Kept
      /\ UNCHANGED <<lists, rest, twin, rows, place, next, faults>>
      /\ open' = [open EXCEPT ![w] = TRUE]
      /\ files' = files \union {next[w]}
      /\ wrote' = [wrote EXCEPT ![next[w]] = {}]
    BY DEF OpenFile, Kept, vars
<1>2. ReportTypeOK
    BY DEF RInv
<1>3. ReportTypeOK'
    BY <1>1, <1>2 DEF ReportTypeOK
<1>4. SplitOnce'
    BY <1>1, ExportSplitOnce DEF Exporting
<1>5. Alone'
  <2>1. CASE w = "this" /\ ~twin
    <3>1. "this" \in Writers /\ next["this"] \in Paths
        BY <1>2 DEF Writers, ReportTypeOK
    <3>2. wrote'[next["this"]] = {} /\ next["this"] \in files'
        BY <1>1, <1>2, <2>1, <3>1 DEF ReportTypeOK
    <3>3. \A path \in Paths : path < next["this"] /\ Whole(path) => Whole(path)'
      <4>1. ASSUME NEW path \in Paths, path < next["this"], Whole(path) PROVE Whole(path)'
        <5>1. path # next["this"]
            BY <4>1, <3>1, ExportsAre
        <5> QED
            BY <1>1, <1>2, <2>1, <4>1, <5>1 DEF Whole, ReportTypeOK
      <4> QED
          BY <4>1
    <3>4. \A path \in Paths : Wanted(path)' <=> Wanted(path)
        BY <1>1 DEF Wanted, NotEmpty
    <3>5. place["this"] = "exporting"
        BY <1>1, <2>1 DEF Exporting
    <3> QED
        BY <1>1, <2>1, <3>2, <3>3, <3>4, <3>5 DEF RInv, Alone
  <2>2. CASE twin
      BY <1>1, <2>2 DEF Alone
  <2>3. CASE w # "this"
      BY <1>1, <2>3, OtherAlone
  <2> QED
      BY <2>1, <2>2, <2>3
<1> QED
    BY <1>3, <1>4, <1>5 DEF RInv

LEMMA RClose == ASSUME RInv, TypeOK', NEW w \in Writers, CloseFile(w) PROVE RInv'
<1>1. /\ Exporting(w) /\ open[w] /\ Advance(w) /\ Kept
      /\ UNCHANGED <<lists, rest, twin, rows, files, faults>>
      /\ open' = [open EXCEPT ![w] = FALSE]
      /\ wrote' = [wrote EXCEPT ![next[w]] = @ \union {w}]
    BY DEF CloseFile, Kept, vars
<1>2. ReportTypeOK
    BY DEF RInv
<1>3. ReportTypeOK'
    BY <1>1, <1>2, AdvanceFacts DEF ReportTypeOK
<1>4. SplitOnce'
    BY <1>1, <1>2, AdvanceFacts, ExportSplitOnce DEF Writers
<1>5. Alone'
  <2>1. CASE w = "this" /\ ~twin
    <3>1. "this" \in Writers /\ next["this"] \in Paths
        BY <1>2 DEF Writers, ReportTypeOK
    <3>2. wrote'[next["this"]] = {"this"} /\ next["this"] \in files'
        BY <1>1, <1>2, <2>1, <3>1 DEF RInv, Alone, ReportTypeOK
    <3>3. \A path \in Paths : path # next["this"] => wrote'[path] = wrote[path]
        BY <1>1, <1>2, <2>1 DEF ReportTypeOK
    <3>4. \A path \in Paths : Whole(path) => Whole(path)'
        BY <1>1, <3>2, <3>3 DEF Whole
    <3>5. \A path \in Paths : path = next["this"] /\ Wanted(path) => Whole(path)'
        BY <3>2 DEF Whole
    <3>6. ~open'["this"]
        BY <1>1, <1>2, <2>1, <3>1 DEF ReportTypeOK
    <3> QED
        BY <1>1, <2>1, <3>4, <3>5, <3>6, AdvanceAlone
  <2>2. CASE twin
      BY <1>1, <2>2 DEF Alone
  <2>3. CASE w # "this"
      BY <1>1, <2>3, OtherAlone
  <2> QED
      BY <2>1, <2>2, <2>3
<1> QED
    BY <1>3, <1>4, <1>5 DEF RInv

LEMMA RFails == ASSUME RInv, TypeOK', NEW w \in Writers, ExportFails(w) PROVE RInv'
<1>1. /\ Exporting(w) /\ Kept
      /\ UNCHANGED <<lists, rest, twin, rows, next, files, wrote>>
      /\ place' = [place EXCEPT ![w] = "failed"]
      /\ open' = [open EXCEPT ![w] = FALSE]
    BY DEF ExportFails, Kept, vars
<1>2. ReportTypeOK
    BY DEF RInv
<1>3. faults' \in 0..MaxFaults
    BY <1>2, FaultTypes DEF ExportFails
<1>4. ReportTypeOK'
    BY <1>1, <1>2, <1>3 DEF ReportTypeOK
<1>5. place'[w] = "failed" /\ ~open'[w] /\ \A v \in Writers \ {w} : place'[v] = place[v]
    BY <1>1, <1>2 DEF ReportTypeOK
<1>6. SplitOnce'
    BY <1>1, <1>5, ExportSplitOnce
<1>7. Alone'
  <2>1. CASE w = "this"
      BY <1>1, <1>5, <2>1 DEF RInv, Alone, Writers
  <2>2. CASE w # "this"
      BY <1>1, <2>2, OtherAlone
  <2> QED
      BY <2>1, <2>2
<1> QED
    BY <1>4, <1>6, <1>7 DEF RInv

LEMMA RRow == ASSUME RInv, TypeOK', SaveRow PROVE RInv'
<1>1. /\ place["this"] = "recording"
      /\ UNCHANGED <<vars, lists, rest, twin, open, files, wrote>>
    BY DEF SaveRow, vars
<1>2. ReportTypeOK /\ "this" \in Writers /\ "other" \in Writers
    BY DEF RInv, Writers
<1>3. /\ rows' = rows \union {next["this"]} \/ rows' = rows
      /\ faults' \in 0..MaxFaults
    BY <1>2, FaultTypes DEF SaveRow, ReportTypeOK
<1>4. /\ next' \in [Writers -> Paths]
      /\ place' \in [Writers -> {"verifying", "exporting", "recording", "done", "failed"}]
      /\ place'["this"] \in {"recording", "done"} /\ place'["other"] = place["other"]
  <2>1. CASE next["this"] < 7
      BY <1>1, <1>2, <2>1, ExportsAre DEF SaveRow, ReportTypeOK
  <2>2. CASE ~(next["this"] < 7)
      BY <1>1, <1>2, <2>2, ExportsAre DEF SaveRow, ReportTypeOK
  <2> QED
      BY <2>1, <2>2
<1>5. ReportTypeOK'
    BY <1>1, <1>2, <1>3, <1>4 DEF ReportTypeOK
<1>6. SplitOnce'
    BY <1>1, <1>2, <1>4 DEF RInv, SplitOnce, vars
<1>7. Alone'
  <2>1. ~twin => ~open["this"]
      BY <1>1 DEF RInv, Alone
  <2> QED
      BY <1>1, <1>4, <2>1 DEF RInv, Alone, Wanted, NotEmpty, Whole
<1> QED
    BY <1>5, <1>6, <1>7 DEF RInv

LEMMA RNext == ASSUME RInv, TypeOK', [ReportNext]_allVars PROVE RInv'
<1>1. CASE UNCHANGED allVars
  <2>1. UNCHANGED <<stage, status, lists, rest, twin, place, next, open, files, wrote, rows, faults>>
      BY <1>1 DEF allVars, reportVars, exportVars, vars
  <2> QED
      BY <2>1 DEF RInv, ReportTypeOK, SplitOnce, Alone, Wanted, NotEmpty, Whole
<1>2. CASE ReportNext
    BY <1>2, RVerify, RSplit, RSkip, ROpen, RClose, RFails, RRow DEF ReportNext
<1> QED
    BY <1>1, <1>2

LEMMA AlwaysRInv == ReportSpec => []RInv
<1>1. IInv => TypeOK
    BY DEF IInv
<1>2. RInv /\ TypeOK' /\ [ReportNext]_allVars => RInv'
    BY RNext
<1> QED
    BY <1>1, <1>2, RInit, ReportsKeepVerdicts, Inductive, PTL DEF ReportSpec

\* Every variable of the last stage keeps its type.
THEOREM ReportsTypeCorrect == ReportSpec => []ReportTypeOK
BY AlwaysRInv, PTL DEF RInv

\* The rows are saved after all files: whatever export or insertion fails, and
\* wherever the process dies, a row of a list that is not empty leads to a whole
\* file of this scan, unless a second scan writes the same files.
THEOREM LinksAlwaysLeadToReports == ReportSpec => []LinkLeadsToReport
<1>1. RInv => LinkLeadsToReport
  <2> SUFFICES ASSUME RInv, NEW path \in rows, Wanted(path), ~twin PROVE Whole(path)
      BY DEF LinkLeadsToReport, Wanted
  <2>1. place["this"] \in {"recording", "done"} /\ path \in Paths
      BY DEF RInv, SplitOnce, ReportTypeOK
  <2> QED
      BY <2>1 DEF RInv, Alone
<1> QED
    BY <1>1, AlwaysRInv, PTL

-----------------------------------------------------------------------------
(* The lists *)

LEMMA FourFiles == ASSUME NEW i \in 1..3 PROVE Cardinality({i, 4, 5, 6}) = 4
<1>1. IsFiniteSet({}) /\ Cardinality({}) = 0
    BY FS_EmptySet
<1>2. IsFiniteSet({4}) /\ Cardinality({4}) = 1
    BY FS_Singleton
<1>3. IsFiniteSet({4} \union {5}) /\ Cardinality({4} \union {5}) = 2
    BY <1>2, FS_AddElement
<1>4. IsFiniteSet({4} \union {5} \union {6}) /\ Cardinality({4} \union {5} \union {6}) = 3
    BY <1>3, FS_AddElement
<1>5. i \notin {4} \union {5} \union {6}
    OBVIOUS
<1>6. Cardinality({4} \union {5} \union {6} \union {i}) = 4
    BY <1>4, <1>5, FS_AddElement
<1>7. {4} \union {5} \union {6} \union {i} = {i, 4, 5, 6}
    OBVIOUS
<1> QED
    BY <1>6, <1>7

\* The files of a verdict's lists: those of the full list and one more.
LEMMA FilesOfVerdict ==
    ASSUME NEW verdict \in Status
    PROVE  \E i \in 1..3 :
              /\ {path \in Paths : Exports[path] \in ReportsOf(verdict)} = {i, 4, 5, 6}
              /\ i = 1 <=> verdict = "CONFIRMED"
              /\ i = 2 <=> verdict = "FALSE_POSITIVE"
<1> USE ExportsAre DEF ReportsOf, Status
<1>1. CASE verdict = "CONFIRMED"
  <2>1. {path \in Paths : Exports[path] \in ReportsOf(verdict)} = {1, 4, 5, 6}
      BY <1>1
  <2> QED
      BY <1>1, <2>1
<1>2. CASE verdict = "FALSE_POSITIVE"
  <2>1. {path \in Paths : Exports[path] \in ReportsOf(verdict)} = {2, 4, 5, 6}
      BY <1>2
  <2> QED
      BY <1>2, <2>1
<1>3. CASE verdict \in {"UNVERIFIED", "PENDING"}
  <2>1. {path \in Paths : Exports[path] \in ReportsOf(verdict)} = {3, 4, 5, 6}
      BY <1>3
  <2> QED
      BY <1>3, <2>1
<1> QED
    BY <1>1, <1>2, <1>3

\* A finding of a scan that is through can be read in three files of all and in
\* one of its verdict, however many other findings and failed rows there are.
THEOREM FindingAlwaysReported == ReportSpec => []FindingIsReported
<1>1. RInv => FindingIsReported
  <2> SUFFICES ASSUME RInv, place["this"] = "done", ~twin
               PROVE  LET read == {path \in Paths : Whole(path) /\ Exports[path] \in lists} IN
                      /\ Cardinality(read) = 4
                      /\ \A path \in read :
                            /\ Exports[path] = "confirmed" => status = "CONFIRMED"
                            /\ Exports[path] = "false_positive" => status = "FALSE_POSITIVE"
      BY DEF FindingIsReported
  <2> DEFINE read == {path \in Paths : Whole(path) /\ Exports[path] \in lists}
  <2>1. lists = ReportsOf(status) /\ status \in Status
    <3>1. stage = "reported"
        BY DEF RInv, SplitOnce, Writers
    <3> QED
        BY <3>1 DEF RInv, SplitOnce, ReportTypeOK, TypeOK
  <2>2. \A path \in Paths : Exports[path] \in lists => Whole(path)
      BY DEF RInv, Alone, Wanted, NotEmpty
  <2>3. read = {path \in Paths : Exports[path] \in ReportsOf(status)}
      BY <2>1, <2>2
  <2>4. PICK i \in 1..3 : /\ read = {i, 4, 5, 6}
                          /\ i = 1 <=> status = "CONFIRMED"
                          /\ i = 2 <=> status = "FALSE_POSITIVE"
      BY <2>1, <2>3, FilesOfVerdict
  <2>5. Cardinality(read) = 4
      BY <2>4, FourFiles
  <2>6. ASSUME NEW path \in read
        PROVE  /\ Exports[path] = "confirmed" => status = "CONFIRMED"
               /\ Exports[path] = "false_positive" => status = "FALSE_POSITIVE"
      BY <2>4, <2>6, ExportsAre
  <2> QED
      BY <2>5, <2>6
<1> QED
    BY <1>1, AlwaysRInv, PTL
=============================================================================
