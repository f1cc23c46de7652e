------------------------- MODULE ScanPipeline_proofs -------------------------
(***************************************************************************)
(* Proofs that ZAP is driven by one run at a time and that a run recorded  *)
(* as done is over, for any runs, scanners and faults.                     *)
(***************************************************************************)
EXTENDS ScanPipelineProps, SequenceTheorems, TLAPS

-----------------------------------------------------------------------------
(* ZAP's lock *)

\* Who holds _zap_lock knows it, and nobody is inside run_scanner("zap")
\* without holding it.
LockInv ==
    /\ zap \in [Runs -> ZapPc]
    /\ acquired \in [Runs -> BOOLEAN]
    /\ zapLock \in Runs \union {NoRun}
    /\ \A r \in Runs : acquired[r] <=> zapLock = r
    /\ \A r \in UsingZap : acquired[r]

LEMMA LockInit == Init => LockInv
BY PipelineAssumption DEF Init, LockInv, UsingZap, ZapPc

\* Only the ZAP threads and Launch touch what LockInv is about.
LEMMA LockStep == LockInv /\ [Next]_vars => LockInv'
<1> SUFFICES ASSUME LockInv, [Next]_vars
             PROVE  LockInv'
    OBVIOUS
<1> USE PipelineAssumption DEF LockInv, UsingZap, ZapPc
<1>1. CASE UNCHANGED vars
    BY <1>1 DEF vars, zapVars
<1>2. ASSUME NEW r \in Runs, Cancel(r) \/ Record(r) \/ ScannerFinishes(r)
      PROVE  LockInv'
    BY <1>2 DEF Cancel, Record, ScannerFinishes, zapVars
<1>3. ASSUME NEW r \in Runs, MainStep(r)
      PROVE  LockInv'
  <2>1. CASE Launch(r)
      BY <2>1 DEF Launch, zapVars
  <2>2. CASE ~Launch(r)
    <3>1. UNCHANGED zapVars
        BY <1>3, <2>2 DEF MainStep, Submit, Poll, Collect, Drained, Results,
           CheckBeforeJoin, Join, NextStage, CancelledLate, Complete, MainRaises,
           MainWrites, MainWriteFails
    <3> QED BY <3>1 DEF zapVars
  <2> QED BY <2>1, <2>2
<1>4. ASSUME NEW r \in Runs, ZapStep(r)
      PROVE  LockInv'
  <2>1. CASE ZapBegins(r)
      BY <2>1 DEF ZapBegins, ZapGoto
  <2>2. CASE ZapAcquires(r)
      BY <2>2 DEF ZapAcquires, ZapGoto
  <2>3. CASE ZapTimesOut(r)
      BY <2>3 DEF ZapTimesOut, ZapGoto
  <2>4. CASE ZapProgress(r)
      BY <2>4 DEF ZapProgress, ZapGoto, ZapAt
  <2>5. CASE ZapChecks(r)
      BY <2>5 DEF ZapChecks, ZapGoto, ZapAt
  <2>6. CASE ZapScanned(r)
      BY <2>6 DEF ZapScanned, ZapGoto
  <2>7. CASE ZapReleases(r)
      BY <2>7 DEF ZapReleases, ZapGoto
  <2>8. CASE ZapWrites(r)
      BY <2>8 DEF ZapWrites, zapVars
  <2>9. CASE ZapWriteFails(r)
      BY <2>9 DEF ZapWriteFails, ZapGoto
  <2> QED BY <1>4, <2>1, <2>2, <2>3, <2>4, <2>5, <2>6, <2>7, <2>8, <2>9 DEF ZapStep
<1> QED BY <1>1, <1>2, <1>3, <1>4 DEF Next

\* One run at a time drives the ZAP daemon, for any number of runs: _zap_lock is
\* released only by the run that acquired it and used only by that run.
THEOREM ZapAlwaysExclusive == Spec => []ZapExclusive
<1>1. LockInv => ZapExclusive
    BY DEF LockInv, ZapExclusive, UsingZap
<1> QED BY <1>1, LockInit, LockStep, PTL DEF Spec

-----------------------------------------------------------------------------
(* The lock that ZapLock describes *)

Places == [r \in Runs |-> ZapPlace(r)]

LEMMA LockInitRefines == Init => Lock!Init
BY DEF Init, Lock!Init, ZapPlace, UsingZap

\* What the other runs do not see: a step that leaves zap and acquired alone.
LEMMA LockStutters == UNCHANGED <<zap, acquired>> => UNCHANGED Places
BY DEF Places, ZapPlace, UsingZap

Others(r) == \A s \in Runs : s # r => zap'[s] = zap[s] /\ acquired'[s] = acquired[s]

\* A step of one ZAP thread moves that thread only.
LEMMA OneMoves ==
    ASSUME NEW r \in Runs, Others(r)
    PROVE  Places' = [Places EXCEPT ![r] = ZapPlace(r)']
<1>1. \A s \in Runs : s # r => ZapPlace(s)' = ZapPlace(s)
    BY DEF Others, ZapPlace, UsingZap
<1> QED BY <1>1 DEF Places

\* Before Launch there is no ZAP thread, and it reports nothing before it begins.
StartInv ==
    /\ main \in [Runs -> MainPc]
    /\ zap \in [Runs -> ZapPc]
    /\ zapWrite = [r \in Runs |-> zapWrite[r]]
    /\ \A r \in Runs :
          /\ main[r] = "start" => zap[r] = "none"
          /\ zap[r] \in {"none", "begin"} => zapWrite[r] = NoWrite

LEMMA StartInit == Init => StartInv
BY DEF Init, StartInv, MainPc, ZapPc, NoWrite

LEMMA StartStep == StartInv /\ [Next]_vars => StartInv'
<1> SUFFICES ASSUME StartInv, [Next]_vars
             PROVE  StartInv'
    OBVIOUS
<1> USE DEF StartInv
<1>1. CASE UNCHANGED vars
    BY <1>1 DEF vars, mainVars, zapVars, pctVars
<1>2. ASSUME NEW r \in Runs, Cancel(r) \/ Record(r) \/ ScannerFinishes(r)
      PROVE  StartInv'
    BY <1>2 DEF Cancel, Record, ScannerFinishes, mainVars, zapVars, pctVars, MainPc
<1>3. ASSUME NEW r \in Runs, MainStep(r)
      PROVE  StartInv'
  <2> USE DEF Goto, Leave, MainReports, MainPc, zapVars, mainVars, pctVars
  <2>1. CASE Launch(r)
    <3>1. zap[r] = "none" /\ zapWrite' = zapWrite
        BY <2>1 DEF Launch, MainAt
    <3>2. main' \in [Runs -> MainPc] /\ main'[r] # "start"
        BY <2>1 DEF Launch
    <3>3. /\ zap' = zap \/ zap' = [zap EXCEPT ![r] = "begin"]
          /\ \A s \in Runs : s # r => main'[s] = main[s]
        BY <2>1 DEF Launch
    <3> QED BY <3>1, <3>2, <3>3 DEF ZapPc
  <2>2. CASE Submit(r) \/ Drained(r) \/ Results(r) \/ Join(r) \/ NextStage(r)
      BY <2>2 DEF Submit, Drained, Results, Join, NextStage, MainAt
  <2>3. CASE Poll(r) \/ CheckBeforeJoin(r)
      BY <2>3 DEF Poll, CheckBeforeJoin, CancelledInScan
  <2>4. CASE Collect(r)
      BY <2>4 DEF Collect
  <2>5. CASE CancelledLate(r) \/ Complete(r) \/ MainRaises(r)
      BY <2>5 DEF CancelledLate, Complete, MainRaises
  <2>6. CASE MainWrites(r) \/ MainWriteFails(r)
      BY <2>6 DEF MainWrites, MainWriteFails, Escape
  <2> QED BY <1>3, <2>1, <2>2, <2>3, <2>4, <2>5, <2>6 DEF MainStep
<1>4. ASSUME NEW r \in Runs, ZapStep(r)
      PROVE  StartInv'
  <2> USE DEF ZapAt, ZapGoto, ZapReports, ZapOnly, ZapPc, mainVars, pctVars
  <2>1. CASE ZapWrites(r)
      BY <2>1 DEF ZapWrites, zapVars
  <2>2. CASE ZapWriteFails(r)
      BY <2>2 DEF ZapWriteFails
  <2>3. CASE ZapBegins(r) \/ ZapAcquires(r) \/ ZapTimesOut(r)
      BY <2>3 DEF ZapBegins, ZapAcquires, ZapTimesOut
  <2>4. CASE ZapProgress(r)
      BY <2>4 DEF ZapProgress
  <2>5. CASE ZapChecks(r) \/ ZapScanned(r)
      BY <2>5 DEF ZapChecks, ZapScanned
  <2>6. CASE ZapReleases(r)
      BY <2>6 DEF ZapReleases
  <2> QED BY <1>4, <2>1, <2>2, <2>3, <2>4, <2>5, <2>6 DEF ZapStep
<1> QED BY <1>1, <1>2, <1>3, <1>4 DEF Next

LEMMA LockStepRefines ==
    StartInv /\ LockInv /\ LockInv' /\ [Next]_vars => [Lock!Next]_Places
<1> SUFFICES ASSUME StartInv, LockInv, LockInv', [Next]_vars
             PROVE  Lock!Next \/ UNCHANGED Places
    OBVIOUS
<1>1. CASE UNCHANGED vars
    BY <1>1, LockStutters DEF vars, zapVars
<1>2. ASSUME NEW r \in Runs, Cancel(r) \/ Record(r) \/ ScannerFinishes(r)
      PROVE  UNCHANGED Places
    BY <1>2, LockStutters DEF Cancel, Record, ScannerFinishes, zapVars
<1>3. ASSUME NEW r \in Runs, MainStep(r)
      PROVE  UNCHANGED Places
  <2>1. CASE Launch(r) /\ r \notin cancelFlags
    <3>1. zap[r] = "none" /\ zap' = [zap EXCEPT ![r] = "begin"] /\ acquired' = acquired
        BY <2>1 DEF Launch, StartInv, MainAt
    <3>2. Places' = [Places EXCEPT ![r] = ZapPlace(r)']
        BY <3>1, OneMoves DEF Others, LockInv
    <3>3. ZapPlace(r)' = ZapPlace(r)
        BY <3>1 DEF LockInv, ZapPlace, UsingZap
    <3> QED BY <3>2, <3>3 DEF Places
  <2>2. CASE ~(Launch(r) /\ r \notin cancelFlags)
    <3>1. UNCHANGED <<zap, acquired>>
        BY <1>3, <2>2 DEF MainStep, Launch, Submit, Poll, Collect, Drained, Results,
           CheckBeforeJoin, Join, NextStage, CancelledLate, Complete, MainRaises,
           MainWrites, MainWriteFails, zapVars
    <3> QED BY <3>1, LockStutters
  <2> QED BY <2>1, <2>2
<1>4. ASSUME NEW r \in Runs, ZapStep(r)
      PROVE  Lock!Next \/ UNCHANGED Places
  <2> USE DEF ZapAt, ZapGoto, ZapPlace, UsingZap, LockInv
  <2>1. CASE UNCHANGED <<zap, acquired>>
      BY <2>1, LockStutters
  <2>2. ASSUME Others(r),
               \/ ZapPlace(r)' = ZapPlace(r)
               \/ ZapPlace(r) = "out" /\ ZapPlace(r)' = "waiting"
               \/ ZapPlace(r) = "waiting" /\ ZapPlace(r)' = "left"
               \/ ZapPlace(r) = "inside" /\ ZapPlace(r)' = "left"
               \/ ZapPlace(r) = "waiting" /\ ZapPlace(r)' = "inside" /\ zapLock = NoRun
        PROVE  Lock!Next \/ UNCHANGED Places
    <3>1. Places' = [Places EXCEPT ![r] = ZapPlace(r)']
        BY <2>2, OneMoves
    <3>2. Places[r] = ZapPlace(r)
        BY DEF Places
    <3>3. CASE ZapPlace(r)' = ZapPlace(r)
      <4>1. Places' = [Places EXCEPT ![r] = Places[r]]
          BY <3>1, <3>2, <3>3
      <4> QED BY <4>1 DEF Places
    <3>4. CASE ZapPlace(r) = "out" /\ ZapPlace(r)' = "waiting"
        BY <3>1, <3>2, <3>4 DEF Lock!Next, Lock!Ask, Lock!Goes, Places
    <3>5. CASE ZapPlace(r) = "waiting" /\ ZapPlace(r)' = "left"
        BY <3>1, <3>2, <3>5 DEF Lock!Next, Lock!GiveUp, Lock!Goes, Places
    <3>6. CASE ZapPlace(r) = "inside" /\ ZapPlace(r)' = "left"
        BY <3>1, <3>2, <3>6 DEF Lock!Next, Lock!Exit, Lock!Goes, Places
    <3>7. CASE ZapPlace(r) = "waiting" /\ ZapPlace(r)' = "inside" /\ zapLock = NoRun
      <4>1. \A s \in Runs : ZapPlace(s) # "inside"
          BY <3>7, PipelineAssumption
      <4> QED BY <3>1, <3>2, <3>7, <4>1 DEF Lock!Next, Lock!Enter, Lock!Free, Lock!Holds, Lock!Goes, Places
    <3> QED BY <2>2, <3>3, <3>4, <3>5, <3>6, <3>7
  <2>3. CASE ZapBegins(r)
    <3>1. Others(r)
        BY <2>3 DEF ZapBegins, Others
    <3> QED BY <2>3, <2>2, <3>1 DEF ZapBegins
  <2>4. CASE ZapAcquires(r)
    <3>1. Others(r)
        BY <2>4 DEF ZapAcquires, Others
    <3> QED BY <2>4, <2>2, <3>1 DEF ZapAcquires
  <2>5. CASE ZapTimesOut(r)
    <3>1. Others(r)
        BY <2>5 DEF ZapTimesOut, Others
    <3> QED BY <2>5, <2>2, <3>1 DEF ZapTimesOut
  <2>6. CASE ZapProgress(r)
    <3>1. Others(r)
        BY <2>6 DEF ZapProgress, Others
    <3> QED BY <2>6, <2>2, <3>1 DEF ZapProgress
  <2>7. CASE ZapChecks(r)
    <3>1. Others(r)
        BY <2>7 DEF ZapChecks, Others
    <3> QED BY <2>7, <2>2, <3>1 DEF ZapChecks
  <2>8. CASE ZapScanned(r)
    <3>1. Others(r)
        BY <2>8 DEF ZapScanned, Others
    <3> QED BY <2>8, <2>2, <3>1 DEF ZapScanned
  <2>9. CASE ZapReleases(r)
    <3>1. Others(r)
        BY <2>9 DEF ZapReleases, Others
    <3> QED BY <2>9, <2>2, <3>1 DEF ZapReleases
  <2>10. CASE ZapWrites(r)
      BY <2>10, <2>1 DEF ZapWrites, zapVars
  <2>11. CASE ZapWriteFails(r)
    <3>1. Others(r)
        BY <2>11 DEF ZapWriteFails, Others
    <3> QED BY <2>11, <2>2, <3>1 DEF ZapWriteFails, StartInv
  <2> QED BY <1>4, <2>3, <2>4, <2>5, <2>6, <2>7, <2>8, <2>9, <2>10, <2>11 DEF ZapStep
<1> QED BY <1>1, <1>2, <1>3, <1>4 DEF Next

\* For any number of scans the ZAP threads of the server share ZAP as ZapLock says.
THEOREM PipelineImplementsZapLock == Spec => ImplementsZapLock
<1>1. Init => Lock!Init
    BY LockInitRefines
<1>2. StartInv /\ LockInv /\ LockInv' /\ [Next]_vars => [Lock!Next]_Places
    BY LockStepRefines
<1> QED BY <1>1, <1>2, StartInit, StartStep, LockInit, LockStep, PTL
        DEF Spec, ImplementsZapLock, Lock!Spec, Places

-----------------------------------------------------------------------------
(* The end of a run *)

LEMMA ConcatIntegers ==
    ASSUME NEW s \in Seq(Int), NEW t \in Seq(Int)
    PROVE  /\ s \o t \in Seq(Int)
           /\ Len(s \o t) = Len(s) + Len(t)
           /\ \A i \in 1..(Len(s) + Len(t)) :
                 (s \o t)[i] = IF i <= Len(s) THEN s[i] ELSE t[i - Len(s)]
BY ConcatProperties

LEMMA ConcatLength ==
    ASSUME NEW s \in Seq(Int), NEW t \in Seq(Int)
    PROVE  s \o t \in Seq(Int) /\ Len(s \o t) = Len(s) + Len(t)
BY ConcatIntegers

\* The late stages report integers; the last one is none of the first ones and
\* reports 100 per cent.
LEMMA LateStages ==
    /\ LastStage \in Nat /\ LastStage = 9 + Findings
    /\ \A i \in 1..LastStage : LatePercents[i] \in Int
    /\ LatePercents[LastStage] = 100
<1> DEFINE first == <<44, 45, 50, 52, 60>>
           pocs  == [i \in 1..Findings |-> 60 + (i * 28) \div Findings]
           last  == <<90, 92, 98, 100>>
<1>1. /\ first \in Seq(Int) /\ Len(first) = 5
      /\ last \in Seq(Int) /\ Len(last) = 4 /\ last[4] = 100
    OBVIOUS
<1>2. pocs \in Seq(Int) /\ Len(pocs) = Findings
  <2>1. \A i \in 1..Findings : 60 + (i * 28) \div Findings \in Int
      BY PipelineAssumption
  <2> QED BY <2>1, PipelineAssumption
<1> HIDE DEF first, pocs, last
<1>3. /\ first \o pocs \in Seq(Int)
      /\ Len(first \o pocs) = 5 + Findings
  <2>1. /\ first \o pocs \in Seq(Int)
        /\ Len(first \o pocs) = Len(first) + Len(pocs)
    <3>1. first \in Seq(Int) /\ pocs \in Seq(Int)
        BY <1>1, <1>2
    <3> QED BY <3>1, ConcatLength
  <2> QED BY <1>1, <1>2, <2>1
<1>4. LatePercents = (first \o pocs) \o last
    BY DEF LatePercents, first, pocs, last
<1>5. /\ (first \o pocs) \o last \in Seq(Int)
      /\ Len((first \o pocs) \o last) = 9 + Findings
      /\ ((first \o pocs) \o last)[9 + Findings] = last[4]
  <2> DEFINE front == first \o pocs
  <2>1. front \in Seq(Int) /\ Len(front) = 5 + Findings
      BY <1>3
  <2> HIDE DEF front
  <2>2. /\ front \o last \in Seq(Int)
        /\ Len(front \o last) = Len(front) + Len(last)
        /\ \A i \in 1..(Len(front) + Len(last)) :
              (front \o last)[i] = IF i <= Len(front) THEN front[i] ELSE last[i - Len(front)]
      BY <1>1, <2>1, ConcatIntegers
  <2>3. Len(front) + Len(last) = 9 + Findings /\ 9 + Findings - Len(front) = 4
      BY <1>1, <2>1, PipelineAssumption
  <2> DEFINE k == 9 + Findings
  <2>4. k \in 1..(Len(front) + Len(last)) /\ ~(k <= Len(front)) /\ k - Len(front) = 4
      BY <2>1, <2>3, PipelineAssumption
  <2> HIDE DEF k
  <2>5. (front \o last)[k] = IF k <= Len(front) THEN front[k] ELSE last[k - Len(front)]
      BY <2>2, <2>4
  <2>6. (front \o last)[k] = last[4]
      BY <2>4, <2>5
  <2> QED BY <2>2, <2>3, <2>6 DEF front, k
<1>6. LatePercents \in Seq(Int) /\ Len(LatePercents) = 9 + Findings /\ LatePercents[9 + Findings] = 100
    BY <1>1, <1>4, <1>5
<1> QED BY <1>6, PipelineAssumption DEF LastStage

\* What _safe_cb writes is an integer.
LEMMA RaisedType ==
    ASSUME maxPct \in [Runs -> Int], NEW r \in Runs, NEW pct \in Int
    PROVE  Raised(r, pct) \in Int
BY DEF Raised

\* Where main is tells what it has waited for: past the pool every scanner has
\* finished, past the join the ZAP thread has ended, which ends with no report
\* half done.
RunInv(r) ==
    /\ main[r] \in {"results", "check", "join", "late"} => finished[r] = Scanners
    /\ zap[r] = "ended" => zapWrite[r] = NoWrite
    /\ main[r] = "late" =>
        /\ zap[r] = "ended" /\ mainWrite[r] = NoWrite
        /\ late[r] \in 1..LastStage
        /\ late[r] = LastStage => progress[r] = 100
    /\ fate[r] = "done" =>
        /\ main[r] \in {"ended", "recorded"}
        /\ zap[r] = "ended" /\ mainWrite[r] = NoWrite
        /\ finished[r] = Scanners
        /\ progress[r] = 100
    /\ status[r] = "done" => fate[r] = "done" /\ main[r] = "recorded"

DoneTypes ==
    /\ status \in [Runs -> {"running"} \union Fates]
    /\ progress \in [Runs -> Int]
    /\ main \in [Runs -> MainPc]
    /\ late \in [Runs -> Int]
    /\ fate \in [Runs -> Fates]
    /\ zap \in [Runs -> ZapPc]
    /\ finished \in [Runs -> 0..Scanners]
    /\ seen \in [Runs -> Int]
    /\ maxPct \in [Runs -> Int]
    /\ mainWrite \in [Runs -> Int]
    /\ zapWrite \in [Runs -> Int]

DoneInv == DoneTypes /\ \A r \in Runs : RunInv(r)

LEMMA DoneInit == Init => DoneInv
BY PipelineAssumption DEF Init, DoneInv, DoneTypes, RunInv, MainPc, Fates, ZapPc, NoWrite

\* A step of one run leaves the others as they are.
LEMMA DoneStep == DoneInv /\ [Next]_vars => DoneInv'
<1> SUFFICES ASSUME DoneInv, [Next]_vars
             PROVE  DoneInv'
    OBVIOUS
<1> USE PipelineAssumption DEF DoneInv, DoneTypes, RunInv, pctVars
<1>1. CASE UNCHANGED vars
    BY <1>1 DEF vars, row, mainVars, zapVars
<1>2. ASSUME NEW r \in Runs, Cancel(r)
      PROVE  DoneInv'
    BY <1>2 DEF Cancel, row, mainVars, zapVars
<1>3. ASSUME NEW r \in Runs, Record(r)
      PROVE  DoneInv'
    BY <1>3 DEF Record, MainAt, MainPc, zapVars
<1>4. ASSUME NEW r \in Runs, ScannerFinishes(r)
      PROVE  DoneInv'
    BY <1>4 DEF ScannerFinishes, row, mainVars, zapVars
<1>5. ASSUME NEW r \in Runs, MainStep(r)
      PROVE  DoneInv'
  <2> USE DEF MainAt, Goto, Leave, MainPc, Fates, ZapPc, NoWrite
  <2>0. 5 + ((seen[r] + 1) * 25) \div Scanners \in Int
      OBVIOUS
  <2>00. Raised(r, -1) \in Int /\ Raised(r, 5) \in Int
      BY RaisedType
  <2>1. CASE Launch(r)
    <3>1. CASE r \in cancelFlags
        BY <2>1, <3>1 DEF Launch, row
    <3>2. CASE r \notin cancelFlags
        BY <2>1, <3>2, <2>00 DEF Launch, MainReports, row
    <3> QED BY <3>1, <3>2
  <2>2. CASE Poll(r)
    <3>1. CASE r \in cancelFlags
        BY <2>2, <3>1, <2>00 DEF Poll, CancelledInScan, MainReports, row, zapVars
    <3>2. CASE r \notin cancelFlags
        BY <2>2, <3>2 DEF Poll, CancelledInScan, row, zapVars
    <3> QED BY <3>1, <3>2
  <2>3. CASE Collect(r)
    <3>1. CASE seen[r] < finished[r]
        BY <2>3, <3>1, <2>0, RaisedType DEF Collect, MainReports, row, zapVars
    <3>2. CASE ~(seen[r] < finished[r])
        BY <2>3, <3>2 DEF Collect, row, zapVars
    <3> QED BY <3>1, <3>2
  <2>4. CASE Drained(r)
      BY <2>4 DEF Drained, row, zapVars
  <2>5. CASE Results(r)
      BY <2>5, RaisedType DEF Results, MainReports, row, zapVars
  <2>6. CASE CheckBeforeJoin(r)
    <3>1. CASE r \in cancelFlags
        BY <2>6, <3>1, <2>00 DEF CheckBeforeJoin, CancelledInScan, MainReports, row, zapVars
    <3>2. CASE r \notin cancelFlags
        BY <2>6, <3>2 DEF CheckBeforeJoin, CancelledInScan, row, zapVars
    <3> QED BY <3>1, <3>2
  <2>7. CASE Join(r)
      BY <2>7, LateStages DEF Join, zapVars
  <2>8. CASE NextStage(r)
      BY <2>8, LateStages DEF NextStage, zapVars, CveStage
  <2>9. CASE CancelledLate(r)
      BY <2>9 DEF CancelledLate, row, zapVars
  <2>10. CASE Complete(r)
      BY <2>10 DEF Complete, row, zapVars
  <2>11. CASE MainRaises(r)
      BY <2>11 DEF MainRaises, row, zapVars
  <2>12. CASE MainWrites(r)
      BY <2>12 DEF MainWrites, mainVars, zapVars
  <2>13. CASE MainWriteFails(r)
      BY <2>13 DEF MainWriteFails, Escape, row, zapVars
  <2>14. CASE Submit(r)
      BY <2>14 DEF Submit, row, zapVars
  <2> QED BY <1>5, <2>1, <2>2, <2>3, <2>4, <2>5, <2>6, <2>7, <2>8, <2>9, <2>10,
             <2>11, <2>12, <2>13, <2>14 DEF MainStep
<1>6. ASSUME NEW r \in Runs, ZapStep(r)
      PROVE  DoneInv'
  <2> USE DEF ZapAt, ZapGoto, ZapOnly, ZapPc, NoWrite, row, mainVars
  <2>1. CASE ZapBegins(r)
      BY <2>1, RaisedType DEF ZapBegins, ZapReports
  <2>2. CASE ZapAcquires(r)
      BY <2>2, RaisedType DEF ZapAcquires, ZapReports
  <2>3. CASE ZapTimesOut(r)
      BY <2>3, RaisedType DEF ZapTimesOut, ZapReports
  <2>4. CASE ZapProgress(r)
      BY <2>4, RaisedType DEF ZapProgress, ZapReports
  <2>5. CASE ZapChecks(r)
      BY <2>5 DEF ZapChecks
  <2>6. CASE ZapScanned(r)
      BY <2>6 DEF ZapScanned
  <2>7. CASE ZapReleases(r)
      BY <2>7 DEF ZapReleases
  <2>8. CASE ZapWrites(r)
      BY <2>8 DEF ZapWrites, zapVars
  <2>9. CASE ZapWriteFails(r)
      BY <2>9 DEF ZapWriteFails
  <2> QED BY <1>6, <2>1, <2>2, <2>3, <2>4, <2>5, <2>6, <2>7, <2>8, <2>9 DEF ZapStep
<1> QED BY <1>1, <1>2, <1>3, <1>4, <1>5, <1>6 DEF Next

\* A job that is recorded as done stays at 100 per cent: by then every scanner
\* and the ZAP thread of its run have ended.
THEOREM DoneAlwaysFinal == Spec => []DoneIsFinal
<1>1. DoneInv => DoneIsFinal
    BY DEF DoneInv, DoneTypes, RunInv, DoneIsFinal
<1> QED BY <1>1, DoneInit, DoneStep, PTL DEF Spec

-----------------------------------------------------------------------------
(* Cancelled scans *)

Going == {"start", "submit", "poll", "collect", "results", "check", "join", "late"}

\* A run has a fate when main is on its way out.  A ZAP thread that gave up has
\* left the flag to main, which is not past its first check after the join.
\* Reports were saved at the last stage but one or later.
CancelInv(r) ==
    /\ main[r] \in Going <=> fate[r] = "none"
    /\ main[r] = "draining" => fate[r] # "done"
    /\ aborted[r] /\ main[r] \in Going => r \in cancelFlags /\ zap[r] # "none"
    /\ aborted[r] /\ main[r] = "late" => late[r] = 1
    /\ aborted[r] => fate[r] # "done"
    /\ r \in reports => IF main[r] = "late" THEN late[r] >= SavedStage
                        ELSE fate[r] \in {"done", "error"}

CancelTypes ==
    /\ aborted \in [Runs -> BOOLEAN]
    /\ cancelFlags \subseteq Runs
    /\ reports \subseteq Runs

CancelsInv == CancelTypes /\ \A r \in Runs : CancelInv(r)

\* Nobody checks once the reports are saved, and after the join somebody does.
LEMMA ChecksBeforeSaving ==
    /\ 1 \in Checked
    /\ \A i \in Checked : i < SavedStage
    /\ SavedStage \in Nat /\ SavedStage < LastStage
<1>1. LastStage = 9 + Findings
    BY LateStages
<1>2. \A i \in PocStages : i \in Nat /\ i <= 5 + Findings
    BY PipelineAssumption DEF PocStages
<1> QED BY <1>1, <1>2, PipelineAssumption DEF Checked, SavedStage, LastStage

LEMMA CancelInit == Init => CancelsInv
BY DEF Init, CancelsInv, CancelTypes, CancelInv, Going

LEMMA CancelStep == DoneInv /\ StartInv /\ CancelsInv /\ [Next]_vars => CancelsInv'
<1> SUFFICES ASSUME DoneInv, StartInv, CancelsInv, [Next]_vars
             PROVE  CancelsInv'
    OBVIOUS
<1> USE DEF CancelsInv, CancelTypes, CancelInv, Going
<1>0. /\ DoneTypes
      /\ \A r \in Runs :
            /\ main[r] = "late" => zap[r] = "ended" /\ late[r] \in 1..LastStage
            /\ fate[r] = "done" => zap[r] = "ended"
    BY DEF DoneInv, RunInv
<1>1. CASE UNCHANGED vars
    BY <1>1 DEF vars, row, mainVars, zapVars
<1>2. ASSUME NEW r \in Runs, Cancel(r)
      PROVE  CancelsInv'
    BY <1>2 DEF Cancel, row, mainVars, zapVars
<1>3. ASSUME NEW r \in Runs, Record(r)
      PROVE  CancelsInv'
    BY <1>0, <1>3 DEF Record, MainAt, zapVars, DoneTypes, MainPc
<1>4. ASSUME NEW r \in Runs, ScannerFinishes(r)
      PROVE  CancelsInv'
    BY <1>4 DEF ScannerFinishes, row, mainVars, zapVars
<1>5. ASSUME NEW r \in Runs, MainStep(r)
      PROVE  CancelsInv'
  <2> USE <1>0 DEF DoneTypes, MainAt, Goto, Leave, MainPc, Fates, mainVars, zapVars
  <2>1. CASE Launch(r)
      BY <2>1 DEF Launch, StartInv
  <2>2. CASE Poll(r)
      BY <2>2 DEF Poll, CancelledInScan
  <2>3. CASE Collect(r)
      BY <2>3 DEF Collect
  <2>4. CASE Drained(r)
      BY <2>4 DEF Drained
  <2>5. CASE Submit(r) \/ Results(r)
      BY <2>5 DEF Submit, Results
  <2>6. CASE CheckBeforeJoin(r)
      BY <2>6 DEF CheckBeforeJoin, CancelledInScan
  <2>7. CASE Join(r)
      BY <2>7, ChecksBeforeSaving DEF Join
  <2>8. CASE NextStage(r)
      BY <2>8, ChecksBeforeSaving DEF NextStage, CveStage
  <2>9. CASE CancelledLate(r)
      BY <2>9, ChecksBeforeSaving DEF CancelledLate
  <2>10. CASE Complete(r)
      BY <2>10, ChecksBeforeSaving, LateStages DEF Complete
  <2>11. CASE MainRaises(r)
      BY <2>11 DEF MainRaises
  <2>12. CASE MainWrites(r)
      BY <2>12 DEF MainWrites
  <2>13. CASE MainWriteFails(r)
      BY <2>13 DEF MainWriteFails, Escape
  <2> QED BY <1>5, <2>1, <2>2, <2>3, <2>4, <2>5, <2>6, <2>7, <2>8, <2>9, <2>10,
             <2>11, <2>12, <2>13 DEF MainStep
<1>6. ASSUME NEW r \in Runs, ZapStep(r)
      PROVE  CancelsInv'
  <2> USE <1>0 DEF DoneTypes, ZapAt, ZapGoto, ZapOnly, mainVars, row
  <2>1. CASE ZapChecks(r)
      BY <2>1 DEF ZapChecks
  <2>2. CASE ~ZapChecks(r)
    <3>1. UNCHANGED <<main, fate, late, reports, cancelFlags, aborted>>
        BY <1>6, <2>2 DEF ZapStep, ZapBegins, ZapAcquires, ZapTimesOut, ZapProgress,
           ZapScanned, ZapReleases, ZapWrites, ZapWriteFails, zapVars
    <3>2. zap'[r] # "none" /\ \A s \in Runs : s # r => zap'[s] = zap[s]
        BY <1>6, <2>2 DEF ZapStep, ZapBegins, ZapAcquires, ZapTimesOut, ZapProgress,
           ZapScanned, ZapReleases, ZapWrites, ZapWriteFails, zapVars, StartInv
    <3> QED BY <3>1, <3>2
  <2> QED BY <2>1, <2>2
<1> QED BY <1>1, <1>2, <1>3, <1>4, <1>5, <1>6 DEF Next

\* A scan whose ZAP thread gave up because of a cancel is never recorded as
\* done: main finds the flag that the thread has left.
THEOREM AbortedNeverDone == Spec => []AbortedIsNotDone
<1>1. CancelsInv => AbortedIsNotDone
    BY DEF CancelsInv, CancelInv, AbortedIsNotDone
<1> QED BY <1>1, CancelInit, CancelStep, DoneInit, DoneStep, StartInit, StartStep, PTL DEF Spec

\* A cancelled scan has saved no report, for any number of findings: the reports
\* are saved after the last check.
THEOREM CancelledNeverSaves == Spec => []CancelledSavesNothing
<1>1. CancelsInv => CancelledSavesNothing
    BY DEF CancelsInv, CancelInv, CancelledSavesNothing, Going
<1> QED BY <1>1, CancelInit, CancelStep, DoneInit, DoneStep, StartInit, StartStep, PTL DEF Spec
-----------------------------------------------------------------------------
(* Percentages *)

\* A share of a whole, rounded down.
LEMMA ShareBound ==
    ASSUME NEW n \in Nat \ {0}, NEW i \in 0..n, NEW k \in Nat
    PROVE  (i * k) \div n \in 0..k
<1> DEFINE d == (i * k) \div n
<1>1. i * k \in Nat /\ i * k <= n * k
    OBVIOUS
<1>2. d \in Nat /\ n * d <= n * k
    BY <1>1
<1> HIDE DEF d
<1>3. d > k => n * d > n * k
    BY <1>2
<1> QED
    BY <1>2, <1>3 DEF d

\* _safe_cb never lowers a percentage, and passes on -1 as the maximum so far.
LEMMA RaisedBound ==
    ASSUME maxPct \in [Runs -> 0..100], NEW r \in Runs, NEW pct \in -1..100
    PROVE  Raised(r, pct) \in 0..100
BY DEF Raised

\* Every report of the late stages is a percentage, however many findings the
\* PoC stage divides its share among.
LEMMA LateBound == \A i \in 1..LastStage : LatePercents[i] \in 0..100
<1> DEFINE first == <<44, 45, 50, 52, 60>>
           pocs  == [i \in 1..Findings |-> 60 + (i * 28) \div Findings]
           last  == <<90, 92, 98, 100>>
<1>1. /\ first \in Seq(0..100) /\ last \in Seq(0..100)
    OBVIOUS
<1>2. pocs \in Seq(0..100)
  <2>1. ASSUME NEW i \in 1..Findings PROVE 60 + (i * 28) \div Findings \in 0..100
    <3>1. Findings \in Nat \ {0} /\ i \in 0..Findings
        BY PipelineAssumption
    <3>2. (i * 28) \div Findings \in 0..28
        BY <3>1, ShareBound
    <3> QED
        BY <3>2
  <2> QED
      BY <2>1, PipelineAssumption
<1> HIDE DEF first, pocs, last
<1>3. first \o pocs \in Seq(0..100)
    BY <1>1, <1>2, ConcatProperties
<1>4. (first \o pocs) \o last \in Seq(0..100)
    BY <1>1, <1>3, ConcatProperties
<1>5. LatePercents \in Seq(0..100)
    BY <1>4 DEF LatePercents, first, pocs, last
<1>6. \A i \in 1..Len(LatePercents) : LatePercents[i] \in 0..100
    BY <1>5, ElementOfSeq
<1> QED
    BY <1>5, <1>6 DEF LastStage

\* Main has seen no more scanners than have finished.
PercentInv ==
    /\ progress \in [Runs -> 0..100]
    /\ maxPct \in [Runs -> 0..100]
    /\ mainWrite \in [Runs -> 0..100 \union {NoWrite}]
    /\ zapWrite \in [Runs -> 0..100 \union {NoWrite}]
    /\ finished \in [Runs -> 0..Scanners]
    /\ seen \in [Runs -> 0..Scanners]
    /\ \A r \in Runs : seen[r] <= finished[r]

LEMMA PercentInit == Init => PercentInv
BY PipelineAssumption DEF Init, PercentInv

LEMMA PercentStep == DoneInv /\ PercentInv /\ [Next]_vars => PercentInv'
<1> SUFFICES ASSUME DoneInv, PercentInv, [Next]_vars
             PROVE  PercentInv'
    OBVIOUS
<1> USE PipelineAssumption DEF PercentInv
<1>2. ASSUME NEW r \in Runs, NEW pct \in -1..100, MainReports(r, pct)
      PROVE  /\ maxPct' \in [Runs -> 0..100]
             /\ mainWrite' \in [Runs -> 0..100 \union {NoWrite}]
             /\ zapWrite' = zapWrite
    BY <1>2, RaisedBound DEF MainReports
<1>3. ASSUME NEW r \in Runs, NEW pct \in -1..100, ZapReports(r, pct)
      PROVE  /\ maxPct' \in [Runs -> 0..100]
             /\ zapWrite' \in [Runs -> 0..100 \union {NoWrite}]
             /\ mainWrite' = mainWrite
    BY <1>3, RaisedBound DEF ZapReports
<1>4. CASE UNCHANGED vars
    BY <1>4 DEF vars, row, mainVars, pctVars
<1>5. ASSUME UNCHANGED <<progress, finished, seen>>, UNCHANGED pctVars
       PROVE  PercentInv'
    BY <1>5 DEF pctVars
<1>6. ASSUME UNCHANGED <<progress, finished, seen>>, NEW r \in Runs, NEW pct \in -1..100,
              MainReports(r, pct) \/ ZapReports(r, pct)
       PROVE  PercentInv'
  <2>1. /\ maxPct' \in [Runs -> 0..100]
        /\ mainWrite' \in [Runs -> 0..100 \union {NoWrite}]
        /\ zapWrite' \in [Runs -> 0..100 \union {NoWrite}]
      BY <1>2, <1>3, <1>6
  <2> QED
      BY <1>6, <2>1
<1>7. ASSUME NEW r \in Runs, Cancel(r) \/ Submit(r) \/ Drained(r) \/ CancelledLate(r)
                             \/ Complete(r) \/ MainRaises(r)
      PROVE  PercentInv'
    BY <1>7 DEF Cancel, Submit, Drained, CancelledLate, Complete, MainRaises, row, mainVars, pctVars
<1>8. ASSUME NEW r \in Runs, Record(r)
      PROVE  PercentInv'
    BY <1>8 DEF Record, pctVars
<1>9. ASSUME NEW r \in Runs, ScannerFinishes(r)
      PROVE  PercentInv'
    BY <1>9 DEF ScannerFinishes, row, mainVars, pctVars
<1>10. ASSUME NEW r \in Runs, Launch(r)
      PROVE  PercentInv'
  <2>1. UNCHANGED pctVars \/ MainReports(r, 5)
      BY <1>10 DEF Launch
  <2>2. UNCHANGED <<progress, finished, seen>> /\ 5 \in -1..100
      BY <1>10 DEF Launch, row
  <2> QED
      BY <1>5, <1>6, <2>1, <2>2
<1>11. ASSUME NEW r \in Runs, Poll(r) \/ CheckBeforeJoin(r)
      PROVE  PercentInv'
  <2>1. UNCHANGED pctVars \/ MainReports(r, -1)
      BY <1>11 DEF Poll, CheckBeforeJoin, CancelledInScan
  <2>2. UNCHANGED <<progress, finished, seen>>
      BY <1>11 DEF Poll, CheckBeforeJoin, row
  <2>3. -1 \in -1..100
      OBVIOUS
  <2> QED
      BY <1>5, <1>6, <2>1, <2>2, <2>3
<1>12. ASSUME NEW r \in Runs, Collect(r)
       PROVE  PercentInv'
  <2>1. CASE seen[r] < finished[r]
    <3>1. ((seen[r] + 1) * 25) \div Scanners \in 0..25
      <4>1. seen[r] + 1 \in 0..Scanners /\ Scanners \in Nat \ {0} /\ 25 \in Nat
          BY <2>1
      <4> QED
          BY <4>1, ShareBound
    <3>2. 5 + ((seen[r] + 1) * 25) \div Scanners \in -1..100
        BY <3>1
    <3>3. MainReports(r, 5 + ((seen[r] + 1) * 25) \div Scanners)
          /\ seen' = [seen EXCEPT ![r] = @ + 1] /\ UNCHANGED <<progress, finished>>
        BY <1>12, <2>1 DEF Collect, row
    <3>4. PICK pct \in -1..100 : MainReports(r, pct)
        BY <3>2, <3>3
    <3>5. /\ maxPct' \in [Runs -> 0..100]
          /\ mainWrite' \in [Runs -> 0..100 \union {NoWrite}]
          /\ zapWrite' = zapWrite
        BY <1>2, <3>4
    <3>6. \A t \in Runs : seen'[t] = IF t = r THEN seen[r] + 1 ELSE seen[t]
        BY <3>3
    <3>7. seen' \in [Runs -> 0..Scanners] /\ \A t \in Runs : seen'[t] <= finished'[t]
        BY <2>1, <3>3, <3>6
    <3> QED
        BY <3>3, <3>5, <3>7
  <2>2. CASE ~(seen[r] < finished[r])
      BY <1>12, <2>2 DEF Collect, row, pctVars
  <2> QED
      BY <2>1, <2>2
<1>13. ASSUME NEW r \in Runs, Results(r)
       PROVE  PercentInv'
  <2>1. MainReports(r, 31) /\ UNCHANGED <<progress, finished, seen>>
      BY <1>13 DEF Results, row
  <2>2. 31 \in -1..100
      OBVIOUS
  <2> QED
      BY <1>6, <2>1, <2>2
<1>14. ASSUME NEW r \in Runs, Join(r) \/ NextStage(r)
       PROVE  PercentInv'
  <2>1. \E i \in 1..LastStage : progress' = [progress EXCEPT ![r] = LatePercents[i]]
    <3>1. CASE Join(r)
      <4>1. 1 \in 1..LastStage
          BY LateStages
      <4> QED
          BY <3>1, <4>1 DEF Join
    <3>2. CASE NextStage(r)
      <4>1. main[r] = "late" /\ late[r] \in 1..LastStage /\ late[r] < LastStage
          BY <3>2 DEF NextStage, DoneInv, RunInv
      <4>2. PICK i \in {late[r] + 1, late[r] + 2} :
                /\ i = late[r] + 2 => late[r] + 1 = 4
                /\ progress' = [progress EXCEPT ![r] = LatePercents[i]]
          BY <3>2 DEF NextStage, CveStage
      <4>3. i \in 1..LastStage
          BY <4>1, <4>2, LateStages
      <4> QED
          BY <4>2, <4>3
    <3> QED
        BY <1>14, <3>1, <3>2
  <2>2. progress' \in [Runs -> 0..100]
      BY <2>1, LateBound
  <2> QED
      BY <1>14, <2>2 DEF Join, NextStage, pctVars
<1>15. ASSUME NEW r \in Runs, MainWrites(r) \/ MainWriteFails(r)
       PROVE  PercentInv'
    BY <1>15 DEF MainWrites, MainWriteFails, row, mainVars, NoWrite
<1>16. ASSUME NEW r \in Runs, ZapBegins(r) \/ ZapAcquires(r) \/ ZapTimesOut(r) \/ ZapProgress(r)
       PROVE  PercentInv'
  <2>1. \E pct \in -1..100 : ZapReports(r, pct)
      BY <1>16 DEF ZapBegins, ZapAcquires, ZapTimesOut, ZapProgress
  <2>2. UNCHANGED <<progress, finished, seen>>
      BY <1>16 DEF ZapBegins, ZapAcquires, ZapTimesOut, ZapProgress, ZapOnly, row, mainVars
  <2> QED
      BY <1>6, <2>1, <2>2
<1>17. ASSUME NEW r \in Runs, ZapChecks(r) \/ ZapScanned(r) \/ ZapReleases(r)
       PROVE  PercentInv'
    BY <1>17 DEF ZapChecks, ZapScanned, ZapReleases, ZapOnly, row, mainVars, pctVars
<1>18. ASSUME NEW r \in Runs, ZapWrites(r) \/ ZapWriteFails(r)
       PROVE  PercentInv'
    BY <1>18 DEF ZapWrites, ZapWriteFails, row, mainVars, NoWrite
<1> QED
    BY <1>4, <1>7, <1>8, <1>9, <1>10, <1>11, <1>12, <1>13, <1>14, <1>15, <1>16, <1>17, <1>18
    DEF Next, MainStep, ZapStep

\* What the other invariants leave open.
RestInv ==
    /\ monitor \subseteq Runs
    /\ faults \in 0..MaxFaults
    /\ late \in [Runs -> 0..LastStage]

LEMMA RestInit == Init => RestInv
BY LateStages, PipelineAssumption DEF Init, RestInv

LEMMA RestStep == DoneInv /\ RestInv /\ [Next]_vars => RestInv'
<1> SUFFICES ASSUME DoneInv, RestInv, [Next]_vars
             PROVE  RestInv'
    OBVIOUS
<1>1. faults' = faults \/ Fault
    BY DEF Next, MainStep, ZapStep, Cancel, Record, ScannerFinishes, Launch, Submit, Poll, Collect,
       Drained, Results, CheckBeforeJoin, Join, NextStage, CancelledLate, Complete, MainRaises,
       MainWrites, MainWriteFails, ZapBegins, ZapAcquires, ZapTimesOut, ZapProgress, ZapChecks,
       ZapScanned, ZapReleases, ZapWrites, ZapWriteFails, ZapOnly, vars
<1>2. monitor' \in {monitor} \union {monitor \union {r} : r \in Runs} \union {monitor \ {r} : r \in Runs}
    BY DEF Next, MainStep, ZapStep, Cancel, Record, ScannerFinishes, Launch, Submit, Poll, Collect,
       Drained, Results, CheckBeforeJoin, Join, NextStage, CancelledLate, Complete, MainRaises,
       MainWrites, MainWriteFails, ZapBegins, ZapAcquires, ZapTimesOut, ZapProgress, ZapChecks,
       ZapScanned, ZapReleases, ZapWrites, ZapWriteFails, ZapOnly, vars
<1>3. late' = late \/ \E r \in Runs : Join(r) \/ NextStage(r)
    BY DEF Next, MainStep, ZapStep, Cancel, Record, ScannerFinishes, Launch, Submit, Poll, Collect,
       Drained, Results, CheckBeforeJoin, Join, NextStage, CancelledLate, Complete, MainRaises,
       MainWrites, MainWriteFails, ZapBegins, ZapAcquires, ZapTimesOut, ZapProgress, ZapChecks,
       ZapScanned, ZapReleases, ZapWrites, ZapWriteFails, ZapOnly, vars, mainVars
<1>4. ASSUME NEW r \in Runs, Join(r) \/ NextStage(r)
      PROVE  late' \in [Runs -> 0..LastStage]
  <2>1. CASE Join(r)
      BY <2>1, LateStages, PipelineAssumption DEF Join, RestInv
  <2>2. CASE NextStage(r)
    <3>1. late[r] \in 1..LastStage /\ late[r] < LastStage
        BY <2>2 DEF NextStage, DoneInv, RunInv
    <3> QED
        BY <2>2, <3>1, LateStages, PipelineAssumption DEF NextStage, RestInv, CveStage
  <2> QED
      BY <1>4, <2>1, <2>2
<1>5. faults' \in 0..MaxFaults
    BY <1>1, PipelineAssumption DEF RestInv, Fault
<1>6. monitor' \subseteq Runs
    BY <1>2 DEF RestInv
<1> QED
    BY <1>3, <1>4, <1>5, <1>6 DEF RestInv

\* Every variable of the worker keeps its type: whatever is reported, in
\* whichever order and by whichever thread, the row's progress is a percentage,
\* and no scanner is counted twice.
THEOREM TypeCorrect == Spec => []TypeOK
<1>1. LockInv /\ DoneInv /\ CancelsInv /\ PercentInv /\ RestInv => TypeOK
    BY DEF LockInv, DoneInv, DoneTypes, CancelsInv, CancelTypes, PercentInv, RestInv, TypeOK
<1> QED
    BY <1>1, LockInit, LockStep, DoneInit, DoneStep, CancelInit, CancelStep, StartInit, StartStep,
       PercentInit, PercentStep, RestInit, RestStep, PTL DEF Spec
=============================================================================
