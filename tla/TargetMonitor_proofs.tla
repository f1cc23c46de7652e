------------------------- MODULE TargetMonitor_proofs -------------------------
(***************************************************************************)
(* Proofs about the target monitor, for any number of samples, kept        *)
(* results, measurements and exceptions in its thread.                     *)
(***************************************************************************)
EXTENDS TargetMonitorProps, SequenceTheorems, TLAPS

USE MonitorAssumption DEF MonitorAssumption

Results == Levels \union {"unreachable"}

LastResult == results[Len(results)]

\* A result is in hand exactly while it is about to be recorded, and nothing is
\* recorded before the baseline.
HandInv ==
    /\ thread = "recording" <=> inHand # "none"
    /\ thread \in {"starting", "sampling"} => ~warned /\ results = <<>>

\* An alarm is sent, remembered in warned and recorded last, all or none; while a
\* result is in hand, the message is that of the result.
AlarmInv ==
    /\ thread # "recording" =>
          /\ results # <<>> => (warned <=> LastResult \in Alarms)
          /\ ~dropped => (warned <=> sent \in Alarms)
    /\ thread = "recording" =>
          /\ warned => inHand \in Alarms
          /\ ~dropped => (inHand \in Alarms <=> sent \in Alarms)

\* One result for the baseline and one for each measurement that has ended.
SizeInv ==
    /\ thread = "waiting" => Len(results) <= checks + 1
    /\ thread \in {"asking", "recording"} => Len(results) <= checks

\* As long as none of them had to make room, the results and the one in hand know
\* of every alarm.
LoadInv == checks < Kept => (alarmed <=> LoadDetected(results) \/ inHand \in Severe)

\* After stop() the thread records at most the result it was about to get.
SumInv ==
    /\ caller \in {"joining", "summed"} => stopped
    /\ caller = "summed" /\ checks < Kept =>
          \/ results = summary
          \/ thread \in {"waiting", "over"} /\ \E late \in Results : results = Append(summary, late)

MonitorInv == TypeOK /\ HandInv /\ AlarmInv /\ SizeInv /\ LoadInv /\ SumInv

-----------------------------------------------------------------------------
(* _record *)

\* What was recorded is the last of the results, which never get too many.
LEMMA KeepLemma ==
    ASSUME results \in Seq(Results), Len(results) <= Kept, NEW result \in Results
    PROVE  /\ Keep(result) \in Seq(Results)
           /\ Len(Keep(result)) \in 1..Kept
           /\ Keep(result)[Len(Keep(result))] = result
           /\ Len(results) < Kept => Keep(result) = Append(results, result)
<1> DEFINE longer == Append(results, result)
<1>1. /\ longer \in Seq(Results)
      /\ Len(longer) = Len(results) + 1
      /\ longer[Len(longer)] = result
    OBVIOUS
<1>2. CASE Len(longer) > Kept
    <2>1. /\ Tail(longer) \in Seq(Results)
          /\ Len(Tail(longer)) = Len(longer) - 1
          /\ \A i \in 1..Len(Tail(longer)) : Tail(longer)[i] = longer[i + 1]
        BY <1>1, HeadTailProperties
    <2>2. Len(Tail(longer)) = Kept
        BY <1>1, <1>2, <2>1
    <2>3. Tail(longer)[Kept] = longer[Kept + 1]
        BY <2>1, <2>2
    <2> QED
        BY <1>1, <1>2, <2>1, <2>2, <2>3 DEF Keep
<1>3. CASE Len(longer) <= Kept
    BY <1>1, <1>3 DEF Keep
<1> QED
    BY <1>1, <1>2, <1>3

\* One more result, and none less, counts what was counted and the new one.
LEMMA DetectedLemma ==
    ASSUME NEW counted \in Seq(Results), NEW result \in Results
    PROVE  LoadDetected(Append(counted, result)) <=> LoadDetected(counted) \/ result \in Severe
<1> DEFINE longer == Append(counted, result)
<1>1. /\ Len(longer) = Len(counted) + 1
      /\ DOMAIN longer = 1..Len(counted) + 1
      /\ DOMAIN counted = 1..Len(counted)
      /\ longer[Len(counted) + 1] = result
      /\ \A i \in DOMAIN counted : longer[i] = counted[i]
    OBVIOUS
<1>2. DOMAIN longer = DOMAIN counted \union {Len(counted) + 1}
    BY <1>1
<1> QED
    BY <1>1, <1>2 DEF LoadDetected

-----------------------------------------------------------------------------
(* The invariant *)

LEMMA InitMonitorInv == Init => MonitorInv
<1> SUFFICES ASSUME Init PROVE MonitorInv
    OBVIOUS
<1>1. results = <<>> /\ <<>> \in Seq(Results) /\ Len(<<>>) = 0
    BY DEF Init
<1>2. TypeOK
    <2>1. results \in Seq(Results) /\ Len(results) <= Kept /\ summary \in Seq(Results)
        BY <1>1 DEF Init
    <2>2. /\ samples \in 0..Samples
          /\ checks \in 0..MaxChecks
          /\ faults \in 0..MaxFaults
        BY DEF Init
    <2>3. /\ thread = "starting" /\ sent = "nothing" /\ caller = "scanning" /\ inHand = "none"
          /\ answered = FALSE /\ warned = FALSE /\ stopped = FALSE /\ alarmed = FALSE
          /\ queue = TRUE /\ dropped = FALSE
        BY DEF Init
    <2> QED
        BY <2>1, <2>2, <2>3 DEF TypeOK, Results
<1>3. ~LoadDetected(<<>>)
    BY DEF LoadDetected
<1>4. thread = "starting" /\ ~warned /\ ~alarmed /\ inHand = "none" /\ sent = "nothing"
      /\ caller = "scanning"
    BY DEF Init
<1> QED
    BY <1>1, <1>2, <1>3, <1>4
       DEF MonitorInv, HandInv, AlarmInv, SizeInv, LoadInv, SumInv, Alarms, Levels, Severe

\* What warn_cb leaves behind, for an alarm and for any other message.
LEMMA SayLemma ==
    ASSUME TypeOK, NEW message, Say(message)
    PROVE  /\ dropped' \in BOOLEAN /\ faults' = faults
           /\ ~dropped' => sent' = message
           /\ sent' = sent \/ sent' = message
BY DEF Say, TypeOK

\* The steps that record nothing: the results, and what is counted of them, stay.
LEMMA NothingRecorded ==
    ASSUME MonitorInv, TypeOK', HandInv', UNCHANGED <<results, callerVars>>,
           thread' \in {"waiting", "over"} <=> thread \in {"waiting", "over"},
           checks' = checks \/ (checks' = checks + 1 /\ ~stopped)
    PROVE  SumInv'
<1>1. checks \in Nat /\ checks' < Kept => checks < Kept
    BY DEF MonitorInv, TypeOK
<1> QED
    BY <1>1 DEF MonitorInv, SumInv, callerVars

LEMMA RecordsInv == MonitorInv /\ Records => MonitorInv'
<1> SUFFICES ASSUME MonitorInv, Records PROVE MonitorInv'
    OBVIOUS
<1>1. /\ results \in Seq(Results) /\ Len(results) <= Kept /\ summary \in Seq(Results)
      /\ checks \in Nat /\ Len(results) \in Nat /\ Len(results) <= checks
    BY DEF MonitorInv, TypeOK, SizeInv, Records, Results
<1>2. PICK result \in Results : inHand = result
    BY DEF MonitorInv, HandInv, TypeOK, Records, Results
<1>3. /\ thread = "recording" /\ results' = Keep(result)
      /\ thread' = (IF result = "unreachable" THEN "over" ELSE "waiting")
      /\ warned' = (warned \/ result \in Alarms) /\ inHand' = "none"
      /\ UNCHANGED <<samples, answered, alarmed, sayVars, checks, queue, callerVars>>
    BY <1>2 DEF Records
<1>4. /\ results' \in Seq(Results) /\ Len(results') \in 1..Kept /\ LastResult' = result
      /\ Len(results) < Kept => results' = Append(results, result)
    BY <1>1, <1>3, KeepLemma DEF LastResult
<1>5. checks < Kept =>
          /\ results' = Append(results, result)
          /\ LoadDetected(results') <=> LoadDetected(results) \/ result \in Severe
    <2>1. checks < Kept => Len(results) < Kept
        BY <1>1
    <2>2. LoadDetected(Append(results, result)) <=> LoadDetected(results) \/ result \in Severe
        BY <1>1, DetectedLemma
    <2> QED
        BY <1>4, <2>1, <2>2
<1>6. Len(results') <= checks + 1
    <2>1. CASE Len(results) < Kept
        <3>1. Len(results') = Len(results) + 1
            BY <1>1, <1>4, <2>1, AppendProperties
        <3> QED
            BY <1>1, <3>1
    <2>2. CASE ~(Len(results) < Kept)
        BY <1>1, <1>4, <2>2
    <2> QED
        BY <2>1, <2>2
<1>7. warned \in BOOLEAN
    BY DEF MonitorInv, TypeOK
<1>8. TypeOK'
    <2>1. warned' \in BOOLEAN
        BY <1>3, <1>7
    <2> QED
        BY <1>3, <1>4, <2>1 DEF MonitorInv, TypeOK, Results, sayVars, callerVars
<1>9. HandInv'
    BY <1>3 DEF HandInv
<1>10. AlarmInv'
    BY <1>2, <1>3, <1>4 DEF MonitorInv, AlarmInv, sayVars
<1>11. SizeInv'
    BY <1>3, <1>6 DEF SizeInv
<1>12. LoadInv'
    <2>1. ASSUME checks < Kept PROVE alarmed <=> LoadDetected(results')
        BY <1>2, <1>5, <2>1 DEF MonitorInv, LoadInv
    <2>2. "none" \notin Severe
        BY DEF Severe
    <2> QED
        BY <1>3, <2>1, <2>2 DEF LoadInv
<1>13. SumInv'
    <2>1. thread' \in {"waiting", "over"}
        BY <1>3
    <2>2. caller = "summed" /\ checks < Kept => results = summary
        BY <1>3 DEF MonitorInv, SumInv
    <2> QED
        BY <1>3, <1>5, <2>1, <2>2 DEF MonitorInv, SumInv, callerVars
<1> QED
    BY <1>8, <1>9, <1>10, <1>11, <1>12, <1>13 DEF MonitorInv

\* A measurement whose message, if there is one, is sent or dropped.
LEMMA AnsweredInv ==
    ASSUME MonitorInv, NEW level \in Levels, Answered(level), warned' \in BOOLEAN,
           alarmed' = (alarmed \/ level \in Severe),
           faults' = faults, dropped' \in BOOLEAN,
           sent' \in {"recovered", sent} \union Alarms,
           warned' => level \in Alarms,
           ~dropped' => (level \in Alarms <=> sent' \in Alarms)
    PROVE  MonitorInv'
<1>1. /\ thread = "asking" /\ thread' = "recording" /\ inHand' = level
      /\ UNCHANGED <<samples, answered, results, checks, queue, callerVars>>
    BY DEF Answered
<1>2. alarmed' \in BOOLEAN
    BY DEF MonitorInv, TypeOK
<1>3. TypeOK'
    BY <1>1, <1>2 DEF MonitorInv, TypeOK, callerVars
<1>4. level # "none" /\ inHand = "none"
    BY <1>1 DEF Levels, MonitorInv, HandInv
<1>5. HandInv'
    BY <1>1, <1>4 DEF MonitorInv, HandInv
<1>6. AlarmInv'
    BY <1>1 DEF AlarmInv
<1>7. SizeInv'
    BY <1>1 DEF MonitorInv, SizeInv
<1>8. LoadInv'
    <2>1. inHand \notin Severe
        BY <1>4 DEF Severe
    <2> QED
        BY <1>1, <2>1 DEF MonitorInv, LoadInv
<1>9. SumInv'
    BY <1>1, <1>3, <1>5, NothingRecorded DEF MonitorInv
<1> QED
    BY <1>3, <1>5, <1>6, <1>7, <1>8, <1>9 DEF MonitorInv

LEMMA NextMonitorInv == MonitorInv /\ [Next]_vars => MonitorInv'
<1> SUFFICES ASSUME MonitorInv, [Next]_vars PROVE MonitorInv'
    OBVIOUS
<1>a. /\ results \in Seq(Results) /\ Len(results) <= Kept /\ checks \in Nat
      /\ Len(results) \in Nat /\ summary \in Seq(Results)
    BY DEF MonitorInv, TypeOK, Results
<1>1. CASE Starts
    <2>1. /\ thread = "starting" /\ thread' = "sampling" /\ Say("measuring")
          /\ UNCHANGED <<samples, answered, inHand, warned, results, alarmed, checks, queue,
                         callerVars>>
        BY <1>1 DEF Starts, recordVars
    <2>2. /\ dropped' \in BOOLEAN /\ faults' = faults
          /\ ~dropped' => sent' = "measuring"
          /\ sent' = sent \/ sent' = "measuring"
        BY <2>1, SayLemma DEF MonitorInv
    <2>3. TypeOK'
        BY <2>1, <2>2 DEF MonitorInv, TypeOK, callerVars
    <2>4. HandInv'
        BY <2>1 DEF MonitorInv, HandInv
    <2>5. AlarmInv' /\ SizeInv' /\ LoadInv'
        BY <2>1, <2>2 DEF MonitorInv, HandInv, AlarmInv, SizeInv, LoadInv, Alarms, Levels
    <2>6. SumInv'
        BY <2>1, <2>3, <2>4, NothingRecorded
    <2> QED
        BY <2>3, <2>4, <2>5, <2>6 DEF MonitorInv
<1>2. ASSUME NEW success \in BOOLEAN, Sample(success) PROVE MonitorInv'
    <2>1. /\ samples' = samples + 1 /\ samples < Samples /\ answered' = (answered \/ success)
          /\ UNCHANGED <<thread, sent, dropped, faults, inHand, warned, results, alarmed, checks,
                         queue, callerVars>>
        BY <1>2 DEF Sample, sayVars, recordVars
    <2>2. samples' \in 0..Samples
        BY <2>1 DEF MonitorInv, TypeOK
    <2>3. answered' \in BOOLEAN
        BY <2>1 DEF MonitorInv, TypeOK
    <2>4. TypeOK'
        BY <2>1, <2>2, <2>3 DEF MonitorInv, TypeOK, callerVars
    <2> QED
        BY <2>1, <2>4 DEF MonitorInv, HandInv, AlarmInv, SizeInv, LoadInv, SumInv, LastResult,
                          callerVars
<1>3. CASE Baseline
    <2>1. /\ thread = "sampling" /\ thread' = "recording"
          /\ \E message \in {"baseline", "skipped"} : Say(message)
          /\ inHand' \in {"ok", "unreachable"}
          /\ UNCHANGED <<samples, answered, warned, results, alarmed, checks, queue, callerVars>>
        BY <1>3 DEF Baseline
    <2>2. /\ dropped' \in BOOLEAN /\ faults' = faults
          /\ ~dropped' => sent' \in {"baseline", "skipped"}
          /\ sent' \in {sent, "baseline", "skipped"}
        BY <2>1, SayLemma DEF MonitorInv
    <2>3. ~warned /\ results = <<>> /\ Len(results) = 0 /\ inHand = "none"
        BY <2>1 DEF MonitorInv, HandInv
    <2>4. TypeOK'
        BY <2>1, <2>2 DEF MonitorInv, TypeOK, Levels, callerVars
    <2>5. HandInv'
        BY <2>1 DEF HandInv
    <2>6. AlarmInv' /\ SizeInv'
        BY <1>a, <2>1, <2>2, <2>3 DEF AlarmInv, SizeInv, Alarms, Levels
    <2>7. LoadInv'
        BY <2>1, <2>3 DEF MonitorInv, LoadInv, Severe
    <2>8. SumInv'
        BY <2>1, <2>4, <2>5, NothingRecorded
    <2> QED
        BY <2>4, <2>5, <2>6, <2>7, <2>8 DEF MonitorInv
<1>4. CASE Check
    <2>1. /\ checks' = checks + 1 /\ checks + 1 \in 0..MaxChecks /\ ~stopped
          /\ thread = "waiting" /\ thread' = "asking"
          /\ UNCHANGED <<samples, answered, sent, dropped, faults, inHand, warned, results,
                         alarmed, queue, callerVars>>
        BY <1>a, <1>4 DEF Check, MonitorInv, TypeOK, sayVars, recordVars
    <2>2. TypeOK'
        BY <2>1 DEF MonitorInv, TypeOK, callerVars
    <2>3. HandInv' /\ AlarmInv' /\ SizeInv'
        BY <2>1 DEF MonitorInv, HandInv, AlarmInv, SizeInv, LastResult
    <2>4. LoadInv'
        BY <1>a, <2>1 DEF MonitorInv, LoadInv
    <2>5. SumInv'
        BY <2>1 DEF MonitorInv, SumInv, callerVars
    <2> QED
        BY <2>2, <2>3, <2>4, <2>5 DEF MonitorInv
<1>5. CASE StopSeen \/ Raises
    <2>1. /\ thread \in {"starting", "asking", "sampling", "waiting"} /\ thread' = "over"
          /\ UNCHANGED <<samples, answered, sent, dropped, inHand, warned, results, alarmed, checks,
                         queue, callerVars>>
          /\ faults' = faults \/ (faults < MaxFaults /\ faults' = faults + 1)
        BY <1>5 DEF StopSeen, Raises, sayVars, recordVars
    <2>2. faults' \in 0..MaxFaults
        BY <2>1 DEF MonitorInv, TypeOK
    <2>3. TypeOK'
        BY <2>1, <2>2 DEF MonitorInv, TypeOK, callerVars
    <2> QED
        BY <2>1, <2>3 DEF MonitorInv, HandInv, AlarmInv, SizeInv, LoadInv, SumInv, LastResult,
                          callerVars
<1>6. ASSUME NEW level \in Alarms, Alarm(level) PROVE MonitorInv'
    <2>1. Answered(level) /\ Say(level) /\ warned' = warned
          /\ alarmed' = (alarmed \/ level \in Severe) /\ level \in Levels
        BY <1>6 DEF Alarm, Alarms
    <2>2. /\ dropped' \in BOOLEAN /\ faults' = faults
          /\ ~dropped' => sent' = level
          /\ sent' = sent \/ sent' = level
        BY <2>1, SayLemma DEF MonitorInv
    <2>3. warned' \in BOOLEAN
        BY <2>1 DEF MonitorInv, TypeOK
    <2> QED
        BY <2>1, <2>2, <2>3, AnsweredInv
<1>7. CASE Recovery \/ Normal
    <2>1. Answered("ok") /\ warned' = FALSE /\ alarmed' = alarmed
        BY <1>7 DEF Recovery, Normal, MonitorInv, TypeOK
    <2>2. "ok" \in Levels /\ "ok" \notin Alarms /\ "recovered" \notin Alarms /\ "ok" \notin Severe
        BY DEF Levels, Alarms, Severe
    <2>3. alarmed' = (alarmed \/ "ok" \in Severe)
        BY <2>1, <2>2 DEF MonitorInv, TypeOK
    <2>4. /\ dropped' \in BOOLEAN /\ faults' = faults
          /\ ~dropped' => sent' \notin Alarms
          /\ sent' \in {"recovered", sent}
        <3>1. CASE Recovery
            BY <2>2, <3>1, SayLemma DEF Recovery, MonitorInv
        <3>2. CASE Normal
            BY <3>2 DEF Normal, Answered, sayVars, MonitorInv, AlarmInv, TypeOK
        <3> QED
            BY <1>7, <3>1, <3>2
    <2> QED
        BY <2>1, <2>2, <2>3, <2>4, AnsweredInv
<1>8. ASSUME UNCHANGED threadVars, TypeOK', SumInv' PROVE MonitorInv'
    BY <1>8 DEF threadVars, sayVars, recordVars, MonitorInv, HandInv, AlarmInv, SizeInv, LoadInv,
                LastResult
<1>9. CASE QueueChanges
    <2>1. UNCHANGED threadVars /\ UNCHANGED callerVars /\ queue' \in BOOLEAN
        BY <1>9 DEF QueueChanges, MonitorInv, TypeOK
    <2>2. TypeOK' /\ SumInv'
        BY <2>1 DEF threadVars, sayVars, recordVars, callerVars, MonitorInv, TypeOK, SumInv
    <2> QED
        BY <1>8, <2>1, <2>2
<1>10. CASE Stop \/ Abandons \/ Joins \/ JoinExpires
    <2>1. UNCHANGED <<threadVars, queue>>
        BY <1>10 DEF Stop, Abandons, Joins, JoinExpires, Summarise
    <2>2. TypeOK'
        <3>1. /\ stopped' \in BOOLEAN /\ caller' \in {"scanning", "joining", "summed", "gone"}
              /\ summary' \in {summary, results}
            BY <1>10 DEF Stop, Abandons, Joins, JoinExpires, Summarise, MonitorInv, TypeOK
        <3>2. summary' \in Seq(Results)
            BY <1>a, <3>1
        <3> QED
            BY <2>1, <3>1, <3>2
            DEF threadVars, sayVars, recordVars, MonitorInv, TypeOK, Results
    <2>3. SumInv'
        BY <1>10, <2>1
        DEF Stop, Abandons, Joins, JoinExpires, Summarise, threadVars, recordVars, MonitorInv, SumInv
    <2> QED
        BY <1>8, <2>1, <2>2, <2>3
<1>11. CASE UNCHANGED vars
    <2>1. UNCHANGED threadVars /\ UNCHANGED callerVars /\ queue' = queue
        BY <1>11 DEF vars
    <2>2. TypeOK' /\ SumInv'
        BY <2>1 DEF threadVars, sayVars, recordVars, callerVars, MonitorInv, TypeOK, SumInv
    <2> QED
        BY <1>8, <2>1, <2>2
<1> QED
    BY <1>1, <1>2, <1>3, <1>4, <1>5, <1>6, <1>7, <1>9, <1>10, <1>11, RecordsInv
    DEF Next, ThreadStep

LEMMA MonitorInvariant == Spec => []MonitorInv
BY InitMonitorInv, NextMonitorInv, PTL DEF Spec

-----------------------------------------------------------------------------
\* Every variable keeps its type: the list of results never outgrows its limit.
THEOREM TypeCorrect == Spec => []TypeOK
<1>1. MonitorInv => TypeOK
    BY DEF MonitorInv
<1> QED
    BY MonitorInvariant, <1>1, PTL

\* target_monitor.py: unless the last warning found no queue, what was sent last is
\* an alarm exactly when the last measurement was one, however often the target
\* slows down and recovers, whatever was dropped before, and also when the thread
\* has died.
THEOREM AlarmAlwaysCurrent == Spec => []AlarmIsCurrent
<1>1. MonitorInv => AlarmIsCurrent
    BY DEF MonitorInv, AlarmInv, AlarmIsCurrent, LastResult
<1> QED
    BY MonitorInvariant, <1>1, PTL

\* summary(): also when stop() gave up waiting, the report lacks at most one
\* result, and as long as none had to make room the results know of every danger
\* and timeout that was warned of.
THEOREM LoadAlwaysReported == Spec => []LoadReported
<1>1. MonitorInv => LoadReported
    BY DEF MonitorInv, LoadInv, SumInv, LoadReported, Results
<1> QED
    BY MonitorInvariant, <1>1, PTL
=============================================================================
