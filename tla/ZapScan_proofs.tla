--------------------------- MODULE ZapScan_proofs ---------------------------
(***************************************************************************)
(* Proofs about the scans by ZAP, for any number of scans, any timeouts    *)
(* and any behaviour of the daemon.  That one scan finds no other one in   *)
(* ZAP needs one lock for all of them: the theorems about the AJAX spider  *)
(* and the alerts assume that all scans are of one process.                *)
(***************************************************************************)
EXTENDS ZapScanProps, TLAPS

OneProcess == \A s, t \in Scans : Process[s] = Process[t]

AllStages == Stages \union {"out", "connect", "alerts", "returned"}
Reasons == {"", "completed", "refused", "missing", "errors", "stale", "timeout"}
Previous == Percents \union {Absent} \union 0..MaxUrls
Locals == [stage: AllStages, left: Reasons, polling: BOOLEAN,
           elapsed: Nat, stale: Nat, errors: Nat, prev: Previous]

\* Enough of the types to follow the stages.
Typed ==
    /\ at \in [Scans -> {"out", "waiting", "inside", "left"}]
    /\ run \in [Scans -> Locals]
    /\ fetched \subseteq Scans
    /\ got \in [Scans -> SUBSET Scans]
    /\ daemon \in [Scans -> [Polled -> Percents \union {Absent}]]
    /\ ajax \in Scans \union {NoScan}
    /\ alerts \subseteq Scans
    /\ hit \subseteq Scans
    /\ defied \subseteq Scans
    /\ inherited \in [Scans -> SUBSET Scans]

\* Only who has the lock is between its two ends.
Placed ==
    \A s \in Scans :
        /\ at[s] \in {"out", "waiting"} => run[s].stage = "out"
        /\ at[s] = "left" => run[s].stage \in {"out", "returned"}
        /\ at[s] = "inside" => run[s].stage # "out"

-----------------------------------------------------------------------------
(* The locals *)

LEMMA AtLocals ==
    ASSUME NEW st \in AllStages, NEW why \in Reasons
    PROVE  At(st, why) \in Locals /\ At(st, why).stage = st
BY DEF At, Locals, Previous, Absent

LEMMA StageAfterIs ==
    /\ StageAfter["spider"] = "ajax" /\ StageAfter["ajax"] = "ascan"
    /\ StageAfter["ascan"] = "alerts"
BY DEF StageAfter

\* What a step does to the locals: one scan moves along, or none.
Follows(from, to) ==
    \/ from = to
    \/ to = "returned" /\ from # "out"
    \/ from = "connect" /\ to = "spider"
    \/ from = "spider" /\ to = "ajax"
    \/ from = "ajax" /\ to = "ascan"
    \/ from = "ascan" /\ to = "alerts"

Moves(s) ==
    /\ run' \in [Scans -> Locals]
    /\ \A t \in Scans \ {s} : run'[t] = run[t]

LEMMA SetRun ==
    ASSUME Typed, NEW s \in Scans, NEW r \in Locals, run' = [run EXCEPT ![s] = r]
    PROVE  Moves(s) /\ run'[s] = r
BY DEF Typed, Moves

LEMMA LeaveMoves ==
    ASSUME Typed, NEW s \in Scans, run[s].stage \in Stages, NEW why \in Reasons, Leave(s, why)
    PROVE  Moves(s) /\ run'[s].stage = StageAfter[run[s].stage]
<1>1. StageAfter[run[s].stage] \in AllStages
    BY StageAfterIs DEF Stages, Polled, AllStages
<1>2. run' = [run EXCEPT ![s] = At(StageAfter[run[s].stage], why)]
    BY DEF Leave
<1>3. At(StageAfter[run[s].stage], why) \in Locals
      /\ At(StageAfter[run[s].stage], why).stage = StageAfter[run[s].stage]
    BY <1>1, AtLocals
<1> HIDE DEF At
<1> QED
    BY <1>2, <1>3, SetRun

LEMMA ReturnMoves ==
    ASSUME Typed, NEW s \in Scans, Return(s)
    PROVE  Moves(s) /\ run'[s].stage = "returned"
<1>1. run' = [run EXCEPT ![s] = At("returned", "")]
    BY DEF Return
<1>2. "returned" \in AllStages /\ "" \in Reasons
    BY DEF AllStages, Reasons
<1> QED
    BY <1>1, <1>2, AtLocals, SetRun

LEMMA LoopMoves ==
    ASSUME Typed, NEW s \in Scans, NEW e \in Nat, NEW q \in Nat, NEW p \in Previous, Loop(s, e, q, p)
    PROVE  Moves(s) /\ run'[s].stage = run[s].stage
<1>1. run[s] \in Locals /\ run[s].elapsed + 1 \in Nat
    BY DEF Typed, Locals
<1>2. PICK n \in Nat : n = run[s].elapsed + 1
    BY <1>1
<1> DEFINE b == [run[s] EXCEPT !.elapsed = n, !.errors = e, !.stale = q, !.prev = p]
<1>3. run' = [run EXCEPT ![s] = b]
    BY <1>2 DEF Loop
<1>4. b \in Locals /\ b.stage = run[s].stage
    BY <1>1 DEF Locals
<1> HIDE DEF b
<1> QED
    BY <1>3, <1>4, SetRun

-----------------------------------------------------------------------------
(* What each step of a scanner does to the stages *)

Work(s) ==
    \/ Unconnected(s) \/ ClearSession(s) \/ Start(s) \/ StartAjax(s)
    \/ ActiveScanRefused(s) \/ CollectAlerts(s) \/ Raises(s)
    \/ StatusFails(s) \/ ScanMissing(s) \/ StatusArrives(s)
    \/ AjaxStopped(s) \/ AjaxPolled(s)

Idle == {"out", "returned"}

LEMMA LeaveFollows ==
    ASSUME Typed, NEW s \in Scans, run[s].stage \in Stages, NEW why \in Reasons, Leave(s, why)
    PROVE  Moves(s) /\ run[s].stage \notin Idle /\ Follows(run[s].stage, run'[s].stage)
BY LeaveMoves, StageAfterIs DEF Stages, Polled, Idle, Follows

LEMMA LoopFollows ==
    ASSUME Typed, NEW s \in Scans, run[s].stage \in Stages, NEW e, NEW q, NEW p,
           e \in Nat, q \in Nat, p \in Previous, Loop(s, e, q, p)
    PROVE  Moves(s) /\ run[s].stage \notin Idle /\ Follows(run[s].stage, run'[s].stage)
BY LoopMoves DEF Stages, Polled, Idle, Follows

LEMMA WorkFollows ==
    ASSUME Typed, NEW s \in Scans, Work(s)
    PROVE  Moves(s) /\ run[s].stage \notin Idle /\ Follows(run[s].stage, run'[s].stage)
<1> DEFINE Goal == Moves(s) /\ run[s].stage \notin Idle /\ Follows(run[s].stage, run'[s].stage)
<1>1. run[s] \in Locals /\ run[s].stage \in AllStages
    BY DEF Typed, Locals
<1>2. /\ "completed" \in Reasons /\ "refused" \in Reasons /\ "missing" \in Reasons
      /\ "errors" \in Reasons /\ "stale" \in Reasons /\ "timeout" \in Reasons /\ "" \in Reasons
    BY DEF Reasons
<1>3. /\ run[s].errors + 1 \in Nat /\ run[s].stale \in Nat /\ run[s].stale + 1 \in Nat
      /\ run[s].prev \in Previous
    BY <1>1 DEF Locals
<1>4. ASSUME Unconnected(s) \/ CollectAlerts(s) \/ Raises(s) PROVE Goal
    BY <1>1, <1>4, ReturnMoves DEF Unconnected, CollectAlerts, Raises, Here, Running, Idle,
       Follows, AllStages, Stages, Polled
<1>5. ASSUME ClearSession(s) PROVE Goal
  <2>1. "spider" \in AllStages
      BY DEF AllStages, Stages, Polled
  <2>2. run' = [run EXCEPT ![s] = At("spider", "")] /\ run[s].stage = "connect"
      BY <1>5 DEF ClearSession, Here
  <2>3. At("spider", "") \in Locals /\ At("spider", "").stage = "spider"
      BY <1>2, <2>1, AtLocals
  <2>4. Moves(s) /\ run'[s].stage = "spider"
      BY <2>2, <2>3, SetRun
  <2> QED
      BY <2>2, <2>4 DEF Idle, Follows
<1>6. ASSUME Start(s) PROVE Goal
  <2> DEFINE b == [run[s] EXCEPT !.polling = TRUE, !.left = ""]
  <2>1. run' = [run EXCEPT ![s] = b] /\ run[s].stage \in Polled
      BY <1>6 DEF Start
  <2>2. b \in Locals /\ b.stage = run[s].stage
      BY <1>1, <1>2 DEF Locals
  <2> HIDE DEF b
  <2> QED
      BY <2>1, <2>2, SetRun DEF Polled, Idle, Follows
<1>7. ASSUME StartAjax(s) PROVE Goal
  <2> DEFINE b == [run[s] EXCEPT !.polling = TRUE, !.left = "", !.prev = 0]
  <2>0. 0 \in Previous
      BY ZapScanAssumption DEF Previous
  <2>1. run' = [run EXCEPT ![s] = b] /\ run[s].stage = "ajax"
      BY <1>7 DEF StartAjax, Here
  <2>2. b \in Locals /\ b.stage = run[s].stage
      BY <1>1, <1>2, <2>0 DEF Locals
  <2> HIDE DEF b
  <2> QED
      BY <2>1, <2>2, SetRun DEF Idle, Follows
<1>8. ASSUME ActiveScanRefused(s) \/ ScanMissing(s) \/ AjaxStopped(s) PROVE Goal
  <2>1. run[s].stage \in Stages /\ (Leave(s, "refused") \/ Leave(s, "missing") \/ Leave(s, "completed"))
      BY <1>8 DEF ActiveScanRefused, ScanMissing, AjaxStopped, Here, Polling, Stages, Polled
  <2> QED
      BY <1>2, <2>1, LeaveFollows
<1>9. ASSUME StatusFails(s) PROVE Goal
  <2>1. /\ run[s].stage \in Stages
        /\ \/ Leave(s, "errors") \/ Leave(s, "timeout")
           \/ Loop(s, run[s].errors + 1, run[s].stale, run[s].prev)
      BY <1>9 DEF StatusFails, Polling, Stages
  <2> QED
      BY <1>2, <1>3, <2>1, LeaveFollows, LoopFollows
<1>10. ASSUME StatusArrives(s) PROVE Goal
  <2> DEFINE pct == daemon[s][run[s].stage]
             quiet == IF Here(s, "ascan") /\ pct = run[s].prev THEN run[s].stale + 1 ELSE 0
  <2>1. /\ run[s].stage \in Polled
        /\ \/ Leave(s, "completed") \/ Leave(s, "stale") \/ Leave(s, "timeout")
           \/ Loop(s, 0, quiet, pct)
      BY <1>10 DEF StatusArrives, Polling
  <2>2. quiet \in Nat
      BY <1>3
  <2>3. pct \in Previous
      BY <2>1 DEF Typed, Previous
  <2>4. run[s].stage \in Stages
      BY <2>1 DEF Stages
  <2> HIDE DEF pct, quiet
  <2> QED
      BY <1>2, <2>1, <2>2, <2>3, <2>4, LeaveFollows, LoopFollows
<1>11. ASSUME AjaxPolled(s) PROVE Goal
  <2>1. PICK urls \in 0..MaxUrls :
          LET stall == IF urls = run[s].prev THEN run[s].stale + 1 ELSE 0 IN
          Leave(s, "timeout") \/ Loop(s, 0, stall, urls)
      BY <1>11 DEF AjaxPolled
  <2> DEFINE stall == IF urls = run[s].prev THEN run[s].stale + 1 ELSE 0
  <2>2. stall \in Nat /\ urls \in Previous
      BY <1>3 DEF Previous
  <2>3. run[s].stage \in Stages
      BY <1>11 DEF AjaxPolled, Polling, Stages
  <2>4. Leave(s, "timeout") \/ Loop(s, 0, stall, urls)
      BY <2>1
  <2> HIDE DEF stall
  <2> QED
      BY <1>2, <2>2, <2>3, <2>4, LeaveFollows, LoopFollows
<1> QED
    BY <1>4, <1>5, <1>6, <1>7, <1>8, <1>9, <1>10, <1>11 DEF Work

-----------------------------------------------------------------------------
(* The lock *)

LockSteps(s) == Wait(s) \/ Enter(s) \/ GiveUp(s) \/ Release(s)
Daemon == Advance \/ Forget \/ Find

LEMMA NextIs == Next <=> Daemon \/ \E s \in Scans : LockSteps(s) \/ Work(s)
BY DEF Next, ScannerStep, LockSteps, Work, Daemon

LEMMA WorkKeepsPlaces == ASSUME NEW s \in Scans, Work(s) PROVE at' = at
BY DEF Work, Unconnected, ClearSession, Start, StartAjax, ActiveScanRefused, CollectAlerts,
   Raises, StatusFails, ScanMissing, StatusArrives, AjaxStopped, AjaxPolled

LEMMA DaemonKeepsScans == Daemon => UNCHANGED <<at, run, fetched, got, inherited>>
BY DEF Daemon, Advance, Forget, Find, scanVars

\* The places of the scans are those of a ZapLock.
THEOREM ScansUseTheLock == Spec => Lock!Spec
<1>1. Init => Lock!Init
    BY DEF Init, Lock!Init
<1>2. [Next]_vars => [Lock!Next]_at
  <2> SUFFICES ASSUME [Next]_vars PROVE Lock!Next \/ at' = at
      OBVIOUS
  <2>1. CASE UNCHANGED vars
      BY <2>1 DEF vars, scanVars
  <2>2. ASSUME NEW s \in Scans, LockSteps(s) PROVE Lock!Next
      BY <2>2 DEF LockSteps, Wait, Enter, GiveUp, Release, Lock!Next
  <2> QED
      BY <2>1, <2>2, NextIs, WorkKeepsPlaces, DaemonKeepsScans
<1> QED
    BY <1>1, <1>2, PTL DEF Spec, Lock!Spec

\* A process has one scan inside ZAP at most, whoever gives up waiting.
LEMMA LockInvariant ==
    ASSUME Typed, Lock!OneInside, NEW s \in Scans,
           Lock!Ask(s) \/ Lock!Enter(s) \/ Lock!GiveUp(s) \/ Lock!Exit(s)
    PROVE  Lock!OneInside'
BY DEF Typed, Lock!OneInside, Lock!Ask, Lock!Enter, Lock!GiveUp, Lock!Exit, Lock!Goes,
   Lock!Free, Lock!Holds

-----------------------------------------------------------------------------
(* Types and places *)

Held == Typed /\ Placed /\ Lock!OneInside

LEMMA HeldInit == Init => Held
<1> SUFFICES ASSUME Init PROVE Held
    OBVIOUS
<1>1. "out" \in AllStages /\ "" \in Reasons
    BY DEF AllStages, Reasons
<1>2. At("out", "") \in Locals /\ At("out", "").stage = "out"
    BY <1>1, AtLocals
<1> HIDE DEF At
<1>3. Typed
    BY <1>2 DEF Init, Typed
<1>4. Placed
    BY <1>2 DEF Init, Placed
<1>5. Lock!OneInside
    BY DEF Init, Lock!OneInside
<1> QED
    BY <1>3, <1>4, <1>5 DEF Held

LEMMA DaemonTyped == ASSUME Typed, Daemon PROVE Typed'
<1>1. CASE Advance
  <2>1. UNCHANGED <<at, run, fetched, got, alerts, hit, defied, inherited>>
      BY <1>1 DEF Advance, scanVars
  <2>2. CASE ajax # NoScan /\ ajax' = NoScan /\ UNCHANGED daemon
      BY <2>1, <2>2 DEF Typed
  <2>3. ASSUME NEW s \in Scans, NEW st \in Polled, NEW p \in Percents,
               daemon' = [daemon EXCEPT ![s][st] = p], UNCHANGED ajax
        PROVE  Typed'
    <3>1. daemon' \in [Scans -> [Polled -> Percents \union {Absent}]]
        BY <2>3 DEF Typed
    <3> QED
        BY <2>1, <2>3, <3>1 DEF Typed
  <2> QED
      BY <1>1, <2>2, <2>3 DEF Advance
<1>2. CASE Forget
  <2>1. UNCHANGED <<at, run, fetched, got, ajax, alerts, hit, defied, inherited>>
      BY <1>2 DEF Forget, scanVars
  <2>2. daemon' \in [Scans -> [Polled -> Percents \union {Absent}]]
      BY <1>2 DEF Forget, Typed
  <2> QED
      BY <2>1, <2>2 DEF Typed
<1>3. CASE Find
    BY <1>3 DEF Find, Typed, scanVars, Present
<1> QED
    BY <1>1, <1>2, <1>3 DEF Daemon

\* What a step of a scanner does in ZAP.
LEMMA WorkTyped == ASSUME Typed, NEW s \in Scans, Work(s) PROVE Typed'
<1>1. at' = at /\ run' \in [Scans -> Locals]
    BY WorkFollows, WorkKeepsPlaces DEF Moves
<1>2. CASE ClearSession(s)
  <2>1. PICK kept \in {{}, Present}, failed \in BOOLEAN :
          /\ daemon' = [t \in Scans |-> IF t \in kept THEN daemon[t] ELSE [st \in Polled |-> Absent]]
          /\ ajax' = IF ajax \in kept THEN ajax ELSE NoScan
          /\ alerts' = IF failed THEN alerts ELSE {}
          /\ inherited' = [inherited EXCEPT ![s] = kept \union alerts']
      BY <1>2 DEF ClearSession
  <2>2. kept \subseteq Scans /\ alerts' \subseteq Scans
      BY <2>1 DEF Present, Typed
  <2>3. UNCHANGED <<fetched, got, hit, defied>>
      BY <1>2 DEF ClearSession
  <2> QED
      BY <1>1, <2>1, <2>2, <2>3 DEF Typed
<1>3. CASE Start(s)
  <2>1. /\ run[s].stage \in Polled /\ UNCHANGED <<fetched, got, ajax, alerts, hit, defied, inherited>>
        /\ \E p \in {0, Absent} : daemon' = [daemon EXCEPT ![s][run[s].stage] = p]
      BY <1>3 DEF Start
  <2>2. 0 \in Percents
      BY ZapScanAssumption
  <2>3. daemon' \in [Scans -> [Polled -> Percents \union {Absent}]]
      BY <2>1, <2>2 DEF Typed
  <2> QED
      BY <1>1, <2>1, <2>3 DEF Typed
<1>4. CASE CollectAlerts(s)
    BY <1>1, <1>4 DEF CollectAlerts, Typed, daemonVars
<1>5. CASE StartAjax(s) \/ AjaxPolled(s)
  <2>1. /\ ajax' \in Scans \union {NoScan} /\ defied' \subseteq Scans
        /\ UNCHANGED <<fetched, got, daemon, alerts, hit, inherited>>
      BY <1>5 DEF StartAjax, AjaxPolled, Typed
  <2> QED
      BY <1>1, <2>1 DEF Typed
<1>6. CASE \/ Unconnected(s) \/ ActiveScanRefused(s) \/ Raises(s) \/ StatusFails(s)
           \/ ScanMissing(s) \/ StatusArrives(s) \/ AjaxStopped(s)
  <2>1. UNCHANGED <<fetched, got, daemonVars, inherited>>
      BY <1>6 DEF Unconnected, ActiveScanRefused, Raises, StatusFails, ScanMissing,
         StatusArrives, AjaxStopped
  <2> QED
      BY <1>1, <2>1 DEF Typed, daemonVars
<1> QED
    BY <1>2, <1>3, <1>4, <1>5, <1>6 DEF Work

LEMMA LockTyped == ASSUME Typed, NEW s \in Scans, LockSteps(s) PROVE Typed'
<1>1. UNCHANGED <<fetched, got, daemonVars, inherited>>
    BY DEF LockSteps, Wait, Enter, GiveUp, Release
<1>2. at' \in [Scans -> {"out", "waiting", "inside", "left"}]
    BY DEF LockSteps, Wait, Enter, GiveUp, Release, Lock!Ask, Lock!Enter, Lock!GiveUp,
       Lock!Exit, Lock!Goes, Typed
<1>3. run' \in [Scans -> Locals]
  <2>1. CASE Enter(s)
    <3>1. "connect" \in AllStages /\ "" \in Reasons
        BY DEF AllStages, Reasons
    <3>2. At("connect", "") \in Locals
        BY <3>1, AtLocals
    <3> HIDE DEF At
    <3> QED
        BY <2>1, <3>2 DEF Enter, Typed
  <2>2. CASE ~Enter(s)
      BY <2>2 DEF LockSteps, Wait, GiveUp, Release, Typed
  <2> QED
      BY <2>1, <2>2
<1> QED
    BY <1>1, <1>2, <1>3 DEF Typed, daemonVars

LEMMA WorkPlaced == ASSUME Held, NEW s \in Scans, Work(s) PROVE at[s] = "inside" /\ Placed'
<1>1. Moves(s) /\ run[s].stage \notin Idle /\ Follows(run[s].stage, run'[s].stage) /\ at' = at
    BY WorkFollows, WorkKeepsPlaces DEF Held
<1>2. at[s] = "inside"
    BY <1>1 DEF Held, Typed, Placed, Idle
<1>3. run'[s].stage # "out"
    BY <1>1 DEF Follows, Idle
<1>4. \A t \in Scans \ {s} : run'[t] = run[t]
    BY <1>1 DEF Moves
<1> QED
    BY <1>1, <1>2, <1>3, <1>4 DEF Held, Placed

LEMMA LockPlaced == ASSUME Held, NEW s \in Scans, LockSteps(s) PROVE Placed'
<1>1. CASE Enter(s)
  <2>1. at' = [at EXCEPT ![s] = "inside"] /\ run' = [run EXCEPT ![s] = At("connect", "")]
      BY <1>1 DEF Enter, Lock!Enter, Lock!Goes
  <2>2. At("connect", "").stage = "connect"
      BY DEF At
  <2> HIDE DEF At
  <2> QED
      BY <2>1, <2>2 DEF Held, Typed, Placed
<1>2. CASE Wait(s) \/ GiveUp(s) \/ Release(s)
    BY <1>2 DEF Wait, GiveUp, Release, Lock!Ask, Lock!GiveUp, Lock!Exit, Lock!Goes, Here,
       Held, Typed, Placed
<1> QED
    BY <1>1, <1>2 DEF LockSteps

LEMMA HeldStep == ASSUME Held, [Next]_vars PROVE Held'
<1>1. CASE UNCHANGED vars
  <2>1. Typed'
      BY <1>1 DEF vars, scanVars, daemonVars, Held, Typed
  <2>2. Placed' /\ Lock!OneInside'
      BY <1>1 DEF vars, scanVars, Held, Placed, Lock!OneInside
  <2> QED
      BY <2>1, <2>2 DEF Held
<1>2. CASE Daemon
  <2>1. Placed' /\ Lock!OneInside'
      BY <1>2, DaemonKeepsScans DEF Held, Placed, Lock!OneInside
  <2> QED
      BY <1>2, <2>1, DaemonTyped DEF Held
<1>3. ASSUME NEW s \in Scans, Work(s) PROVE Held'
  <2>1. Lock!OneInside'
      BY <1>3, WorkKeepsPlaces DEF Held, Lock!OneInside
  <2> QED
      BY <1>3, <2>1, WorkTyped, WorkPlaced DEF Held
<1>4. ASSUME NEW s \in Scans, LockSteps(s) PROVE Held'
  <2>1. Lock!OneInside'
      BY <1>4, LockInvariant DEF LockSteps, Wait, Enter, GiveUp, Release, Held
  <2> QED
      BY <1>4, <2>1, LockTyped, LockPlaced DEF Held
<1> QED
    BY <1>1, <1>2, <1>3, <1>4, NextIs

LEMMA AlwaysHeld == Spec => []Held
BY HeldInit, HeldStep, PTL DEF Spec

\* A process has one of its scans inside ZAP at most, for any number of scans
\* and processes.
THEOREM OneScanInside == Spec => []Lock!OneInside
BY AlwaysHeld, PTL DEF Held

\* With one process, a scan that uses ZAP is alone there.
LEMMA Alone ==
    ASSUME OneProcess, Held, NEW s \in Scans, at[s] = "inside", NEW t \in Scans \ {s}
    PROVE  run[t].stage \in Idle
<1>1. at[t] # "inside"
    BY DEF OneProcess, Held, Lock!OneInside
<1>2. at[t] \in {"out", "waiting", "left"}
    BY <1>1 DEF Held, Typed
<1> QED
    BY <1>2 DEF Held, Placed, Idle

-----------------------------------------------------------------------------
(* The AJAX spider *)

LEMMA AttackStep ==
    ASSUME OneProcess, Held, AjaxOverBeforeAttack, [Next]_vars
    PROVE  AjaxOverBeforeAttack'
<1> USE DEF AjaxOverBeforeAttack
<1>1. CASE UNCHANGED vars
    BY <1>1 DEF vars, scanVars, daemonVars
<1>2. CASE Daemon
  <2>1. run' = run /\ defied' = defied /\ (ajax' = ajax \/ ajax' = NoScan)
      BY <1>2, DaemonKeepsScans DEF Daemon, Advance, Forget, Find
  <2> QED
      BY <2>1
<1>3. ASSUME NEW s \in Scans, LockSteps(s) PROVE AjaxOverBeforeAttack'
  <2>1. ajax' = ajax /\ defied' = defied
      BY <1>3 DEF LockSteps, Wait, Enter, GiveUp, Release, daemonVars
  <2>2. run' = run \/ run' = [run EXCEPT ![s] = At("connect", "")]
      BY <1>3 DEF LockSteps, Wait, Enter, GiveUp, Release
  <2>3. At("connect", "").stage = "connect"
      BY DEF At
  <2> HIDE DEF At
  <2> QED
      BY <2>1, <2>2, <2>3 DEF Held, Typed
<1>4. ASSUME NEW s \in Scans, Work(s) PROVE AjaxOverBeforeAttack'
  <2>1. Moves(s) /\ Follows(run[s].stage, run'[s].stage) /\ at[s] = "inside"
      BY <1>4, WorkFollows, WorkPlaced DEF Held
  <2>2. \A t \in Scans \ {s} : run'[t].stage \in Idle
      BY <2>1, Alone DEF Moves
  <2>0. defied \subseteq defied'
      BY <1>4 DEF Work, Unconnected, ClearSession, Start, StartAjax, ActiveScanRefused,
         CollectAlerts, Raises, StatusFails, ScanMissing, StatusArrives, AjaxStopped,
         AjaxPolled, daemonVars
  <2>3. s \notin defied' /\ run'[s].stage \in {"ascan", "alerts"} => ajax' = NoScan
    <3>1. CASE StartAjax(s)
      <4>1. run[s].stage = "ajax" /\ run' = [run EXCEPT ![s] =
               [run[s] EXCEPT !.polling = TRUE, !.left = "", !.prev = 0]]
          BY <3>1 DEF StartAjax, Here
      <4>2. run[s] \in Locals
          BY DEF Held, Typed
      <4>3. run'[s].stage = "ajax"
          BY <4>1, <4>2 DEF Held, Typed, Locals
      <4> QED
          BY <4>3
    <3>2. CASE AjaxPolled(s)
      <4>1. PICK urls \in 0..MaxUrls :
              LET stall == IF urls = run[s].prev THEN run[s].stale + 1 ELSE 0 IN
              \/ /\ Leave(s, "timeout")
                 /\ ajax' = NoScan \/ defied' = defied \union {s}
              \/ Loop(s, 0, stall, urls) /\ UNCHANGED ajax
          BY <3>2 DEF AjaxPolled
      <4> DEFINE stall == IF urls = run[s].prev THEN run[s].stale + 1 ELSE 0
      <4>2. CASE Leave(s, "timeout") /\ (ajax' = NoScan \/ defied' = defied \union {s})
          BY <4>2
      <4>3. CASE Loop(s, 0, stall, urls)
        <5>1. run[s].stage = "ajax" /\ run[s] \in Locals
            BY <3>2 DEF AjaxPolled, Polling, Held, Typed
        <5>2. stall \in Nat /\ urls \in Previous
            BY <5>1 DEF Locals, Previous
        <5> HIDE DEF stall
        <5>3. run'[s].stage = "ajax"
            BY <4>3, <5>1, <5>2, LoopMoves DEF Held
        <5> QED
            BY <5>3
      <4> QED
          BY <4>1, <4>2, <4>3
    <3>3. CASE AjaxStopped(s)
        BY <3>3 DEF AjaxStopped, daemonVars
    <3>4. CASE ClearSession(s)
      <4>1. run[s].stage = "connect"
          BY <3>4 DEF ClearSession, Here
      <4> QED
          BY <2>1, <4>1 DEF Follows
    <3>5. CASE ~StartAjax(s) /\ ~AjaxPolled(s) /\ ~AjaxStopped(s) /\ ~ClearSession(s)
      <4>1. ajax' = ajax
          BY <1>4, <3>5 DEF Work, Unconnected, Start, ActiveScanRefused, CollectAlerts,
             Raises, StatusFails, ScanMissing, StatusArrives, daemonVars
      <4>2. run[s].stage = "ajax" => run'[s].stage \in {"ajax", "returned"}
        <5>1. SUFFICES ASSUME run[s].stage = "ajax" PROVE run'[s].stage \in {"ajax", "returned"}
            OBVIOUS
        <5>2. Raises(s)
            BY <1>4, <3>5, <5>1 DEF Work, Unconnected, Start, ActiveScanRefused, CollectAlerts,
               StatusFails, ScanMissing, StatusArrives, Here, Polling, Polled
        <5> QED
            BY <5>2, ReturnMoves DEF Raises, Held
      <4> QED
          BY <2>0, <2>1, <4>1, <4>2 DEF Follows
    <3> QED
        BY <3>1, <3>2, <3>3, <3>4, <3>5
  <2> QED
      BY <2>2, <2>3 DEF Idle
<1> QED
    BY <1>1, <1>2, <1>3, <1>4, NextIs

\* No active scan starts beside an AJAX spider, whatever the scan before has
\* left running in ZAP, for any number of scans of one process.
THEOREM AjaxAlwaysOverBeforeAttack ==
    ASSUME OneProcess PROVE Spec => []AjaxOverBeforeAttack
<1>1. Init => AjaxOverBeforeAttack
    BY DEF Init, AjaxOverBeforeAttack
<1> QED
    BY <1>1, AttackStep, AlwaysHeld, PTL DEF Spec

-----------------------------------------------------------------------------
(* The findings *)

\* Before it clears the session a scan has nothing in ZAP; from then on what it
\* finds there is its own or inherited.
Early == {"out", "connect"}
Between(s) == run[s].stage \notin Early \union {"returned"}
Owned ==
    \A s \in Scans :
        /\ s \notin inherited[s]
        /\ s \in fetched => run[s].stage = "returned"
        /\ run[s].stage \in Early => s \notin Present \union alerts \union hit
        /\ Between(s) => /\ Present \subseteq inherited[s] \union {s}
                         /\ alerts \ inherited[s] = hit \intersect {s}

OwnInv == Owned /\ FindingsAreItsOwn

LEMMA PresentShrinks ==
    ASSUME Typed, Daemon PROVE Present' \subseteq Present
<1>1. CASE Advance
  <2>1. CASE ajax' = NoScan /\ daemon' = daemon
      BY <2>1, ZapScanAssumption DEF Present
  <2>2. ASSUME NEW s \in Scans, NEW st \in Polled, NEW p \in Percents,
               daemon[s][st] \in 0..99, daemon' = [daemon EXCEPT ![s][st] = p], ajax' = ajax
        PROVE  Present' \subseteq Present
    <3>1. daemon[s][st] # Absent
        BY <2>2 DEF Absent
    <3>2. \A t \in Scans, e \in Polled : daemon'[t][e] # Absent => daemon[t][e] # Absent
        BY <2>2, <3>1 DEF Typed
    <3> QED
        BY <2>2, <3>2 DEF Present
  <2> QED
      BY <1>1, <2>1, <2>2 DEF Advance
<1>2. CASE Forget
  <2>1. PICK s \in Scans, st \in Polled : daemon' = [daemon EXCEPT ![s][st] = Absent]
      BY <1>2 DEF Forget
  <2>2. \A t \in Scans, e \in Polled : daemon'[t][e] # Absent => daemon[t][e] # Absent
      BY <2>1 DEF Typed
  <2> QED
      BY <1>2, <2>2 DEF Forget, Present
<1>3. CASE Find
    BY <1>3 DEF Find, Present
<1> QED
    BY <1>1, <1>2, <1>3 DEF Daemon

LEMMA OwnDaemon == ASSUME Held, OwnInv, Daemon PROVE OwnInv'
<1>1. UNCHANGED <<run, fetched, got, inherited>> /\ Present' \subseteq Present
    BY PresentShrinks, DaemonKeepsScans DEF Held
<1>2. CASE Advance \/ Forget
  <2>1. UNCHANGED <<alerts, hit>>
      BY <1>2 DEF Advance, Forget
  <2> QED
      BY <1>1, <2>1 DEF OwnInv, Owned, Between, FindingsAreItsOwn
<1>3. CASE Find
  <2>1. PICK f \in Present \ alerts :
          /\ alerts' = alerts \union {f}
          /\ hit' = IF Running(f) THEN hit \union {f} ELSE hit
      BY <1>3 DEF Find
  <2>2. f \in Scans
      BY <2>1 DEF Present
  <2>3. FindingsAreItsOwn'
    <3>1. ASSUME NEW s \in fetched PROVE hit' \intersect {s} = hit \intersect {s}
      <4>1. s \in Scans /\ run[s].stage = "returned"
          BY DEF OwnInv, Owned, Held, Typed
      <4>2. ~Running(s)
          BY <4>1 DEF Running
      <4> QED
          BY <2>1, <4>2
    <3> QED
        BY <1>1, <3>1 DEF OwnInv, FindingsAreItsOwn
  <2>4. Owned'
    <3> SUFFICES ASSUME NEW s \in Scans
                 PROVE  /\ s \notin inherited[s]
                        /\ s \in fetched => run[s].stage = "returned"
                        /\ run[s].stage \in Early => s \notin Present' \union alerts' \union hit'
                        /\ Between(s) => /\ Present' \subseteq inherited[s] \union {s}
                                         /\ alerts' \ inherited[s] = hit' \intersect {s}
        BY <1>1 DEF Owned, Between
    <3>1. s \notin inherited[s] /\ (s \in fetched => run[s].stage = "returned")
        BY DEF OwnInv, Owned
    <3>2. run[s].stage \in Early => s \notin Present' \union alerts' \union hit'
      <4>1. run[s].stage \in Early => s \notin Present /\ s \notin alerts /\ s \notin hit
          BY DEF OwnInv, Owned
      <4> QED
          BY <1>1, <2>1, <4>1
    <3>3. ASSUME Between(s)
          PROVE  Present' \subseteq inherited[s] \union {s} /\ alerts' \ inherited[s] = hit' \intersect {s}
      <4>1. /\ Present \subseteq inherited[s] \union {s}
            /\ alerts \ inherited[s] = hit \intersect {s}
          BY <3>3 DEF OwnInv, Owned
      <4>2. CASE f = s
        <5>1. Running(s)
            BY <3>3 DEF Between, Running, Early
        <5> QED
            BY <1>1, <2>1, <3>1, <4>1, <4>2, <5>1
      <4>3. CASE f # s
        <5>1. f \in inherited[s]
            BY <2>1, <4>1, <4>3
        <5> QED
            BY <1>1, <2>1, <4>1, <4>3, <5>1
      <4> QED
          BY <4>2, <4>3
    <3> QED
        BY <3>1, <3>2, <3>3
  <2> QED
      BY <2>3, <2>4 DEF OwnInv
<1> QED
    BY <1>2, <1>3 DEF Daemon

LEMMA OwnLock == ASSUME Held, OwnInv, NEW s \in Scans, LockSteps(s) PROVE OwnInv'
<1>1. UNCHANGED <<fetched, got, daemon, ajax, alerts, hit, inherited>>
    BY DEF LockSteps, Wait, Enter, GiveUp, Release, daemonVars
<1>2. Present' = Present
    BY <1>1 DEF Present
<1>3. \A t \in Scans : run'[t] = run[t] \/ (run[t].stage = "out" /\ run'[t].stage = "connect")
  <2>1. CASE Enter(s)
    <3>1. at[s] = "waiting" /\ run' = [run EXCEPT ![s] = At("connect", "")]
        BY <2>1 DEF Enter, Lock!Enter, Lock!Goes
    <3>2. At("connect", "").stage = "connect"
        BY DEF At
    <3>3. run[s].stage = "out"
        BY <3>1 DEF Held, Placed
    <3> HIDE DEF At
    <3> QED
        BY <3>1, <3>2, <3>3 DEF Held, Typed
  <2>2. CASE Wait(s) \/ GiveUp(s) \/ Release(s)
      BY <2>2 DEF Wait, GiveUp, Release
  <2> QED
      BY <2>1, <2>2 DEF LockSteps
<1>4. \A t \in Scans : /\ run'[t].stage \in Early <=> run[t].stage \in Early
                       /\ Between(t)' <=> Between(t)
                       /\ run[t].stage = "returned" => run'[t].stage = "returned"
    BY <1>3 DEF Early, Between
<1>5. Owned'
    BY <1>1, <1>2, <1>4 DEF OwnInv, Owned
<1> QED
    BY <1>1, <1>5 DEF OwnInv, FindingsAreItsOwn

\* A step of a scan that leaves the alerts alone and adds nothing to ZAP but its
\* own.
LEMMA OwnQuiet ==
    ASSUME OneProcess, Held, OwnInv, NEW s \in Scans, Work(s),
           run[s].stage # "connect" \/ run'[s].stage = "returned",
           UNCHANGED <<alerts, hit, inherited>>, Present' \subseteq Present \union {s},
           run[s].stage = "connect" => Present' \subseteq Present,
           \/ UNCHANGED <<fetched, got>>
           \/ /\ run[s].stage = "alerts" /\ run'[s].stage = "returned"
              /\ fetched' = fetched \union {s} /\ got' = [got EXCEPT ![s] = alerts]
    PROVE  OwnInv'
<1>1. /\ Moves(s) /\ run[s].stage \notin Idle /\ Follows(run[s].stage, run'[s].stage)
      /\ at[s] = "inside"
    BY WorkFollows, WorkPlaced DEF Held
<1>2. \A t \in Scans \ {s} : run[t].stage \in Idle /\ run'[t] = run[t]
    BY <1>1, Alone DEF Moves
<1>3. s \notin fetched
    BY <1>1 DEF OwnInv, Owned, Idle
<1>4. run'[s].stage \notin Early
    BY <1>1 DEF Follows, Early, Idle
<1>5. Between(s)' => Between(s)
    BY <1>1 DEF Follows, Between, Early, Idle
<1>6. ASSUME NEW t \in Scans
      PROVE  /\ t \notin inherited'[t]
             /\ t \in fetched' => run'[t].stage = "returned"
             /\ run'[t].stage \in Early => t \notin Present' \union alerts' \union hit'
             /\ Between(t)' => /\ Present' \subseteq inherited'[t] \union {t}
                               /\ alerts' \ inherited'[t] = hit' \intersect {t}
  <2>1. CASE t = s
    <3>1. Between(s)' => /\ Present' \subseteq inherited'[s] \union {s}
                         /\ alerts' \ inherited'[s] = hit' \intersect {s}
        BY <1>5 DEF OwnInv, Owned
    <3>2. s \notin inherited'[s]
        BY DEF OwnInv, Owned
    <3>3. s \in fetched' => run'[s].stage = "returned"
        BY <1>3
    <3> QED
        BY <1>4, <2>1, <3>1, <3>2, <3>3
  <2>2. CASE t # s
    <3>1. run'[t].stage = run[t].stage /\ run[t].stage \in Idle
        BY <1>2, <2>2
    <3>2. ~Between(t)'
        BY <3>1 DEF Between, Idle, Early
    <3>3. t \notin inherited'[t] /\ (t \in fetched' => run'[t].stage = "returned")
        BY <2>2, <3>1 DEF OwnInv, Owned
    <3>4. run[t].stage \in Early => t \notin Present \union alerts \union hit
        BY DEF OwnInv, Owned
    <3> QED
        BY <2>2, <3>1, <3>2, <3>3, <3>4
  <2> QED
      BY <2>1, <2>2
<1>7. Owned'
    BY <1>6 DEF Owned
<1>8. FindingsAreItsOwn'
  <2>1. CASE UNCHANGED <<fetched, got>>
      BY <2>1 DEF OwnInv, FindingsAreItsOwn
  <2>2. CASE /\ run[s].stage = "alerts"
             /\ fetched' = fetched \union {s} /\ got' = [got EXCEPT ![s] = alerts]
    <3>1. alerts \ inherited[s] = hit \intersect {s}
        BY <2>2 DEF OwnInv, Owned, Between, Early
    <3>2. got'[s] = alerts /\ \A t \in Scans \ {s} : got'[t] = got[t]
        BY <2>2 DEF Held, Typed
    <3>3. fetched \subseteq Scans
        BY DEF Held, Typed
    <3> QED
        BY <2>2, <3>1, <3>2, <3>3 DEF OwnInv, FindingsAreItsOwn
  <2> QED
      BY <2>1, <2>2
<1> QED
    BY <1>7, <1>8 DEF OwnInv

\* Clearing the session: what stays in ZAP, and what may still come of it, is
\* inherited.
LEMMA OwnClears ==
    ASSUME OneProcess, Held, OwnInv, NEW s \in Scans, ClearSession(s)
    PROVE  OwnInv'
<1>1. PICK kept \in {{}, Present}, failed \in BOOLEAN :
        /\ daemon' = [t \in Scans |-> IF t \in kept THEN daemon[t] ELSE [st \in Polled |-> Absent]]
        /\ ajax' = IF ajax \in kept THEN ajax ELSE NoScan
        /\ alerts' = IF failed THEN alerts ELSE {}
        /\ inherited' = [inherited EXCEPT ![s] = kept \union alerts']
    BY DEF ClearSession
<1>2. UNCHANGED <<at, fetched, got, hit>> /\ run[s].stage = "connect"
      /\ run' = [run EXCEPT ![s] = At("spider", "")]
    BY DEF ClearSession, Here
<1>3. Work(s)
    BY DEF Work
<1>4. Moves(s) /\ at[s] = "inside"
    BY <1>3, WorkFollows, WorkPlaced DEF Held
<1>5. \A t \in Scans \ {s} : run[t].stage \in Idle /\ run'[t] = run[t]
    BY <1>4, Alone DEF Moves
<1>6. run'[s].stage = "spider"
  <2>1. At("spider", "").stage = "spider"
      BY DEF At
  <2> HIDE DEF At
  <2> QED
      BY <1>2, <2>1 DEF Held, Typed
<1>7. Present' \subseteq kept /\ kept \subseteq Present
  <2>1. ASSUME NEW t \in Scans, t \notin kept PROVE t \notin Present'
    <3>1. daemon'[t] = [st \in Polled |-> Absent] /\ ajax' # t
        BY <1>1, <2>1, ZapScanAssumption
    <3> QED
        BY <3>1 DEF Present
  <2>2. Present' \subseteq Scans
      BY DEF Present
  <2> QED
      BY <1>1, <2>1, <2>2
<1>8. s \notin Present /\ s \notin alerts /\ s \notin hit /\ s \notin fetched
    BY <1>2 DEF OwnInv, Owned, Early
<1>9. inherited'[s] = kept \union alerts' /\ \A t \in Scans \ {s} : inherited'[t] = inherited[t]
    BY <1>1 DEF Held, Typed
<1>10. alerts' \subseteq alerts
    BY <1>1
<1>11. ASSUME NEW t \in Scans
       PROVE  /\ t \notin inherited'[t]
              /\ t \in fetched' => run'[t].stage = "returned"
              /\ run'[t].stage \in Early => t \notin Present' \union alerts' \union hit'
              /\ Between(t)' => /\ Present' \subseteq inherited'[t] \union {t}
                                /\ alerts' \ inherited'[t] = hit' \intersect {t}
  <2>1. CASE t = s
      BY <1>2, <1>6, <1>7, <1>8, <1>9, <1>10, <2>1 DEF Early
  <2>2. CASE t # s
    <3>1. run'[t].stage = run[t].stage /\ run[t].stage \in Idle /\ inherited'[t] = inherited[t]
        BY <1>5, <1>9, <2>2
    <3>2. ~Between(t)'
        BY <3>1 DEF Between, Idle, Early
    <3>3. /\ t \notin inherited[t] /\ (t \in fetched => run[t].stage = "returned")
          /\ run[t].stage \in Early => t \notin Present \union alerts \union hit
        BY DEF OwnInv, Owned
    <3> QED
        BY <1>2, <1>7, <1>10, <3>1, <3>2, <3>3
  <2> QED
      BY <2>1, <2>2
<1>12. FindingsAreItsOwn'
  <2>1. \A t \in fetched : t \in Scans \ {s}
      BY <1>8 DEF Held, Typed
  <2> QED
      BY <1>2, <1>9, <2>1 DEF OwnInv, FindingsAreItsOwn
<1> QED
    BY <1>11, <1>12 DEF OwnInv, Owned

LEMMA OwnWork == ASSUME OneProcess, Held, OwnInv, NEW s \in Scans, Work(s) PROVE OwnInv'
<1>1. CASE ClearSession(s)
    BY <1>1, OwnClears
<1>2. CASE Start(s)
  <2>1. /\ run[s].stage \in Polled /\ UNCHANGED <<fetched, got, ajax, alerts, hit, inherited>>
        /\ \E p \in {0, Absent} : daemon' = [daemon EXCEPT ![s][run[s].stage] = p]
      BY <1>2 DEF Start
  <2>2. Present' \subseteq Present \union {s}
    <3>1. \A t \in Scans \ {s} : daemon'[t] = daemon[t]
        BY <2>1 DEF Held, Typed
    <3> QED
        BY <2>1, <3>1 DEF Present
  <2> QED
      BY <2>1, <2>2, OwnQuiet DEF Polled
<1>3. CASE StartAjax(s)
  <2>1. run[s].stage = "ajax" /\ UNCHANGED <<fetched, got, daemon, alerts, hit, inherited>>
        /\ (ajax' = s \/ ajax' = ajax)
      BY <1>3 DEF StartAjax, Here
  <2>2. Present' \subseteq Present \union {s}
      BY <2>1 DEF Present
  <2> QED
      BY <2>1, <2>2, OwnQuiet
<1>4. CASE AjaxPolled(s)
  <2>1. run[s].stage = "ajax" /\ UNCHANGED <<fetched, got, daemon, alerts, hit, inherited>>
        /\ (ajax' = NoScan \/ ajax' = ajax)
      BY <1>4 DEF AjaxPolled, Polling
  <2>2. Present' \subseteq Present
      BY <2>1, ZapScanAssumption DEF Present
  <2> QED
      BY <2>1, <2>2, OwnQuiet
<1>5. CASE CollectAlerts(s)
  <2>1. /\ run[s].stage = "alerts" /\ UNCHANGED <<daemon, ajax, alerts, hit, inherited>>
        /\ fetched' = fetched \union {s} /\ got' = [got EXCEPT ![s] = alerts]
      BY <1>5 DEF CollectAlerts, Here, daemonVars
  <2>2. run'[s].stage = "returned"
      BY <1>5, ReturnMoves DEF CollectAlerts, Held
  <2>3. Present' = Present
      BY <2>1 DEF Present
  <2> QED
      BY <2>1, <2>2, <2>3, OwnQuiet
<1>6. CASE Unconnected(s) \/ Raises(s)
  <2>1. UNCHANGED <<fetched, got, daemon, ajax, alerts, hit, inherited>>
      BY <1>6 DEF Unconnected, Raises, daemonVars
  <2>2. run'[s].stage = "returned"
      BY <1>6, ReturnMoves DEF Unconnected, Raises, Held
  <2>3. Present' = Present
      BY <2>1 DEF Present
  <2> QED
      BY <2>1, <2>2, <2>3, OwnQuiet
<1>7. CASE ActiveScanRefused(s) \/ StatusFails(s) \/ ScanMissing(s) \/ StatusArrives(s)
           \/ AjaxStopped(s)
  <2>1. /\ UNCHANGED <<fetched, got, daemon, ajax, alerts, hit, inherited>>
        /\ run[s].stage # "connect"
      BY <1>7 DEF ActiveScanRefused, StatusFails, ScanMissing, StatusArrives, AjaxStopped,
         daemonVars, Here, Polling, Polled
  <2>2. Present' = Present
      BY <2>1 DEF Present
  <2> QED
      BY <2>1, <2>2, OwnQuiet
<1> QED
    BY <1>1, <1>2, <1>3, <1>4, <1>5, <1>6, <1>7 DEF Work

\* A scan returns its own alerts and what it found in ZAP when it cleared the
\* session, never those of a scan that came after: for any number of scans of
\* one process, however they ended.
THEOREM FindingsAlwaysItsOwn ==
    ASSUME OneProcess PROVE Spec => []FindingsAreItsOwn
<1>1. Init => OwnInv
  <2> SUFFICES ASSUME Init PROVE OwnInv
      OBVIOUS
  <2>1. At("out", "").stage = "out"
      BY DEF At
  <2>2. \A s \in Scans : run[s].stage = "out"
      BY <2>1 DEF Init
  <2>3. Present = {}
      BY ZapScanAssumption DEF Init, Present
  <2> QED
      BY <2>2, <2>3 DEF Init, OwnInv, Owned, Between, Early, FindingsAreItsOwn
<1>2. Held /\ OwnInv /\ [Next]_vars => OwnInv'
  <2>1. ASSUME OwnInv, UNCHANGED vars PROVE OwnInv'
      BY <2>1 DEF vars, scanVars, daemonVars, OwnInv, Owned, Present, Between, FindingsAreItsOwn
  <2> QED
      BY <2>1, OwnDaemon, OwnLock, OwnWork, NextIs
<1>3. OwnInv => FindingsAreItsOwn
    BY DEF OwnInv
<1> QED
    BY <1>1, <1>2, <1>3, AlwaysHeld, PTL DEF Spec
-----------------------------------------------------------------------------
(* The counters of the stages *)

\* While a stage is polled its time is not up, its errors are fewer than those
\* that end it, and it was stale for no longer than it has lasted.
Counted(r) ==
    /\ r.stage \in Stages => r.elapsed < Timeout[r.stage]
    /\ r.stale \in 0..r.elapsed
    /\ r.errors \in 0..(MaxErrors - 1)
    /\ r.prev \in -1..99 \union 0..MaxUrls

CountInv == \A s \in Scans : Counted(run[s])

LEMMA AtCounted ==
    ASSUME NEW st \in AllStages, NEW why
    PROVE  Counted(At(st, why))
<1>1. /\ At(st, why).stage = st /\ At(st, why).elapsed = 0 /\ At(st, why).stale = 0
      /\ At(st, why).errors = 0 /\ At(st, why).prev = -1
    BY DEF At
<1>2. st \in Stages => Timeout[st] \in Nat \ {0}
    BY ZapScanAssumption
<1> HIDE DEF At
<1> QED
    BY <1>1, <1>2, ZapScanAssumption DEF Counted

\* A step that sets the locals of one scan, to ones that are counted.
LEMMA SetCounted ==
    ASSUME Typed, CountInv, NEW s \in Scans, NEW r, Counted(r), run' = [run EXCEPT ![s] = r]
    PROVE  CountInv'
<1>1. \A t \in Scans : run'[t] = IF t = s THEN r ELSE run[t]
    BY DEF Typed
<1>2. ASSUME NEW t \in Scans PROVE Counted(run'[t])
    BY <1>1 DEF CountInv
<1> QED
    BY <1>2 DEF CountInv, Counted

LEMMA LeaveCounted ==
    ASSUME Typed, CountInv, NEW s \in Scans, run[s].stage \in Stages, NEW why, Leave(s, why)
    PROVE  CountInv'
<1>1. StageAfter[run[s].stage] \in AllStages
    BY StageAfterIs DEF Stages, Polled, AllStages
<1>2. Counted(At(StageAfter[run[s].stage], why))
    BY <1>1, AtCounted
<1>3. run' = [run EXCEPT ![s] = At(StageAfter[run[s].stage], why)]
    BY DEF Leave
<1> HIDE DEF At
<1> QED
    BY <1>2, <1>3, SetCounted

LEMMA ToStage ==
    ASSUME Typed, CountInv, NEW s \in Scans, NEW st \in AllStages,
           run' = [run EXCEPT ![s] = At(st, "")]
    PROVE  CountInv'
<1>1. Counted(At(st, ""))
    BY AtCounted
<1> HIDE DEF At
<1> QED
    BY <1>1, SetCounted

\* Another sleep, if the time is not up.
LEMMA LoopCounted ==
    ASSUME Typed, CountInv, NEW s \in Scans, ~TimeIsUp(s), run[s].stage \in Stages,
           NEW e \in 0..(MaxErrors - 1), NEW q \in Nat, q <= run[s].stale + 1,
           NEW p \in -1..99 \union 0..MaxUrls, Loop(s, e, q, p)
    PROVE  CountInv'
<1>1. run[s] \in Locals /\ run[s].elapsed \in Nat /\ run[s].stale \in 0..run[s].elapsed
    BY DEF Typed, Locals, CountInv, Counted
<1>2. PICK n \in Nat : n = run[s].elapsed + 1
    BY <1>1
<1> DEFINE b == [run[s] EXCEPT !.elapsed = n, !.errors = e, !.stale = q, !.prev = p]
<1>3. run' = [run EXCEPT ![s] = b]
    BY <1>2 DEF Loop
<1>4. b.stage = run[s].stage /\ b.elapsed = n /\ b.errors = e /\ b.stale = q /\ b.prev = p
    BY <1>1 DEF Locals
<1>5. Timeout[run[s].stage] \in Nat /\ ~(n >= Timeout[run[s].stage])
    BY <1>2, ZapScanAssumption DEF TimeIsUp
<1>6. q \in 0..n
    BY <1>1, <1>2
<1> HIDE DEF b
<1>7. Counted(b)
    BY <1>4, <1>5, <1>6, <1>2 DEF Counted
<1> QED
    BY <1>3, <1>7, SetCounted

LEMMA WorkCounted ==
    ASSUME Typed, CountInv, NEW s \in Scans, Work(s)
    PROVE  CountInv'
<1>1. run[s] \in Locals /\ Counted(run[s])
    BY DEF Typed, CountInv
<1>2. /\ run[s].errors \in 0..(MaxErrors - 1) /\ run[s].stale \in Nat
      /\ run[s].prev \in -1..99 \union 0..MaxUrls
    BY <1>1 DEF Counted, Locals
<1>3. ASSUME Unconnected(s) \/ CollectAlerts(s) \/ Raises(s) PROVE CountInv'
  <2>1. "returned" \in AllStages
      BY DEF AllStages
  <2> QED
      BY <1>3, <2>1, ToStage DEF Unconnected, CollectAlerts, Raises, Return
<1>4. ASSUME ClearSession(s) PROVE CountInv'
  <2>1. "spider" \in AllStages
      BY DEF AllStages, Stages, Polled
  <2> QED
      BY <1>4, <2>1, ToStage DEF ClearSession
<1>5. ASSUME Start(s) PROVE CountInv'
  <2> DEFINE b == [run[s] EXCEPT !.polling = TRUE, !.left = ""]
  <2>1. run' = [run EXCEPT ![s] = b]
      BY <1>5 DEF Start
  <2>2. /\ b.stage = run[s].stage /\ b.elapsed = run[s].elapsed /\ b.errors = run[s].errors
        /\ b.stale = run[s].stale /\ b.prev = run[s].prev
      BY <1>1 DEF Locals
  <2> HIDE DEF b
  <2>3. Counted(b)
      BY <1>1, <2>2 DEF Counted
  <2> QED
      BY <2>1, <2>3, SetCounted
<1>6. ASSUME StartAjax(s) PROVE CountInv'
  <2> DEFINE b == [run[s] EXCEPT !.polling = TRUE, !.left = "", !.prev = 0]
  <2>1. run' = [run EXCEPT ![s] = b]
      BY <1>6 DEF StartAjax
  <2>2. /\ b.stage = run[s].stage /\ b.elapsed = run[s].elapsed /\ b.errors = run[s].errors
        /\ b.stale = run[s].stale /\ b.prev = 0
      BY <1>1 DEF Locals
  <2> HIDE DEF b
  <2>3. Counted(b)
      BY <1>1, <2>2 DEF Counted
  <2> QED
      BY <2>1, <2>3, SetCounted
<1>7. ASSUME ActiveScanRefused(s) \/ ScanMissing(s) \/ AjaxStopped(s) PROVE CountInv'
  <2>1. run[s].stage \in Stages /\ (Leave(s, "refused") \/ Leave(s, "missing") \/ Leave(s, "completed"))
      BY <1>7 DEF ActiveScanRefused, ScanMissing, AjaxStopped, Here, Polling, Stages, Polled
  <2> QED
      BY <2>1, LeaveCounted
<1>8. ASSUME StatusFails(s) PROVE CountInv'
  <2>1. run[s].stage \in Stages
      BY <1>8 DEF StatusFails, Polling, Stages
  <2>2. CASE Leave(s, "errors") \/ Leave(s, "timeout")
      BY <2>1, <2>2, LeaveCounted
  <2>3. CASE /\ ~(run[s].errors + 1 >= MaxErrors) /\ ~TimeIsUp(s)
             /\ Loop(s, run[s].errors + 1, run[s].stale, run[s].prev)
    <3>1. run[s].errors + 1 \in 0..(MaxErrors - 1) /\ run[s].stale <= run[s].stale + 1
        BY <1>2, <2>3, ZapScanAssumption
    <3> QED
        BY <1>2, <2>1, <2>3, <3>1, LoopCounted
  <2> QED
      BY <1>8, <2>2, <2>3 DEF StatusFails
<1>9. ASSUME StatusArrives(s) PROVE CountInv'
  <2> DEFINE pct == daemon[s][run[s].stage]
             quiet == IF Here(s, "ascan") /\ pct = run[s].prev THEN run[s].stale + 1 ELSE 0
  <2>1. /\ run[s].stage \in Polled /\ pct # Absent
        /\ \/ Leave(s, "completed") \/ Leave(s, "stale") \/ Leave(s, "timeout")
           \/ ~(pct >= 100) /\ ~TimeIsUp(s) /\ Loop(s, 0, quiet, pct)
      BY <1>9 DEF StatusArrives, Polling
  <2>2. quiet \in Nat /\ quiet <= run[s].stale + 1
      BY <1>2
  <2>3. pct \in 0..100
    <3>1. pct \in Percents \union {Absent}
        BY <2>1 DEF Typed
    <3>2. Percents \subseteq 0..100
        BY ZapScanAssumption
    <3> HIDE DEF pct
    <3> QED
        BY <2>1, <3>1, <3>2
  <2>4. run[s].stage \in Stages
      BY <2>1 DEF Stages
  <2> HIDE DEF pct, quiet
  <2>5. CASE ~(pct >= 100) /\ ~TimeIsUp(s) /\ Loop(s, 0, quiet, pct)
    <3>1. pct \in -1..99 \union 0..MaxUrls /\ 0 \in 0..(MaxErrors - 1)
        BY <2>3, <2>5, ZapScanAssumption
    <3> QED
        BY <2>2, <2>4, <2>5, <3>1, LoopCounted
  <2> QED
      BY <2>1, <2>4, <2>5, LeaveCounted
<1>10. ASSUME AjaxPolled(s) PROVE CountInv'
  <2>1. PICK urls \in 0..MaxUrls :
          LET stall == IF urls = run[s].prev THEN run[s].stale + 1 ELSE 0 IN
          Leave(s, "timeout") \/ (~TimeIsUp(s) /\ Loop(s, 0, stall, urls))
      BY <1>10 DEF AjaxPolled, AjaxGivenUp
  <2> DEFINE stall == IF urls = run[s].prev THEN run[s].stale + 1 ELSE 0
  <2>2. stall \in Nat /\ stall <= run[s].stale + 1
      BY <1>2
  <2>3. run[s].stage \in Stages
      BY <1>10 DEF AjaxPolled, Polling, Stages
  <2>4. Leave(s, "timeout") \/ (~TimeIsUp(s) /\ Loop(s, 0, stall, urls))
      BY <2>1
  <2> HIDE DEF stall
  <2>5. urls \in -1..99 \union 0..MaxUrls /\ 0 \in 0..(MaxErrors - 1)
      BY ZapScanAssumption
  <2> QED
      BY <2>2, <2>3, <2>4, <2>5, LeaveCounted, LoopCounted
<1> QED
    BY <1>3, <1>4, <1>5, <1>6, <1>7, <1>8, <1>9, <1>10 DEF Work

LEMMA CountStep == ASSUME Held, CountInv, [Next]_vars PROVE CountInv'
<1>1. Typed
    BY DEF Held
<1>2. ASSUME NEW s \in Scans, LockSteps(s) PROVE CountInv'
  <2>1. "connect" \in AllStages
      BY DEF AllStages
  <2>2. run' = run \/ run' = [run EXCEPT ![s] = At("connect", "")]
      BY <1>2 DEF LockSteps, Wait, Enter, GiveUp, Release
  <2>3. run' = run => CountInv'
      BY DEF CountInv
  <2> QED
      BY <1>1, <2>1, <2>2, <2>3, ToStage
<1>3. run' = run => CountInv'
    BY DEF CountInv
<1> QED
    BY <1>1, <1>2, <1>3, WorkCounted, DaemonKeepsScans, NextIs DEF vars, scanVars

LEMMA CountInit == Init => CountInv
<1> SUFFICES ASSUME Init, NEW s \in Scans PROVE Counted(run[s])
    BY DEF CountInv
<1>1. run[s] = At("out", "") /\ "out" \in AllStages
    BY DEF Init, AllStages
<1> QED
    BY <1>1, AtCounted

\* Every variable keeps its type; above all, no stage is polled for longer than
\* its timeout or after too many errors, whatever ZAP answers: _poll counts every
\* round, also those without an answer.
THEOREM TypeCorrect == Spec => []TypeOK
<1>1. ASSUME Typed, CountInv PROVE TypeOK
  <2>1. ASSUME NEW s \in Scans
        PROVE  /\ run[s].stage \in Stages \union {"out", "connect", "alerts", "returned"}
               /\ run[s].left \in {"", "completed", "refused", "missing", "errors", "stale", "timeout"}
               /\ run[s].polling \in BOOLEAN
    <3>1. run[s] \in Locals
        BY <1>1 DEF Typed
    <3> QED
        BY <3>1 DEF Locals, AllStages, Reasons
  <2>2. \A s \in Scans : Counted(run[s])
      BY <1>1 DEF CountInv
  <2>3. DOMAIN run = Scans
      BY <1>1 DEF Typed
  <2> QED
      BY <1>1, <2>1, <2>2, <2>3 DEF TypeOK, Typed, Counted
<1> QED
    BY <1>1, AlwaysHeld, CountInit, CountStep, PTL DEF Spec, Held
=============================================================================
