------------------------------- MODULE ZapScan -------------------------------
(***************************************************************************)
(* The scans by ZAP: run_zap_scan and ZAPScanner.run of                    *)
(* sls_scanner/scanners/zap_scanner.py, what ScanPipeline knows as a ZAP   *)
(* thread in "scanning", and the one ZAP daemon they drive over HTTP.      *)
(* They come one after the other under the lock of ZapLock, but the daemon *)
(* keeps what a scan that gave up, was cancelled or died has left in it.   *)
(*                                                                         *)
(* A stage is started in the daemon and then polled.  The spider and the   *)
(* active scan share _poll and are asked for by their ids; the AJAX spider *)
(* has a loop of its own, and there is one of it.  Time is counted in      *)
(* polls: every timeout of the code is a multiple of the stage's interval. *)
(* The daemon may advance, forget a scan, find something or not answer, as *)
(* it likes.  All scans are of one target: alerts() selects by the address *)
(* only.  What progress_cb is told is left to ScanPipeline; that it may    *)
(* raise is in Raises.                                                     *)
(***************************************************************************)
EXTENDS Integers

CONSTANTS
    Scans, NoScan,
    Process,      \* the process of each scan: the server or a command line
    Percents,     \* the percentages the daemon reports
    Timeout,      \* of each stage, in polls
    StaleLimit,   \* ACTIVE_SCAN_STALE_LIMIT, in polls
    StallLimit,   \* the same for an AJAX spider without a browser
    MaxErrors,    \* status requests in a row that may fail
    MaxUrls,      \* bounds the number of URLs the AJAX spider finds
    Unheeded      \* bounds the scans whose AJAX spider ZAP may fail to stop

Polled == {"spider", "ascan"}
Stages == Polled \union {"ajax"}

ASSUME ZapScanAssumption ==
    /\ NoScan \notin Scans
    /\ {0, 100} \subseteq Percents /\ Percents \subseteq 0..100
    /\ Timeout \in [Stages -> Nat \ {0}]
    /\ StaleLimit \in Nat \ {0} /\ StallLimit \in Nat \ {0}
    /\ MaxErrors \in Nat \ {0} /\ MaxUrls \in Nat
    /\ Unheeded \subseteq Scans

VARIABLES
    at,          \* each scan's place at the lock, of ZapLock
    run,         \* the locals of each ZAPScanner
    fetched,     \* scans that returned alerts, and the scans these are of
    got,
    daemon,      \* the percentage of each scan's stages, if the daemon has them
    ajax,        \* whose AJAX spider is running
    alerts,      \* the scans that ZAP's alerts come from
    hit,         \* history: scans that ZAP found something for while they ran
    defied,      \* history: scans that ZAP did not obey when they stopped an AJAX spider
    inherited    \* history: the scans each one has found in ZAP when it began

scanVars   == <<at, run, fetched, got>>
daemonVars == <<daemon, ajax, alerts, hit, defied>>
vars       == <<scanVars, daemonVars, inherited>>

Lock == INSTANCE ZapLock WITH Clients <- Scans

Absent == -1
Here(s, stage) == run[s].stage = stage
Polling(s, stages) == run[s].stage \in stages /\ run[s].polling
Running(s) == run[s].stage \notin {"out", "connect", "returned"}

\* The scans that still have something in ZAP from which alerts may come.
Present == {s \in Scans : ajax = s \/ \E st \in Polled : daemon[s][st] # Absent}

StageAfter == [spider |-> "ajax", ajax |-> "ascan", ascan |-> "alerts"]
At(stage, why) ==
    [stage |-> stage, left |-> why, polling |-> FALSE,
     elapsed |-> 0, stale |-> 0, errors |-> 0, prev |-> -1]

Init ==
    /\ at = [s \in Scans |-> "out"]
    /\ run = [s \in Scans |-> At("out", "")]
    /\ fetched = {} /\ got = [s \in Scans |-> {}]
    /\ daemon = [s \in Scans |-> [st \in Polled |-> Absent]]
    /\ ajax = NoScan
    /\ alerts = {} /\ hit = {} /\ defied = {}
    /\ inherited = [s \in Scans |-> {}]

-----------------------------------------------------------------------------
(* The lock, and run *)

Wait(s) ==
    /\ Lock!Ask(s)
    /\ UNCHANGED <<run, fetched, got, daemonVars, inherited>>

\* Mutated form of Enter: ZAP is used without the lock.
EnterUnlocked(s) ==
    /\ Lock!Goes(s, "waiting", "inside")
    /\ run' = [run EXCEPT ![s] = At("connect", "")]
    /\ UNCHANGED <<fetched, got, daemonVars, inherited>>

Enter(s) ==
    /\ Lock!Enter(s)
    /\ run' = [run EXCEPT ![s] = At("connect", "")]
    /\ UNCHANGED <<fetched, got, daemonVars, inherited>>

GiveUp(s) ==
    /\ Lock!GiveUp(s)
    /\ UNCHANGED <<run, fetched, got, daemonVars, inherited>>

Release(s) ==
    /\ Here(s, "returned")
    /\ Lock!Exit(s)
    /\ UNCHANGED <<run, fetched, got, daemonVars, inherited>>

Return(s) == run' = [run EXCEPT ![s] = At("returned", "")]

\* check_connection fails, or progress_cb raises before the session is cleared.
Unconnected(s) ==
    /\ Here(s, "connect")
    /\ Return(s)
    /\ UNCHANGED <<at, fetched, got, daemonVars, inherited>>

\* _clear_session: the new session may or may not end what is still running in
\* ZAP, and a failure of either request is ignored.
ClearSession(s) ==
    /\ Here(s, "connect")
    /\ run' = [run EXCEPT ![s] = At("spider", "")]
    /\ \E kept \in {{}, Present}, failed \in BOOLEAN :
          /\ daemon' = [t \in Scans |-> IF t \in kept THEN daemon[t] ELSE [st \in Polled |-> Absent]]
          /\ ajax' = IF ajax \in kept THEN ajax ELSE NoScan
          /\ alerts' = IF failed THEN alerts ELSE {}
          /\ inherited' = [inherited EXCEPT ![s] = kept \union alerts']
    /\ UNCHANGED <<at, fetched, got, hit, defied>>

\* The request that starts the spider or the active scan.  ZAP may name a scan
\* that it does not have.
Start(s) ==
    /\ run[s].stage \in Polled /\ ~run[s].polling
    /\ run' = [run EXCEPT ![s] = [@ EXCEPT !.polling = TRUE, !.left = ""]]
    /\ \E p \in {0, Absent} : daemon' = [daemon EXCEPT ![s][run[s].stage] = p]
    /\ UNCHANGED <<at, fetched, got, ajax, alerts, hit, defied, inherited>>

\* The same for the AJAX spider: if one is running, ZAP refuses, and the answer
\* is not looked at.
StartAjax(s) ==
    /\ Here(s, "ajax") /\ ~run[s].polling
    /\ run' = [run EXCEPT ![s] = [@ EXCEPT !.polling = TRUE, !.left = "", !.prev = 0]]
    /\ ajax' = IF ajax = NoScan THEN s ELSE ajax
    /\ UNCHANGED <<at, fetched, got, daemon, alerts, hit, defied, inherited>>

\* The polling of a stage is over: the scan goes on with the next one.
Leave(s, why) == run' = [run EXCEPT ![s] = At(StageAfter[@.stage], why)]

\* It goes on after another sleep.
Loop(s, errors, stale, prev) ==
    run' = [run EXCEPT ![s] = [@ EXCEPT !.elapsed = run[s].elapsed + 1, !.errors = errors,
                                        !.stale = stale, !.prev = prev]]

TimeIsUp(s) == run[s].elapsed + 1 >= Timeout[run[s].stage]

\* ZAP refuses the active scan, or its id is no number.
ActiveScanRefused(s) ==
    /\ Here(s, "ascan") /\ ~run[s].polling
    /\ Leave(s, "refused")
    /\ UNCHANGED <<at, fetched, got, daemonVars, inherited>>

CollectAlerts(s) ==
    /\ Here(s, "alerts")
    /\ fetched' = fetched \union {s}
    /\ got' = [got EXCEPT ![s] = alerts]
    /\ Return(s)
    /\ UNCHANGED <<at, daemonVars, inherited>>

\* progress_cb raises because the user cancelled or a write failed, or a request
\* outside _poll's try does: run_zap_scan returns no alerts.
Raises(s) ==
    /\ Running(s)
    /\ Return(s)
    /\ UNCHANGED <<at, fetched, got, daemonVars, inherited>>

-----------------------------------------------------------------------------
(* _poll *)

\* Mutated form of StatusFails: an error sets the clock back.
StatusFailsRestarts(s) ==
    /\ Polling(s, Polled)
    /\ IF run[s].errors + 1 >= MaxErrors
       THEN Leave(s, "errors")
       ELSE run' = [run EXCEPT ![s].errors = @ + 1, ![s].elapsed = 0]
    /\ UNCHANGED <<at, fetched, got, daemonVars, inherited>>

\* The status request fails, and the error is counted.
StatusFails(s) ==
    /\ Polling(s, Polled)
    /\ IF run[s].errors + 1 >= MaxErrors THEN Leave(s, "errors")
       ELSE IF TimeIsUp(s) THEN Leave(s, "timeout")
       ELSE Loop(s, run[s].errors + 1, run[s].stale, run[s].prev)
    /\ UNCHANGED <<at, fetched, got, daemonVars, inherited>>

\* The text of the error names a scan's id or DOES_NOT_EXIST: that the id is
\* unknown, or anything else that mentions one.
ScanMissing(s) ==
    /\ Polling(s, Polled)
    /\ Leave(s, "missing")
    /\ UNCHANGED <<at, fetched, got, daemonVars, inherited>>

\* A percentage arrives.  Failed requests in between neither reset nor advance
\* the staleness, which matters for the active scan only.
StatusArrives(s) ==
    /\ Polling(s, Polled)
    /\ LET pct == daemon[s][run[s].stage]
           quiet == IF Here(s, "ascan") /\ pct = run[s].prev THEN run[s].stale + 1 ELSE 0 IN
       /\ pct # Absent
       /\ IF pct >= 100 THEN Leave(s, "completed")
          ELSE IF quiet >= StaleLimit THEN Leave(s, "stale")
          ELSE IF TimeIsUp(s) THEN Leave(s, "timeout")
          ELSE Loop(s, 0, quiet, pct)
    /\ UNCHANGED <<at, fetched, got, daemonVars, inherited>>

-----------------------------------------------------------------------------
(* _run_ajax_spider *)

AjaxStopped(s) ==
    /\ Polling(s, {"ajax"})
    /\ ajax = NoScan
    /\ Leave(s, "completed")
    /\ UNCHANGED <<at, fetched, got, daemonVars, inherited>>

\* Without a browser, and when the time is up, the polling is given up.
AjaxGivenUp(s, urls, stall) ==
    (stall >= StallLimit /\ urls = 0) \/ TimeIsUp(s)

\* Mutated form of AjaxPolled: the spider is left behind when the time is up.
AjaxPolledLeft(s) ==
    /\ Polling(s, {"ajax"})
    /\ ajax # NoScan
    /\ \E urls \in 0..MaxUrls :
          LET stall == IF urls = run[s].prev THEN run[s].stale + 1 ELSE 0 IN
          IF AjaxGivenUp(s, urls, stall)
          THEN Leave(s, "timeout")
          ELSE Loop(s, 0, stall, urls)
    /\ UNCHANGED <<at, fetched, got, daemonVars, inherited>>

\* The number of URLs found, 0 if it cannot be read.  When the polling is given
\* up ZAP is asked to stop the spider, and the answer is not looked at: it may
\* run on.
AjaxPolled(s) ==
    /\ Polling(s, {"ajax"})
    /\ ajax # NoScan
    /\ \E urls \in 0..MaxUrls :
          LET stall == IF urls = run[s].prev THEN run[s].stale + 1 ELSE 0 IN
          IF AjaxGivenUp(s, urls, stall)
          THEN /\ Leave(s, "timeout")
               /\ \/ ajax' = NoScan /\ UNCHANGED defied
                  \/ s \in Unheeded /\ defied' = defied \union {s} /\ UNCHANGED ajax
          ELSE Loop(s, 0, stall, urls) /\ UNCHANGED <<ajax, defied>>
    /\ UNCHANGED <<at, fetched, got, daemon, alerts, hit, inherited>>

-----------------------------------------------------------------------------
(* The daemon *)

Advance ==
    /\ \/ \E s \in Scans, st \in Polled, p \in Percents :
             /\ daemon[s][st] \in 0..99 /\ p > daemon[s][st]
             /\ daemon' = [daemon EXCEPT ![s][st] = p]
             /\ UNCHANGED ajax
       \/ /\ ajax # NoScan
          /\ ajax' = NoScan
          /\ UNCHANGED daemon
    /\ UNCHANGED <<scanVars, alerts, hit, defied, inherited>>

Forget ==
    /\ \E s \in Scans, st \in Polled :
          /\ daemon[s][st] # Absent
          /\ daemon' = [daemon EXCEPT ![s][st] = Absent]
    /\ UNCHANGED <<scanVars, ajax, alerts, hit, defied, inherited>>

Find ==
    /\ \E s \in Present \ alerts :
          /\ alerts' = alerts \union {s}
          /\ hit' = IF Running(s) THEN hit \union {s} ELSE hit
    /\ UNCHANGED <<scanVars, daemon, ajax, defied, inherited>>

-----------------------------------------------------------------------------
ScannerStep(s) ==
    \/ Enter(s) \/ GiveUp(s) \/ Release(s)
    \/ Unconnected(s) \/ ClearSession(s)
    \/ Start(s) \/ StartAjax(s) \/ ActiveScanRefused(s)
    \/ StatusFails(s) \/ ScanMissing(s) \/ StatusArrives(s)
    \/ AjaxStopped(s) \/ AjaxPolled(s)
    \/ CollectAlerts(s)

Next ==
    \/ \E s \in Scans : Wait(s) \/ ScannerStep(s) \/ Raises(s)
    \/ Advance \/ Forget \/ Find

Spec == Init /\ [][Next]_vars

\* Every request to ZAP returns, with an answer or an error.  Nothing is assumed
\* of what the daemon does, nor that anything ever raises.
FairSpec == Spec /\ \A s \in Scans : WF_vars(ScannerStep(s))
=============================================================================
