---------------------------- MODULE ZapScanProps ----------------------------
(***************************************************************************)
(* What the ZAP scans promise to the pipeline and to each other.           *)
(***************************************************************************)
EXTENDS ZapScan

TypeOK ==
    /\ at \in [Scans -> {"out", "waiting", "inside", "left"}]
    /\ DOMAIN run = Scans
    /\ \A s \in Scans :
          /\ run[s].stage \in Stages \union {"out", "connect", "alerts", "returned"}
          /\ run[s].left \in {"", "completed", "refused", "missing", "errors", "stale", "timeout"}
          /\ run[s].polling \in BOOLEAN
          /\ run[s].stage \in Stages => run[s].elapsed < Timeout[run[s].stage]
          /\ run[s].stale \in 0..run[s].elapsed
          /\ run[s].errors \in 0..(MaxErrors - 1)
          /\ run[s].prev \in -1..99 \union 0..MaxUrls
    /\ fetched \subseteq Scans
    /\ got \in [Scans -> SUBSET Scans]
    /\ daemon \in [Scans -> [Polled -> Percents \union {Absent}]]
    /\ ajax \in Scans \union {NoScan}
    /\ alerts \subseteq Scans
    /\ hit \subseteq Scans
    /\ defied \subseteq Scans
    /\ inherited \in [Scans -> SUBSET Scans]

\* The active scan starts with the AJAX spider at rest, also one that a scan
\* before it has left running: whenever the loop is left early, the spider was
\* stopped, unless ZAP did not do what it was asked.
AjaxOverBeforeAttack ==
    \A s \in Scans \ defied : run[s].stage \in {"ascan", "alerts"} => ajax = NoScan

\* "(called with the lock held only: nobody else is running)": a scan that
\* returns alerts returns what ZAP found for it, and of other scans only what
\* was in ZAP, or still going on there, when it cleared the session.
FindingsAreItsOwn ==
    \A s \in fetched : got[s] \ inherited[s] = hit \intersect {s}

\* A scan returns and leaves the lock, also if the daemon stands still, forgets
\* its scans, fails every second request or is busy with what others left: what
\* ScanPipeline assumes of the holder of _zap_lock.
ScanReturns == \A s \in Scans : at[s] = "waiting" ~> at[s] = "left"

-----------------------------------------------------------------------------
(* Statements of comments that the code does not keep *)

\* _poll, "forced stop once the timeout has passed, then returns True": a scan
\* that _poll gave up because of its timeout does not run on in the daemon.
TimeoutForcesStop ==
    \A s \in Scans :
        run[s].left = "timeout" => \A st \in Polled : daemon[s][st] \notin 0..99

\* "ZAP Ajax Spider started": the spider that a scan polls is its own, and not
\* one that a cancelled scan has left running.
AjaxIsItsOwn == \A s \in Scans : Polling(s, {"ajax"}) => ajax \in {s, NoScan}
=============================================================================
