# A TLA+ model of Shift-Left-Sync

Shift-Left-Sync is a web service that scans sites for vulnerabilities. A FastAPI
process (`api.py`) takes requests, keeps its rows in SQLite (`database.py`) and
runs each accepted scan in a worker thread (`sls_scanner/core/pipeline.py`),
which starts six scanners, merges their findings, asks the NVD about CVEs,
verifies every finding against the target and writes reports. The dashboard
follows a scan over server-sent events. An ingest of the WAF's audit log runs
whenever an administrator opens the security page.

This directory models the parts of it where steps of several actors interleave,
where a failure may come between two steps, or where a verdict depends on what
was really asked. TLC checks the modules on small instances; TLAPS proves the
most important invariants for every value of the constants.

## 1. Inventory

| component | code | state | operations | hard because |
|---|---|---|---|---|
| scan scheduler | `api.py` 17-32, 88-115, 1124-1232, 1471-1490, 1623-1722; `services/scanner_service.py` | rows of `scan_jobs`, `verify_tokens`, `verified_targets`; the semaphore, `_pending_jobs`, `_active_jobs`, `_cancel_flags` | start, verify (awaits two probes), cancel, a task per scan, startup, shutdown | handlers interleave at each await, two verifications of one job included; every commit may fail; the process may die between two commits |
| scan pipeline | `core/pipeline.py` | `_zap_lock`, `_cancel_flags`, the progress maximum, futures, the ZAP thread, reports | run_pipeline_with_cb and its threads | cancellation, a lock with a timeout, a thread that outlives its scan |
| progress channel | `api.py` 189-560 (script of the dashboard), 1252-1310, 1614-1620 | `_job_sse_queues`, the loop's callbacks, each page with a card or a verification form | push from the worker, the ZAP thread, the monitor and the loop; stream, fallback to the database, polling | a dictionary shared by threads and the loop, a queue shared by pages, an end that is announced twice |
| ZAP scanner | `scanners/zap_scanner.py`, `_zap_lock` of `pipeline.py` | phase, polling counters, the daemon's scans and alerts | new session, spider, AJAX spider, active scan, `_poll`, alerts | status that fails, stalls, never ends; scans that go on in the daemon, under the next scan |
| WAF response | `waf_audit_parser.py`, `waf_blocklist.py`, `database.py` 291-460, `api.py` 1018-1062, 1334-1425 | `security_events`, `waf_ip_blocklist`, the rule file | ingest, block, unblock, sync | an ingest may stop between storing and responding; threshold and rate |
| CVE enrichment | `enrichers/cve_enricher.py` | `_cache`, `_cache_dirty`, the file | init, enrich, flush | globals of one process used by three scans at once; truncate, then write |
| accounts | `database.py` 22-208, `api.py` 646-850, 1065-1112, 1124-1232 | users, sessions, the foreign keys of jobs, verified targets, blocked addresses and approvals | register, login, approve, reject, delete, roles, verify | sessions do not look at the status again; deletion cascades in part; a verification writes its user's id after an await |
| verdicts | `verifiers/poc_verifier.py`, `payload_loader.py`, `normalizers/normalizer.py`, `pipeline.py` 340-358 | the finding, its verdict | normalize, dispatch, verify, split into lists | sweeps that fail half-way, keywords in a joined text |
| reports | `reports/reporter.py`, `pipeline.py` 52-59, 353-412, `database.py` 269-277 | seven files, the rows of `reports` | export each list, save each row | files named by target and second, lists that are empty, exports that fail, rows saved for files that are not there |
| command line | `main.py`, `cli/runner.py`, `pipeline.py` 67-175 | a process of its own | one scan | shares the ZAP daemon and the report files with the server, and no lock |
| target monitor | `utils/target_monitor.py` | the thread, its results, the event `_stop` | measure, warn, stop, summary | join with a timeout, a callback that raises or drops the message |

**Interactions.** The scheduler's task calls `run_scan_job` in a thread, which is
`run_pipeline_with_cb`; that calls back with a phase and a percentage (-1 for
cancelled, -2 for a warning), and the callback writes the row and pushes an event
into the channel. A cancellation only sets a flag that the pipeline looks at
between stages and ZAP's callback looks at while it polls. All scans share the
ZAP daemon (through `_zap_lock`), the CVE cache (through nothing), the directory
of the reports (through nothing) and the default thread pool. The accounts decide
who may call which handler.

Not modelled, and why: the command line's own order of stages (nobody can cancel
or follow it; for what it shares with the server see section 6); the wrappers of nmap,
sqlmap, nikto, nuclei and the header check (a program is started and its output
parsed; `ScanPipeline` takes them as jobs that end or raise at any time); the
layout of CSV, JSON and HTML; the older normalizers, report writers and risk
evaluation (pure, used by nothing but tests); templates and scripts other than the dashboard's;
container, WAF and observability configuration. `PROJECT.json` lists each of
them.

What makes each component correct is stated, property by property, in its
`*Props` module; the hazards behind the properties are in `PROJECT.json`.

## 2. Modules

Each component has a module `X` (constants, variables, one action per operation
or step between two points where another actor may come in, `Next`, `Spec` and,
where fairness is used, `FairSpec`), a module `XProps` that states its
properties, a module `MCX` for TLC with its configurations, and a module of
proofs, `X_proofs`; those of `Accounts` and `SseChannel` are in
`Dashboard_proofs`, since the sessions and the streams are the two halves of what
the dashboard talks to, and those of `PocVerdict` in `ScanReports_proofs`. Operators called `...Anyway`, `...Twice`, `...Late` and
the like, whose comment begins with "Mutated form of", are bugs the code does not
have; no specification uses them, and each makes one property fail.

| module | models | correspondence |
|---|---|---|
| `AsyncioSemaphore` | `asyncio.Semaphore` of Python 3.12 (external; the Dockerfile's version) | `value`, the waiters, those that were woken and have not run |
| `ScanScheduler` | the scheduler | a handler is one action up to its next await, so verify is `VerifyBegin` and one of its ends, and any number of verifications, of one job too, may be between the two (`contended` is a history variable: jobs to which that happened); a task is created, waits, executes, writes its end; `Fault` ends a handler at a failing commit; `Kill`, `Startup` and the shutdown change the process |
| `JobLifecycle` | what a job's row promises, with no tasks, queues or permits | `ScanScheduler` implements it: `Lifecycle` in `ScanSchedulerProps` is its INSTANCE with the mapping |
| `ZapLock` | what `_zap_lock` is to the scans that use it, one lock for each process | `ScanPipeline` implements it (`Lock` in `ScanPipelineProps` is its INSTANCE with the mapping `ZapPlace`), `ZapScan` takes its steps from it |
| `ScanPipeline` | runs side by side | main thread by stages, ZAP thread, counted scanners, the write of a progress report as a step apart from its computation |
| `SseChannel` | one job's channel and the pages | the worker, the ZAP thread and the monitor push, each with a step between test and use of `_job_sse_queues`; a cancelled worker announces the end (`api.py` 1668), the loop announces it again after the row is written (1698); the loop's callbacks, queues, streams, responses under way, and what each page shows: a card with a `.badge`, or the form of `showVerify`, which no timer refreshes |
| `ZapScan` | the scans of several jobs, `ZAPScanner.run`, over one daemon | counters in polls instead of seconds; `alerts` and `got` hold the scans that alerts come from, `hit`, `inherited` and `defied` are history variables: what ZAP found for a scan while it ran, what was in ZAP when it began, and whether ZAP left an AJAX spider running that this scan told it to stop (nobody looks at the answer, `zap_scanner.py` 261, 266) |
| `WafResponse` | ingest, administrator, rule file | an ingest is a loop with a step between each pair of commits |
| `CveCache` | the stage "CVE" of several scans | each dictionary `init_cache` makes is named after the scan that made it |
| `Accounts` | users, sessions, the four references to a user | a handler is an action with the check of its session, verify is two (`Verify`, `Verified`), since it awaits the target in between; its specification is `AccountsSpec` |
| `ScanReports` | the same finding, and the seven files and rows of its scan | EXTENDS `PocVerdict`; a file is opened, which empties it, and then closed; `twin` is another scan of the target in the same second |
| `PocVerdict` | one finding from normalization to the lists | a verifier is a list of sweeps of requests; kinds stand for keywords, answers for what a response shows |
| `TargetMonitor` | the monitor thread and the end of the scan | levels instead of milliseconds; a result is told and recorded in two steps; the job's queue comes and goes, and a message that finds none is dropped, as `_push_sse_for_job` does |

## 3. Runs

`MaxFaults` bounds failing commits, writes or exports, `MaxRestarts` the crashes,
`MaxLeaves` the reloads, broken connections and lost responses of the pages,
`MaxReports` the reports of a scan's threads, `MaxTicks` the clock, `MaxAdmin`
the administrator's requests, `MaxChecks` the measurements, `MaxMentions` the
foreign keywords of a text, `MaxUrls` the URLs the AJAX spider finds, `Unheeded`
the scans whose AJAX spider ZAP may fail to stop, `TwinTools` the findings beside
which a twin scan is explored, `MaxIds` the ids of accounts, `Slots` the scans in
the CVE stage at a time, `Tasks` and `Probes` the tasks and verifications alive at
one time. `AdminJobs` says which jobs are an administrator's. `CHECK_DEADLOCK FALSE` is there throughout because every
component comes to rest: scans end, bounds are used up.

| configuration | instance | shows |
|---|---|---|
| `MCScanSchedulerFair` | 2 jobs, one of them an administrator's, 1 target, 2 tasks, 2 verifications that may overlap, 1 permit, 1 fault, 1 restart; fair | `TwoTasksOnlyIfContended`: nothing but two verifications at the same time makes a second task; `UnfinishedHasTask`, no row left behind; `FinalStatusStays`; `ImplementsLifecycle`, the refinement of `JobLifecycle`; `EveryScanEnds`, unless a write failed |
| `MCScanSchedulerOverlap` | 2 jobs, 3 tasks, 2 overlapping verifications, 2 permits, 1 fault | `ListsMatchTasks` even with two tasks of one job, `PendingNotStarted`, `PermitsAccounted`, `NoLostWakeup`, `OwnershipBeforeScan` |
| `MCScanPipeline` | 1 run, 3 scanners, 2 findings, 2 faults, cancellation at any step; fair | `DoneIsFinal`, `AbortedIsNotDone`, `CancelledSavesNothing`, `EveryRunEnds`, `ZapLockReturns` |
| `MCScanPipelineZap` | 2 runs, both cancellable | `ZapExclusive`: exclusion on the ZAP daemon; `ImplementsZapLock`, the refinement of `ZapLock` |
| `MCScanPipelineProgress` | 1 run, no fault | ends in a violation of `ProgressNeverGoesBack`, see below |
| `MCSseChannel` | 1 page, 2 streams, 2 queues, 3 producing threads with 2 reports between them, cancellation, 1 leave; fair | `NothingMissed` while the page stays, `EventsInOrder`, `EveryStreamEnds`, `EveryPageSettles` |
| `MCZapScan` | 2 scans of one process, percentages 0 and 100, limits of 2 and 3 polls, 1 URL, one scan whose AJAX spider ZAP may fail to stop; fair | `AjaxOverBeforeAttack`, also against a spider an earlier scan has left; `FindingsAreItsOwn`; `ScanReturns` |
| `MCWafResponse` | 4 events of 2 addresses, threshold 2, rate 1, 1 interruption, 1 request of an administrator | `RulesFollowTable`, `ThresholdBlocks`, `SevereAnswered` up to the first interruption; `IngestCatchesUp` also after it |
| `MCCveCache` | 2 scans, 2 CVEs, 2 slots, 1 fault | `OnlyAnswers`; `KeptForEver` for scans one after the other |
| `MCAccounts` | 2 names, 3 ids, 2 tokens, verifications under way | `SessionsApproved`, `NobodyMissing`, `LastAdminGoesHimself` |
| `MCScanReports` | all findings with one foreign keyword, payload files of 2 or unreadable, a twin scan beside findings of the header check, 1 fault | `FalsePositiveWasSwept`, `ConfirmedWasSeen`, `LinkLeadsToReport`, `FindingIsReported` |
| `MCTargetMonitor` | baseline of 2, 3 results kept, 4 measurements, 1 warning that raises, a queue that comes and goes; fair | `AlarmIsCurrent`, `LoadReported`, `MonitorEnds` |

Every `*Props` module has a `TypeOK` (`RowsTypeOK` in `AccountsProps`). All of
them are proved, so no run repeats them; each can be added to any configuration.

**Conditions in properties.** Some properties hold only on a condition, and each
condition marks a weakness of the code.

* `UnfinishedHasTask`, `RulesFollowTable`, `SevereAnswered` and `ThresholdBlocks`
  require that nothing was interrupted yet: an ingest skips what it has stored, its
  response included (`waf_audit_parser.py` 273), and a verification whose second
  commit fails leaves a verified job pending for ever (`api.py` 1215).
  `EveryScanEnds` excuses a failed write: the writes of `running` and of the final
  status are outside of the `try` (`api.py` 1677, 1715).
* Verify looks at the token (`api.py` 1179), awaits the target and then queues the
  job, so two requests that overlap queue it twice. The runs contain this:
  `TwoTasksOnlyIfContended` says that nothing else makes a second task,
  `FinalStatusStays` that nothing else but an unused token leaves a final status,
  and `JobLifecycle` has a step for it (`VerifyContended`).
* `NothingMissed` requires that no client went away: the first stream to end
  removes whatever queue is registered (`api.py` 1303). A cancelled worker pushes
  a terminal event before its row is written (1668); a page that is told so closes
  its stream, which removes the queue. So the property is about the events up to
  the one that announces the end, says that the worker survives its pushes, and
  from there on lets other threads die of theirs.
* `EveryPageSettles` leaves out one page: its stream has ended while the page still
  has the verification form, and the response that would have replaced the form
  was lost. The timers look at cards whose badge says queued or running (`api.py`
  509-529), and the form has none (300-303).
* `AlarmIsCurrent` leaves out a last message that was dropped for want of a queue,
  and is about what went to the queue, not about what a page shows; `LoadReported`
  speaks of results only while none has had to make room (`checks < Kept`).
* `AjaxOverBeforeAttack` leaves out a scan whose request to stop the AJAX spider
  was answered and not obeyed (`defied`): the loop is left all the same.
  `FindingsAreItsOwn` leaves out what a scan has found in ZAP when it cleared the
  session: a new session that fails is ignored (`zap_scanner.py` 192).
* `KeptForEver` requires that no two scans were in the CVE stage at once
  (`overlapped`, a history variable): `init_cache` replaces the dictionary another
  scan fills (`cve_enricher.py` 130), and the flag is reset by whichever flushes
  first (140).
* `LinkLeadsToReport` and `FindingIsReported` require that no other scan of the
  target began in the same second (`pipeline.py` 192), and the first leaves out
  lists that are empty, whose rows are saved all the same (402). The twin scan is in
  the run, but neither property says anything once there is one.

`MCProcess` puts both scans of `MCZapScan` into the server, and no run here has a
scan of the command line. Put in a process of its own by hand, one scan makes TLC
find `FindingsAreItsOwn` and `AjaxOverBeforeAttack` violated: each process has a
`_zap_lock`, and the comments at `pipeline.py` 15 (one at a time) and
`zap_scanner.py` 185 (alone) are true of one process only.

**Why these bounds are enough.** The races of this code are between two actors
over one shared thing: two verifications of a job, two scans over the lock or the
cache, two streams over a queue, two threads that push into it, an ingest and an
administrator over the table, two administrators. Most instances have the two
actors and one more thing than they can serve (a third task for two permits, a
second task for one, a stream that takes the place of one left behind and a queue
that takes the place of the one it removed, a fourth measurement for a list of
three, a second scan that meets in ZAP what the first has left). The semaphore's errors need a
waiter woken while another arrives; three tasks on two permits do that, and the
proof covers every number. A fault is one failing commit at any place; what a
second one could add begins in the state the first has left. Two pages meet only in
the queue, where with one page a stream that was left behind competes with the
new one; but a page leaves a stream behind only by going away, so the run shows
nothing about `NothingMissed` for a shared queue. The theorem of section 5 does,
for any number of pages. The counters of `_poll` only have to be able to
run out in every order: a percentage between 0 and 100 makes one poll differ from
the one before, and the two percentages there are, with requests that fail, do
that too. The two safety properties were also checked with three percentages,
limits of 3 and 4 and both scans unheeded (2.2 million states). The proofs of section 5 have none of these bounds.

**Where the code departs from its documentation.** The first row is a run of its
own, with a finding in `PROJECT.json`. Each of the others names a definition of
the `*Props` modules, at their end; put in the place of the properties of the
named configuration, TLC finds it violated.

| definition | configuration | sentence | what happens |
|---|---|---|---|
| `ProgressNeverGoesBack` | `MCScanPipelineProgress` | comment, `pipeline.py` 218: progress never goes back | the maximum is taken under the mutex and written outside of it (228) |
| `QueuedMeansWaiting` | `MCScanSchedulerOverlap` | README 483: `queued` is verified and waiting | the token is checked before the probes are awaited (`api.py` 1179), so of two overlapping verifications the second queues a running job again |
| `AcceptedCancelStops` | `MCScanSchedulerFair` | answer of cancel, `api.py` 1490: it stops after the current stage | after the last check (`pipeline.py` 346) the scan ends as done |
| `NoZapScanAfterCancelled` | `MCScanPipelineZap` | the same | `_check_cancel` pops the flag (28); the ZAP thread waiting for the lock no longer sees it, and scans |
| `MonitorStopped` | `MCScanPipeline` | usage, `target_monitor.py` 24: stop the monitor in a finally | it is stopped at the end only (`pipeline.py` 419), not on cancellation or error |
| `PushIsSafe` | `MCSseChannel` | docstring, `api.py` 1615: safe from any thread | check, then index: KeyError |
| `OpenStreamIsFed` | `MCSseChannel` | docstring, `api.py` 1254: progress in real time | the first stream to end takes the queue out |
| `TimeoutForcesStop` | `MCZapScan` | docstring, `zap_scanner.py` 96: forced stop at the timeout, returns True | no stop request is sent, and it returns False (167) |
| `AjaxIsItsOwn` | `MCZapScan` | log, `zap_scanner.py` 236: the AJAX spider was started | ZAP refuses a second one and the answer is not looked at (238): the scan polls the spider of a cancelled one |
| `RateBlockIsARate` | `MCWafResponse` | reason, `waf_audit_parser.py` 139: rate per window | it counts the time of insertion (117) |
| `AdminEnsured` | `MCAccounts` | docstring, `database.py` 22: the default administrator is ensured | not if the account was demoted or rejected |
| `DeletionSucceeds` | `MCAccounts` | docstring, `database.py` 181: sessions, scans and reports go by CASCADE | only `sessions.user_id` has it |
| `SqlmapVerdictKept` | `MCScanReports` | comment, `normalizer.py` 116: SQLMap's CONFIRMED stands | `dispatch` overwrites it (`poc_verifier.py` 509) |
| `OwnVerifier` | `MCScanReports` | docstring, `poc_verifier.py` 36: the joined text is more accurate | another flaw's verifier judges |
| `NoDeadLinks` | `MCScanReports` | dashboard, `api.py` 866: each row is a link | rows are saved for files that were left out (`reporter.py` 109) |
| `LinkLeadsToOwn` | `MCScanReports` | comment, `database.py` 268: the scan's report files | names are made of target and second |
| `EveryReportLinked` | `MCScanReports` | comment, `database.py` 268: a scan's report files are saved | a row that cannot be saved is left out (`pipeline.py` 58) |
| `SummaryIsFinal` | `MCTargetMonitor` | docstring, `target_monitor.py` 138: the final report | a request outlives the join (135) |
| `MonitoredThroughout` | `MCTargetMonitor` | header: measured during the scan | an exception of the callback ends the thread (93) |

## 4. Fairness

Fairness is stated for what a scheduler of the runtime gives and for calls that
have a time limit, never for users, pages, targets or failures.

* `ScanScheduler`: the event loop runs every task that is ready and resumes every
  handler (httpx is called with a timeout of 8 s); a worker thread returns, which
  `ScanPipeline` shows under the assumption below; a container that stopped is
  started again (`restart: unless-stopped`). A final write that fails leaves the
  row until the next restart, which nothing promises, so `EveryScanEnds` excuses it.
* `ScanPipeline`: threads run and the scanners return. This is an assumption: the
  requests to ZAP and the subprocess of sqlmap have no timeout of their own.
  Strong fairness is asked of one action only, `ZapScanned`: a ZAP scan, which may
  report any number of times, does come to its end; `ZapScan` shows that it does
  (`ScanReturns`). The lock is fair to no waiter; the run that is checked has one
  run, so that it says that the lock is given back, not in which order.
* `SseChannel`: the scan gets its slot and its worker goes on (`ScanScheduler` and
  `ScanPipeline` show that), the loop runs its callbacks and streams, `wait_for`
  times out after 20 s, and a page that is open runs its timers and gets the answers
  it asked for, unless a response is lost. Nothing is asked of the ZAP thread and
  the monitor. The final write succeeds.
* `ZapScan`: each scanner's thread runs and each request returns or fails; the
  lock, which is fair to no waiter, comes free because every holder returns, or the
  wait times out.
* `TargetMonitor`: the thread runs and its requests end (`requests` limits each
  read, not the whole answer; a target that sends a byte now and then is outside
  of this assumption).

## 5. Proofs

`tlapm` checks every proof; nothing is left without one.

| module | theorem | argument |
|---|---|---|
| `ScanScheduler_proofs` | `TypeCorrect` | `TypeInv`, which adds to `TypeOK` that a task that is not idle has a job |
| | `PermitsAlwaysAccounted`, `ConcurrencyBounded` | one lemma for each operation of the semaphore says how `value` and the woken ones change, one how the set of executing tasks changes; each action then keeps the sum |
| | `WakeupsNeverLost` | release and the resumption of a waiter both wake the next one |
| | `OwnershipAlwaysBeforeScan` | strengthened by what a verified token and a cached target imply about the proved targets |
| | `PendingNeverStarted` | `RowInv`: a job that was not accepted has no token, and an open probe belongs to a job that has one |
| | `TwoTasksAlwaysContended` | `ProbeInv`: unless the job is contended, an open verification means an unused token, an unused token that no task exists, and no task has company; a verification that succeeds while another one of its job is open makes the job contended |
| | `UnfinishedAlwaysHasTask` | `ServedInv`: a write that does not fail leaves every row with what it says; a new task serves its job, a step of one task leaves those of the others alone |
| | `FinalStatusAlwaysStays` | `LifecycleInv` with `TaskRows`: unless the job is contended, the row of a task's job says `running` while it executes and `queued` before, so no task that may still write has a final row |
| | `SchedulerImplementsLifecycle`, `NoScanRunsAgain` | from `LifecycleInv` each action is one step of `JobLifecycle` or invisible to it (`TaskRefines`, `RequestRefines`, `VerifyRefines`, `RefusalRefines`, `DeathRefines`); an overlapping verification is `VerifyContended`, possible only for a job that is not spent, and a contended job never is. What is spent does not begin again; so without such a verification no job runs twice |
| | `ListsAlwaysMatchTasks` | `QueueInv`: the job at each place of `_pending_jobs` is that of the task at the same place of the deque, which is in it once; `ActiveInv` counts entries and executing tasks. Woken tasks keep their place, and leave in order |
| `ScanPipeline_proofs` | `ZapAlwaysExclusive` | `LockInv`: a run that uses ZAP has acquired the lock, and the lock names it |
| | `PipelineImplementsZapLock` | from `LockInv`, each step is a step of `ZapLock` or leaves what it sees alone |
| | `DoneAlwaysFinal`, `AbortedNeverDone`, `CancelledNeverSaves` | `DoneInv`: from the join on, the ZAP thread is over and all scanners are; `LateStages` ties the percentage to the stage; `CancelsInv`: a ZAP thread that gave up has left the flag to main, which is not past its first check after the join, and the reports are saved after the last check |
| | `TypeCorrect` | `PercentInv`: main has seen no more scanners than have finished, so that no share is larger than the whole (`ShareBound`) |
| `ZapScan_proofs` | `ScansUseTheLock`, `OneScanInside` | the scans that talk to the daemon refine `ZapLock`; its own invariant carries over |
| | `AjaxAlwaysOverBeforeAttack`, `FindingsAlwaysItsOwn` | under `OneProcess` (every scan takes the same lock): only the holder starts anything in the daemon (`Idle` for the AJAX spider), and from its new session on the holder finds there only what is its own or was running when it came (`Owned`); a scan that left the AJAX loop has stopped the spider or is in `defied` |
| | `TypeCorrect` | `CountInv`: every turn of a polling loop is counted, also one without an answer, and none is longer stale than it has lasted |
| `Dashboard_proofs` | `RowsTypeCorrect`, `SessionsAlwaysApproved`, `NobodyEverMissing` | one inductive invariant: both properties and `Unapproved`, that an id not given out yet carries no approval. An account whose session is used is known to exist by `SessionsApproved` and cannot be deleted once it is referred to; a verification writes its user's id only if he still has an account |
| | `LastAdminAlwaysGoesHimself` | an action property: whoever makes a request of an administrator is one, and only a request that names the last one takes his place from him; so his session made it, and the one it names is himself |
| | `SseTypeCorrect` | `SseTypeInv`, which adds to `TypeOK` that a running stream has a queue |
| | `EventsAlwaysInOrder` | `LineInv`: in each queue and among the scheduled calls the numbers grow, a scheduled event comes after every one in its queue, and what a page has received comes before what waits in a queue it reads |
| | `NothingIsEverMissed` | `FedInv`: either one queue feeds all open streams, and what was received, waits in it or is scheduled (`Known`) has all events before the end (`FedBy`), or a page was told the end, the end is announced and everything before it was received (`Complete`). A queue is in order, so what is taken next has everything before it received already. Once the end is announced the worker pushes no more (`QuietInv`), so a queue that is removed then cannot make it die |
| `WafResponse_proofs` | `TypeCorrect` | `TypeInv`: in the loop, the position is within the log that was read |
| | `IngestAlwaysCatchesUp` | `LoopInv`: the loop has stored every event it has passed, and events are never removed |
| | `RulesAlwaysFollowTable` | `RulesInv`: the file differs from the table only while the handler that changed the table has still to write it |
| | `ThresholdAlwaysBlocks` | `ThresholdInv`: violations of an address are counted with the event in hand; the one that reaches the threshold is either being responded to or has blocked |
| | `SevereAlwaysAnswered` | `SevereInv`: a severe event stored without a record is the one in hand |
| `CveCache_proofs` | `TypeCorrect`, `OnlyAnswersAreKept` | `AnswersInv`: dictionaries, file and locals hold answers only, also what a flush is about to write |
| | `AnswersAreKeptForEver` | `KeptInv`: while scans come one after the other, every answer is in the file or in the dictionary of the one scan that is there, with the flag that makes it flush |
| `ScanReports_proofs` | `TypeCorrect`, `FalsePositiveAlwaysSwept`, `ConfirmedAlwaysSeen` | of `PocVerdict`, by `Underway`: while a check goes on, the sweeps before the current one are complete and what was seen has settled nothing |
| | `ReportsKeepVerdicts`, `ReportedFalsePositiveWasSwept`, `ReportedConfirmedWasSeen` | each step of `ReportSpec` is a step of `PocVerdict` or leaves its variables alone, so its invariants carry over |
| | `ReportsTypeCorrect`, `LinksAlwaysLeadToReports`, `FindingAlwaysReported` | `Alone`: without a twin scan every file that has been passed and whose list is not empty is whole, and `SplitOnce` keeps the lists those of the verdict |
| `TargetMonitor_proofs` | `TypeCorrect`, `AlarmAlwaysCurrent`, `LoadAlwaysReported` | `MonitorInv`: an alarm is sent, remembered and recorded last, all or none, and between sending and recording the result in hand says so (`AlarmInv`); a dropped message leaves what was sent unknown until the next one; the results grow by one per measurement, so none has made room while `checks < Kept` |

None of these properties is inductive alone: a session could be opened by a user
whose approval the invariant does not yet know of, a `FALSE_POSITIVE` could come
from a state where an earlier sweep was cut short, a recovery could be reported
by a thread that had not remembered the alarm, a stream could take an event from
a queue in which the one before is still to come. The strengthenings exclude the
states that no run reaches; TLC checked each of them on an instance before it was
proved.

The theorems about the channel say more than its run. `MCSseChannel` has one page;
`NothingIsEverMissed` and `EventsAlwaysInOrder` hold for any number of pages that
share the queue and take events away from each other, of streams, queues and
events.

Assumptions are those named in the modules (`SchedulerAssumption`,
`PayloadsAssumption`, `SseAssumption` and so on): finite sets of tasks, natural
bounds, model values that are not members. Two theorems have a hypothesis of their
own, `OneProcess` (`AjaxAlwaysOverBeforeAttack`, `FindingsAlwaysItsOwn`): without
it the property fails, as the hazard of the shared daemon says. Nothing is assumed
about how often or when a job is verified.

Every safety property of the passing runs, invariant or action property, and both
refinements are theorems. Only model-checked: the liveness properties
(`EveryScanEnds`, `EveryRunEnds`, `ZapLockReturns`, `EveryStreamEnds`,
`EveryPageSettles`, `ScanReturns`, `MonitorEnds`), since TLAPS supports neither
liveness under fairness nor ENABLED; and `ProgressNeverGoesBack`, which the code
does not keep. What a recursively defined function computes for every input would
need induction with an operator parameter, which the provers cannot instantiate;
no theorem rests on it. No module here declares a RECURSIVE operator.

## 6. What the models leave out

* Wall-clock time. Timeouts may expire at any moment they could in the code;
  `ZapScan` counts polls, and leaves out the time a request itself takes, which the
  code does not count either.
* The contents of requests, pages, findings and reports, beyond the kinds the
  properties tell apart.
* SQLite itself: a commit happens or fails as a whole (five seconds of waiting for
  a lock, then an exception).
* `asyncio`'s and CPython's own steps: a handler runs to its next await without
  interruption; a thread may be interrupted between any two of its accesses to
  shared state. The step between test and use in `_push_sse_for_job` and between
  lookup and use in `enrich_cve` are steps of the models for that reason.
* The layout of the reports, and the choice of findings and of words that the
  page for laymen makes; which list goes into which file is modelled.
* The command line beside the server. The order of its own stages is not modelled.
  The daemon of ZAP it shares is in `ZapScan`, whose `Process` may give a scan a
  process of its own, but no run and no theorem covers such a scan: the properties
  fail for it (section 3). The names of report files it shares are in `ScanReports`
  as the twin scan, which the run contains; the two properties about files exclude
  it.
* In `SseChannel`: the `queued` broadcasts of positions, which tell a page nothing
  about the scan's progress; the entry that a second task of the same job would
  replace (`api.py` 1224), since `ScanScheduler` shows when there is one; a final
  write that fails, after which no stream is told the end by the database.
* In `PocVerdict`: an `xss` payload file that cannot be decoded. `verify_xss` loads
  it outside of its `try` (`poc_verifier.py` 49), so the exception ends the scan,
  as if the finding were never judged; safety properties allow that of any
  behaviour.
* `prune_security_events`, which nothing calls; the reload of the WAF on the host.

## 7. Plan

Built so far, in this order: scheduler, pipeline, channel, ZAP scanner, WAF
response, cache, accounts, verdicts, monitor; then the lock as a specification of
its own with two refinements, several scans over one daemon and the command line
beside the server, the report files; then the proofs, of which those of the
channel, the WAF response, the cache and the step from the scheduler to
`JobLifecycle` came last. To come:

1. The safety half of what the liveness properties say, as theorems: that a run
   or a stream that has not ended is never without an enabled step of its own.
2. An abstract specification of the channel (a page sees a subsequence of the
   scan's events and then its end), and the step from `SseChannel` to it.
3. A composition of `TargetMonitor` and `SseChannel` with `ScanPipeline`: a lost
   push ends a scan or a monitor. Now `SseChannel` knows the threads only as
   producers, `TargetMonitor` the queue only as something that comes and goes, and
   `ScanPipeline` a push that raises as a fault.
4. The parser of the WAF's audit log, event by event.
