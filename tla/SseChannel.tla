----------------------------- MODULE SseChannel -----------------------------
(***************************************************************************)
(* How the pages of a dashboard follow one scan: the server-sent events of *)
(* api.py and the script of the dashboard (DASHBOARD_JS).                  *)
(*                                                                         *)
(* Events are pushed by the event loop (_run_scan, before and after the    *)
(* scan) and, through cb(), by three threads beside it: the worker that    *)
(* runs the scan, the scan's ZAP thread and its load monitor.  They are    *)
(* numbered in the order in which they are pushed; log keeps what each of  *)
(* them is, whether it reached a queue or not.  The events that tell a     *)
(* waiting job its place ("queued") come before them, by the same way, and *)
(* change no more than the text of the badge; they are left out.           *)
(*                                                                         *)
(* A cancelled scan announces its end twice: the worker's cb(..., -1)      *)
(* pushes it without touching the row, which the loop writes when the      *)
(* worker has returned, to announce it again.                              *)
(*                                                                         *)
(* _job_sse_queues keeps at most one queue for the job, whoever streams    *)
(* from it.  A stream that ends removes the entry, whichever queue it      *)
(* holds by then.                                                          *)
(***************************************************************************)
EXTENDS Naturals, Sequences, FiniteSets

CONSTANTS
    Pages,       \* open dashboards that show the job
    Streams,     \* slots for running _generator()s
    Queues,      \* identities of asyncio.Queue objects
    NoQueue,
    MaxReports,  \* bounds the reports of the threads
    MaxLeaves    \* bounds reloads, connection errors and lost responses

Threads == {"main", "zap", "monitor"}

ASSUME SseAssumption ==
    /\ Pages # {} /\ Queues # {} /\ NoQueue \notin Queues
    /\ MaxReports \in Nat \ {0}
    /\ MaxLeaves \in Nat

VARIABLES
    ended,        \* the row in scan_jobs is done, error or cancelled
    at,           \* where each thread is in the scan or in cb()
    cancelled,    \* the worker has been told to stop and says so
    reports,      \* reports of the threads so far
    log,          \* what each event is, in the order of the pushes
    failed,       \* threads that died of a KeyError
    registered,   \* _job_sse_queues.get(job_id)
    contents,     \* the events in each queue
    ready,        \* put_nowait calls scheduled on the event loop
    stream,       \* what each _generator does: free, open, or its client is gone
    streamQueue,  \* the queue it reads
    owner,        \* the page it serves
    page,         \* loaded, watching a stream, polling, or neither any more
    card,         \* with a .badge, or bare: the verification form of showVerify
    shows,        \* the page displays a job that is active, or its end
    fetches,      \* statuses in responses of /api/scan/{id} on their way
    received,     \* the events a page received since it was loaded
    lost,         \* pages that lost a response while their card was bare
    leaves

scanVars   == <<ended, at, cancelled, reports, log, failed>>
queueVars  == <<registered, contents, ready>>
streamVars == <<stream, streamQueue, owner>>
pageVars   == <<page, card, shows, fetches, received, lost>>
vars       == <<scanVars, queueVars, streamVars, pageVars, leaves>>

Status == IF ended THEN "end" ELSE "active"
StreamOf(p) == {s \in Streams : stream[s] = "open" /\ owner[s] = p}

\* The owner of a free slot, any page.
Nobody == CHOOSE p \in Pages : TRUE

\* Queues something will be taken from, and queues nobody refers to.  A queue
\* that is neither is kept empty.
Read(q, s) == stream[s] # "free" /\ streamQueue[s] = q
Used == {q \in Queues : q = registered \/ \E s \in Streams : Read(q, s)}
Fresh == {q \in Queues \ Used : \A i \in DOMAIN ready : ready[i][1] # q}

\* The slot and the queue of a new stream: their names do not matter.
FreeSlot == CHOOSE s \in Streams : stream[s] = "free"
NewQueue == CHOOSE q \in Fresh : TRUE

\* The queue exists before the scan's task ("race condition").  The page has
\* put up the card of the job, or its verification form.
Init ==
    /\ ended = FALSE
    /\ at = [th \in Threads |-> "queued"]
    /\ cancelled = FALSE
    /\ reports = 0
    /\ log = <<>>
    /\ failed = {}
    /\ registered = CHOOSE q \in Queues : TRUE
    /\ contents = [q \in Queues |-> <<>>]
    /\ ready = <<>>
    /\ stream = [s \in Streams |-> "free"]
    /\ streamQueue = [s \in Streams |-> NoQueue]
    /\ owner = [s \in Streams |-> Nobody]
    /\ page = [p \in Pages |-> "loaded"]
    /\ card \in [Pages -> {"badge", "bare"}]
    /\ shows = [p \in Pages |-> "active"]
    /\ fetches = [p \in Pages |-> {}]
    /\ received = [p \in Pages |-> {}]
    /\ lost = {}
    /\ leaves = 0

-----------------------------------------------------------------------------
(* The producers: _push_sse_for_job *)

Push(kind) ==
    /\ log' = Append(log, kind)
    /\ ready' = IF registered = NoQueue THEN ready
                ELSE Append(ready, <<registered, Len(log) + 1>>)

\* _run_scan up to the executor.
Start ==
    /\ at["main"] = "queued"
    /\ at' = [at EXCEPT !["main"] = "running"]
    /\ Push("progress")
    /\ UNCHANGED <<ended, cancelled, reports, failed, registered, contents, streamVars, pageVars, leaves>>

\* The pipeline starts the load monitor and the ZAP thread.
Fork ==
    /\ at["main"] = "running" /\ at["zap"] = "queued"
    /\ at' = [th \in Threads |-> "running"]
    /\ UNCHANGED <<ended, cancelled, reports, log, failed, queueVars, streamVars, pageVars, leaves>>

\* cb() with a phase and its progress, which goes to the row first, or, from
\* the monitor, with a warning.
Reports(th) ==
    /\ at[th] = "running" /\ at["zap"] # "queued"
    /\ reports < MaxReports /\ reports' = reports + 1
    /\ at' = [at EXCEPT ![th] = "checking"]
    /\ UNCHANGED <<ended, cancelled, log, failed, queueVars, streamVars, pageVars, leaves>>

\* _check_cancel calls cb(..., -1): at the start and when the scanners are done.
Cancels ==
    /\ at["main"] = "running"
    /\ cancelled' = TRUE
    /\ at' = [at EXCEPT !["main"] = "checking"]
    /\ UNCHANGED <<ended, reports, log, failed, queueVars, streamVars, pageVars, leaves>>

\* The event a thread pushes, and where it goes on: the exception of
\* _check_cancel ends the scan.
EventOf(th) ==
    IF th = "monitor" THEN "warning"
    ELSE IF th = "main" /\ cancelled THEN "end" ELSE "progress"

After(th) == IF th = "main" /\ cancelled THEN "returned" ELSE "running"

\* "if job_id in _job_sse_queues": no, and the event is dropped, or yes.
Checks(th) ==
    /\ at[th] = "checking"
    /\ \/ /\ registered = NoQueue
          /\ at' = [at EXCEPT ![th] = After(th)]
          /\ log' = Append(log, EventOf(th))
       \/ /\ registered # NoQueue
          /\ at' = [at EXCEPT ![th] = "indexing"]
          /\ UNCHANGED log
    /\ UNCHANGED <<ended, cancelled, reports, failed, queueVars, streamVars, pageVars, leaves>>

\* "_job_sse_queues[job_id]" and call_soon_threadsafe: the entry may be gone by
\* now, and the exception ends the thread.
Schedules(th) ==
    /\ at[th] = "indexing"
    /\ Push(EventOf(th))
    /\ \/ registered = NoQueue /\ at' = [at EXCEPT ![th] = "returned"] /\ failed' = failed \union {th}
       \/ registered # NoQueue /\ at' = [at EXCEPT ![th] = After(th)] /\ UNCHANGED failed
    /\ UNCHANGED <<ended, cancelled, reports, registered, contents, streamVars, pageVars, leaves>>

\* The worker has made all its reports, or was cancelled or failed earlier.  Of
\* the other threads, one that has returned only reports nothing more.
Returns ==
    /\ at["main"] = "running"
    /\ at' = [at EXCEPT !["main"] = "returned"]
    /\ UNCHANGED <<ended, cancelled, reports, log, failed, queueVars, streamVars, pageVars, leaves>>

\* _run_scan writes the final status and pushes the last event; the ZAP thread
\* and the monitor of a scan that was cancelled or failed may still be running.
Finish ==
    /\ at["main"] = "returned"
    /\ ~ended
    /\ ended' = TRUE
    /\ Push("end")
    /\ UNCHANGED <<at, cancelled, reports, failed, registered, contents, streamVars, pageVars, leaves>>

\* put_nowait.  What goes to a queue nobody will read is not kept.
Put(item) ==
    contents' = IF item[1] \in Used THEN [contents EXCEPT ![item[1]] = Append(@, item[2])]
                ELSE contents

\* Mutated form of LoopPuts: the call scheduled last goes first.
LoopPutsLast ==
    LET last == ready[Len(ready)] IN
    /\ ready # <<>>
    /\ ready' = SubSeq(ready, 1, Len(ready) - 1)
    /\ Put(last)
    /\ UNCHANGED <<scanVars, registered, streamVars, pageVars, leaves>>

\* The loop runs the next scheduled put_nowait.
LoopPuts ==
    /\ ready # <<>>
    /\ ready' = Tail(ready)
    /\ Put(Head(ready))
    /\ UNCHANGED <<scanVars, registered, streamVars, pageVars, leaves>>

-----------------------------------------------------------------------------
(* The streams: api_scan_events and its _generator *)

\* A response with the row's status is on its way to p: fetchAndUpdate.
Fetch(p) == fetches' = [fetches EXCEPT ![p] = @ \union {Status}]

\* The page's handler of an event.  The bar and the badge of a bare card are
\* not there to be updated; the first progress has the whole card fetched.
Receive(p, kind) ==
    /\ page' = IF kind = "end" THEN [page EXCEPT ![p] = "left"] ELSE page
    /\ shows' = IF kind = "progress" /\ card[p] = "badge"
                THEN [shows EXCEPT ![p] = "active"] ELSE shows
    /\ IF \/ kind = "end"
          \/ kind = "progress" /\ \A n \in received[p] : log[n] # "progress"
       THEN Fetch(p) ELSE UNCHANGED fetches
    /\ UNCHANGED <<card, lost>>

\* A generator that reads q starts to serve p.
Open(p, q) ==
    /\ \E s \in Streams : stream[s] = "free"
    /\ stream' = [stream EXCEPT ![FreeSlot] = "open"]
    /\ owner' = [owner EXCEPT ![FreeSlot] = p]
    /\ streamQueue' = [streamQueue EXCEPT ![FreeSlot] = q]
    /\ registered' = q
    /\ page' = [page EXCEPT ![p] = "watching"]
    /\ UNCHANGED <<card, shows, fetches, lost>>

\* Mutated form of Connect: every connection has a queue of its own.
ConnectToNewQueue(p) ==
    /\ page[p] = "loaded"
    /\ ~ended /\ Fresh # {}
    /\ Open(p, NewQueue)
    /\ UNCHANGED <<scanVars, contents, ready, received, leaves>>

\* connectSSE and the endpoint: a job that has ended is answered at once, else
\* the job's queue is reused or created.
Connect(p) ==
    /\ page[p] = "loaded"
    /\ \/ ended /\ Receive(p, "end") /\ UNCHANGED <<streamVars, registered>>
       \/ ~ended /\ registered # NoQueue /\ Open(p, registered)
       \/ ~ended /\ registered = NoQueue /\ Fresh # {} /\ Open(p, NewQueue)
    /\ UNCHANGED <<scanVars, contents, ready, received, leaves>>

\* The queues after s has taken its turn, without what nobody will read.
Left(s, queues) ==
    [q \in Queues |-> IF \E t \in Streams \ {s} : Read(q, t) THEN queues[q] ELSE <<>>]

\* The generator's finally.
Close(s) ==
    /\ stream' = [stream EXCEPT ![s] = "free"]
    /\ streamQueue' = [streamQueue EXCEPT ![s] = NoQueue]
    /\ registered' = NoQueue
    /\ owner' = [owner EXCEPT ![s] = Nobody]

\* queue.get() returns: the event goes to the client, if it is still there.
Deliver(s) ==
    LET q == streamQueue[s]
        n == Head(contents[q])
        rest == [contents EXCEPT ![q] = Tail(@)] IN
    /\ stream[s] # "free"
    /\ contents[q] # <<>>
    /\ \/ /\ stream[s] = "open"
          /\ Receive(owner[s], log[n])
          /\ received' = [received EXCEPT ![owner[s]] = @ \union {n}]
       \/ stream[s] = "dropped" /\ UNCHANGED pageVars
    /\ IF log[n] = "end"
       THEN Close(s) /\ contents' = Left(s, rest)
       ELSE UNCHANGED <<streamVars, registered>> /\ contents' = rest
    /\ UNCHANGED <<scanVars, ready, leaves>>

\* Mutated form of TimesOut: only the ping.
TimesOutWithPing(s) ==
    /\ stream[s] = "open"
    /\ contents[streamQueue[s]] = <<>>
    /\ UNCHANGED vars

\* Twenty seconds without an event: the row is looked up; a ping changes nothing.
TimesOut(s) ==
    /\ stream[s] = "open"
    /\ contents[streamQueue[s]] = <<>>
    /\ ended
    /\ Receive(owner[s], "end")
    /\ Close(s) /\ contents' = Left(s, contents)
    /\ UNCHANGED <<scanVars, ready, received, leaves>>

\* The server notices that the client is gone.
Disconnect(s) ==
    /\ stream[s] = "dropped"
    /\ Close(s) /\ contents' = Left(s, contents)
    /\ UNCHANGED <<scanVars, ready, pageVars, leaves>>

-----------------------------------------------------------------------------
(* The pages *)

Drop(p) == stream' = [s \in Streams |-> IF s \in StreamOf(p) THEN "dropped" ELSE stream[s]]

Leave == leaves < MaxLeaves /\ leaves' = leaves + 1

\* The page is loaded again and shows the row; it connects if the job is active.
Reload(p) ==
    /\ Leave
    /\ Drop(p)
    /\ page' = [page EXCEPT ![p] = IF ended THEN "left" ELSE "loaded"]
    /\ card' = [card EXCEPT ![p] = "badge"]
    /\ shows' = [shows EXCEPT ![p] = Status]
    /\ fetches' = [fetches EXCEPT ![p] = {}]
    /\ received' = [received EXCEPT ![p] = {}]
    /\ UNCHANGED <<scanVars, queueVars, streamQueue, owner, lost>>

\* es.onerror: the connection broke, the page polls from now on.
ConnectionBreaks(p) ==
    /\ page[p] = "watching"
    /\ Leave
    /\ Drop(p)
    /\ page' = [page EXCEPT ![p] = "polling"]
    /\ UNCHANGED <<scanVars, queueVars, streamQueue, owner, card, shows, fetches, received, lost>>

\* Mutated form of Refresh: only the pages that poll, without the 60 s timer.
RefreshPolling(p) ==
    /\ page[p] = "polling"
    /\ Status \notin fetches[p]
    /\ Fetch(p)
    /\ UNCHANGED <<scanVars, queueVars, streamVars, page, card, shows, received, lost, leaves>>

\* Every 60 seconds, and when the tab is looked at again, for a card whose badge
\* is queued or running; every four seconds while the page polls.
Refresh(p) ==
    /\ \/ page[p] = "polling"
       \/ card[p] = "badge" /\ shows[p] = "active"
    /\ Status \notin fetches[p]
    /\ Fetch(p)
    /\ UNCHANGED <<scanVars, queueVars, streamVars, page, card, shows, received, lost, leaves>>

\* updateJobEl: responses overtake each other.  One with the end stops polling.
Show(p) ==
    \E status \in fetches[p] :
        /\ shows' = [shows EXCEPT ![p] = status]
        /\ card' = [card EXCEPT ![p] = "badge"]
        /\ fetches' = [fetches EXCEPT ![p] = @ \ {status}]
        /\ page' = [page EXCEPT ![p] = IF @ = "polling" /\ status = "end" THEN "left" ELSE @]
        /\ UNCHANGED <<scanVars, queueVars, streamVars, received, lost, leaves>>

\* fetchAndUpdate ignores a request that failed.
ResponseLost(p) ==
    /\ Leave
    /\ \E status \in fetches[p] : fetches' = [fetches EXCEPT ![p] = @ \ {status}]
    /\ lost' = IF card[p] = "bare" THEN lost \union {p} ELSE lost
    /\ UNCHANGED <<scanVars, queueVars, streamVars, page, card, shows, received>>

-----------------------------------------------------------------------------
Thread(th) == Reports(th) \/ Checks(th) \/ Schedules(th)
Scan == Start \/ Fork \/ Thread("main") \/ Cancels \/ Returns \/ Finish
Produce == Scan \/ Thread("zap") \/ Thread("monitor")

StreamStep(s) == Deliver(s) \/ TimesOut(s) \/ Disconnect(s)

Next ==
    \/ Produce
    \/ LoopPuts
    \/ \E s \in Streams : StreamStep(s)
    \/ \E p \in Pages :
          \/ Connect(p) \/ Reload(p) \/ ConnectionBreaks(p)
          \/ Refresh(p) \/ Show(p) \/ ResponseLost(p)

Spec == Init /\ [][Next]_vars

\* The scan gets its slot and goes on, the loop runs what is scheduled, get() has
\* its timeout and the page's timers fire.
Fairness ==
    /\ WF_vars(Scan) /\ WF_vars(LoopPuts)
    /\ \A s \in Streams : WF_vars(StreamStep(s))
    /\ \A p \in Pages : WF_vars(Connect(p)) /\ WF_vars(Refresh(p)) /\ WF_vars(Show(p))

FairSpec == Spec /\ Fairness
=============================================================================
