--------------------------- MODULE SseChannelProps ---------------------------
(***************************************************************************)
(* What the live view of a scan promises.                                  *)
(***************************************************************************)
EXTENDS SseChannel

Kinds == {"progress", "warning", "end"}

TypeOK ==
    /\ ended \in BOOLEAN /\ cancelled \in BOOLEAN
    /\ at \in [Threads -> {"queued", "running", "checking", "indexing", "returned"}]
    /\ reports \in 0..MaxReports
    /\ log \in Seq(Kinds)
    /\ failed \subseteq Threads
    /\ registered \in Queues \union {NoQueue}
    /\ contents \in [Queues -> Seq(Nat)]
    /\ ready \in Seq(Queues \X Nat)
    /\ stream \in [Streams -> {"free", "open", "dropped"}]
    /\ streamQueue \in [Streams -> Queues \union {NoQueue}]
    /\ owner \in [Streams -> Pages]
    /\ page \in [Pages -> {"loaded", "watching", "polling", "left"}]
    /\ card \in [Pages -> {"badge", "bare"}]
    /\ shows \in [Pages -> {"active", "end"}]
    /\ fetches \in [Pages -> SUBSET {"active", "end"}]
    /\ received \in [Pages -> SUBSET Nat]
    /\ lost \subseteq Pages
    /\ leaves \in 0..MaxLeaves

Delivered == UNION {received[p] : p \in Pages}

\* Every event up to the n-th is pushed before the scan's end is announced.
BeforeEnd(n) == \A i \in 1..n : log[i] # "end"

\* "The queue is created beforehand (against a race condition)": as long as no
\* client goes away, the pages that follow a scan receive the events of its
\* threads without a gap up to the one that announces its end, however late they
\* connect and whichever of the pages that share the queue takes an event.  The
\* scan never dies of a push, and until the first page is told the end no other
\* thread does, and every open stream reads the queue the events go to.
NothingMissed ==
    leaves = 0 =>
        /\ \A n \in Delivered : \A m \in 1..n : BeforeEnd(m) => m \in Delivered
        /\ "main" \notin failed
        /\ (\A p \in Pages : page[p] # "left") =>
              failed = {} /\ \A s \in Streams : stream[s] = "open" => streamQueue[s] = registered

\* A page receives events in the order they were pushed, whoever pushed them,
\* whoever shares its queue and however often the queue was replaced.
EventsInOrder ==
    [][\A p \in Pages : \A n \in received'[p] \ received[p] :
          received[p] \subseteq received'[p] => \A m \in received[p] : m < n]_vars

\* A stream ends once the scan has, also one that reads a queue no event
\* reaches any more.
EveryStreamEnds ==
    \A s \in Streams : stream[s] # "free" ~> stream[s] = "free"

\* Every page comes to show the end and keeps showing it: neither lost events,
\* broken connections, an end announced before the row was written nor a response
\* that was overtaken leave it behind.  The exception is a page that still has the
\* verification form when its stream ends, because the response that would have
\* replaced it was lost: no timer looks at a card without a badge.
EveryPageSettles ==
    \A p \in Pages :
        <>[](shows[p] = "end" \/ (page[p] = "left" /\ card[p] = "bare" /\ p \in lost))

-----------------------------------------------------------------------------
(* Statements of comments and docstrings that the code does not keep *)

\* _push_sse_for_job, "delivers SSE events safely from any context (thread or
\* coroutine)": it never raises.
PushIsSafe == failed = {}

\* api_scan_events, "SSE stream: the scan's progress in real time": the queue an
\* open stream reads while the scan runs is the one the events go to.
OpenStreamIsFed ==
    ~ended => \A s \in Streams : stream[s] = "open" => streamQueue[s] = registered
=============================================================================
