------------------------------ MODULE CveCache ------------------------------
(***************************************************************************)
(* The cache of NVD's answers, sls_scanner/enrichers/cve_enricher.py, and  *)
(* the CVE stage of the pipeline that uses it (init_cache, enrich_cve for  *)
(* every finding, flush_cache).                                            *)
(*                                                                         *)
(* The module's globals _cache and _cache_dirty belong to all scan threads *)
(* of the server.  _cache names a dictionary; init_cache makes it name     *)
(* another one, and threads in the middle of something find that one from  *)
(* then on, except the thread that is writing the old one to the file.     *)
(*                                                                         *)
(* A file that is empty, broken or missing is loaded as an empty cache, so *)
(* the model's file is what a load of it would return.                     *)
(***************************************************************************)
EXTENDS Naturals, FiniteSets

CONSTANTS
    Scans,       \* scans that reach the CVE stage
    NoScan,
    Cves,        \* CVE ids
    Slots,       \* scans in the stage at the same time: MAX_CONCURRENT_SCANS
    MaxFaults    \* bounds failed writes and crashes

ASSUME CveCacheAssumption ==
    /\ NoScan \notin Scans
    /\ Slots \in Nat \ {0}
    /\ MaxFaults \in Nat

VARIABLES
    pc, at,        \* a scan's place and the CVE it looks at
    todo,          \* the CVEs of its findings still to be enriched
    loaded,        \* what it read from the file
    dicts,         \* the dictionary each init_cache created, and the module's first
    cache,         \* _cache: whose dictionary
    dirty,         \* _cache_dirty
    dumping, seen, \* the dictionary a flush writes, and as it was at first
    torn,          \* flushes whose file another flush opened too
    file,
    fetched,       \* the CVEs each scan got from NVD
    enriched,      \* the CVEs each scan has data of
    overlapped,    \* history: two scans have been in the stage at once
    faults

heap   == <<dicts, cache, dirty>>
flush  == <<dumping, seen, torn>>
locals == <<at, todo, loaded, fetched, enriched>>
vars   == <<pc, locals, heap, flush, file, overlapped, faults>>

Places == {"before", "assign", "look", "index", "fetch", "mark",
           "open", "write", "clean", "done", "failed"}
InStage(s) == pc[s] \notin {"before", "done", "failed"}
Cached == dicts[cache]
Writing == {s \in Scans : pc[s] = "write"}

Goto(s, place) == pc' = [pc EXCEPT ![s] = place]

Init ==
    /\ pc = [s \in Scans |-> "before"]
    /\ at \in [Scans -> Cves] /\ \A s, t \in Scans : at[s] = at[t]
    /\ todo \in [Scans -> (SUBSET Cves) \ {{}}]
    /\ loaded = [s \in Scans |-> {}]
    /\ dicts = [s \in Scans \union {NoScan} |-> {}]
    /\ cache = NoScan
    /\ dirty = FALSE
    /\ dumping = [s \in Scans |-> NoScan]
    /\ seen = [s \in Scans |-> {}]
    /\ torn = {}
    /\ file = {}
    /\ fetched = [s \in Scans |-> {}]
    /\ enriched = [s \in Scans |-> {}]
    /\ overlapped = FALSE
    /\ faults = 0

-----------------------------------------------------------------------------
(* init_cache *)

\* Mutated form of Load: the cache starts empty.
LoadNothing(s) ==
    /\ pc[s] = "before"
    /\ Cardinality({t \in Scans : InStage(t)}) < Slots
    /\ loaded' = [loaded EXCEPT ![s] = {}]
    /\ overlapped' = (overlapped \/ \E t \in Scans : InStage(t))
    /\ Goto(s, "assign")
    /\ UNCHANGED <<at, todo, heap, flush, file, fetched, enriched, faults>>

\* _load_cache
Load(s) ==
    /\ pc[s] = "before"
    /\ Cardinality({t \in Scans : InStage(t)}) < Slots
    /\ loaded' = [loaded EXCEPT ![s] = file]
    /\ overlapped' = (overlapped \/ \E t \in Scans : InStage(t))
    /\ Goto(s, "assign")
    /\ UNCHANGED <<at, todo, heap, flush, file, fetched, enriched, faults>>

\* "_cache = ...": every thread works with this dictionary from now on.
Assign(s) ==
    /\ pc[s] = "assign"
    /\ dicts' = [dicts EXCEPT ![s] = loaded[s]]
    /\ cache' = s
    /\ Goto(s, "look")
    /\ UNCHANGED <<locals, dirty, flush, file, faults, overlapped>>

-----------------------------------------------------------------------------
(* enrich_cve, for one finding after the other *)

\* "cve_id in _cache"
Look(s) ==
    /\ pc[s] = "look"
    /\ \E c \in todo[s] :
          /\ at' = [at EXCEPT ![s] = c]
          /\ todo' = [todo EXCEPT ![s] = @ \ {c}]
          /\ Goto(s, IF c \in Cached THEN "index" ELSE "fetch")
    /\ UNCHANGED <<loaded, fetched, enriched, heap, flush, file, faults, overlapped>>

\* "_cache[cve_id]": the name is looked up again, and the KeyError of an id that
\* is gone ends the scan.
Index(s) ==
    /\ pc[s] = "index"
    /\ IF at[s] \in Cached
       THEN enriched' = [enriched EXCEPT ![s] = @ \union {at[s]}] /\ Goto(s, "look")
       ELSE Goto(s, "failed") /\ UNCHANGED enriched
    /\ UNCHANGED <<at, todo, loaded, fetched, heap, flush, file, faults, overlapped>>

\* Mutated form of Fetch: a failed request is remembered like an unknown CVE.
FetchOrRemember(s) ==
    /\ pc[s] = "fetch"
    /\ \E ok \in BOOLEAN :
          /\ dicts' = [dicts EXCEPT ![cache] = @ \union {at[s]}]
          /\ fetched' = [fetched EXCEPT ![s] = IF ok THEN @ \union {at[s]} ELSE @]
          /\ Goto(s, "mark")
    /\ UNCHANGED <<at, todo, loaded, enriched, cache, dirty, flush, file, faults, overlapped>>

\* _fetch_nvd and "_cache[cve_id] = info", or None: nothing is remembered.
Fetch(s) ==
    /\ pc[s] = "fetch"
    /\ \/ /\ dicts' = [dicts EXCEPT ![cache] = @ \union {at[s]}]
          /\ fetched' = [fetched EXCEPT ![s] = @ \union {at[s]}]
          /\ Goto(s, "mark")
       \/ Goto(s, "look") /\ UNCHANGED <<dicts, fetched>>
    /\ UNCHANGED <<at, todo, loaded, enriched, cache, dirty, flush, file, faults, overlapped>>

\* "_cache_dirty = True" and _apply_enrichment.
Mark(s) ==
    /\ pc[s] = "mark"
    /\ dirty' = TRUE
    /\ enriched' = [enriched EXCEPT ![s] = @ \union {at[s]}]
    /\ Goto(s, "look")
    /\ UNCHANGED <<at, todo, loaded, fetched, dicts, cache, flush, file, faults, overlapped>>

-----------------------------------------------------------------------------
(* flush_cache *)

\* "if _cache_dirty: _save_cache(_cache)"
Flush(s) ==
    /\ pc[s] = "look"
    /\ todo[s] = {}
    /\ IF dirty
       THEN Goto(s, "open") /\ dumping' = [dumping EXCEPT ![s] = cache]
       ELSE Goto(s, "done") /\ UNCHANGED dumping
    /\ UNCHANGED <<locals, heap, seen, torn, file, faults, overlapped>>

\* open(CACHE_PATH, "w") empties the file at once.
Open(s) ==
    /\ pc[s] = "open"
    /\ file' = {}
    /\ seen' = [seen EXCEPT ![s] = dicts[dumping[s]]]
    /\ torn' = IF Writing = {} THEN torn \ {s} ELSE torn \union Writing \union {s}
    /\ Goto(s, "write")
    /\ UNCHANGED <<locals, heap, dumping, faults, overlapped>>

\* json.dump and the end of the with block.  A dictionary that has grown since
\* may raise an error, and what two flushes write into one file may be mixed.
Write(s) ==
    /\ pc[s] = "write"
    /\ \/ file' = seen[s]
       \/ file' = {} /\ (s \in torn \/ dicts[dumping[s]] # seen[s])
    /\ Goto(s, "clean")
    /\ UNCHANGED <<locals, heap, flush, faults, overlapped>>

\* The disk is full or cannot be written: _save_cache says so, and that is all.
WriteFails(s) ==
    /\ pc[s] \in {"open", "write"}
    /\ faults < MaxFaults
    /\ faults' = faults + 1
    /\ file' = IF pc[s] = "write" THEN {} ELSE file
    /\ Goto(s, "clean")
    /\ UNCHANGED <<locals, heap, flush, overlapped>>

\* "_cache_dirty = False"
Clean(s) ==
    /\ pc[s] = "clean"
    /\ dirty' = FALSE
    /\ Goto(s, "done")
    /\ UNCHANGED <<locals, dicts, cache, flush, file, faults, overlapped>>

-----------------------------------------------------------------------------
\* The server dies and comes back: the file is left as it is, half written ones
\* included, and the scans are closed.
Crash ==
    /\ faults < MaxFaults
    /\ faults' = faults + 1
    /\ pc' = [s \in Scans |-> IF InStage(s) THEN "failed" ELSE pc[s]]
    /\ cache' = NoScan
    /\ dicts' = [dicts EXCEPT ![NoScan] = {}]
    /\ dirty' = FALSE
    /\ UNCHANGED <<locals, flush, file, overlapped>>

Step(s) ==
    \/ Load(s) \/ Assign(s)
    \/ Look(s) \/ Index(s) \/ Fetch(s) \/ Mark(s)
    \/ Flush(s) \/ Open(s) \/ Write(s) \/ WriteFails(s) \/ Clean(s)

Next == Crash \/ \E s \in Scans : Step(s)

Spec == Init /\ [][Next]_vars
=============================================================================
