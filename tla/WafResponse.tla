----------------------------- MODULE WafResponse -----------------------------
(***************************************************************************)
(* The answer to attacks the WAF has logged: waf_audit_parser.py,          *)
(* waf_blocklist.py, their tables in database.py, and the endpoints of     *)
(* api.py that call them.                                                  *)
(*                                                                         *)
(* A request for the security page or its API reads the whole audit log    *)
(* again and stores what is new (INSERT OR IGNORE).  What was stored just  *)
(* now, and only that, is judged: its address may be blocked, in the table *)
(* first and in the WAF's rule file then, and it may be put down for       *)
(* review.  Requests are served one at a time by the event loop, but every *)
(* statement commits on its own, and after each of them the rest may be    *)
(* missing: the database is locked, the file cannot be written, the server *)
(* dies.                                                                   *)
(*                                                                         *)
(* Time goes by in ticks of more than AUTO_BLOCK_RATE_WINDOW_SECONDS.      *)
(***************************************************************************)
EXTENDS Naturals, Sequences, FiniteSets

CONSTANTS
    Events,       \* the messages of the audit log: unique_id, rule, index
    Ips,          \* addresses
    IpOf,         \* client_ip of each event
    External,     \* addresses that may be blocked automatically
    Sensitive,    \* events of AUTO_BLOCK_RULE_IDS
    Severe,       \* events of severity high or critical, no anomaly summaries
    Threshold,    \* AUTO_BLOCK_RULE_THRESHOLD
    RateLimit,    \* AUTO_BLOCK_RATE_LIMIT
    MaxTicks, MaxFaults, MaxAdmin   \* bound the clock, failures, admin requests

ASSUME WafAssumption ==
    /\ IpOf \in [Events -> Ips]
    /\ External \subseteq Ips
    /\ Sensitive \subseteq Events /\ Severe \subseteq Events
    /\ Threshold \in Nat \ {0} /\ RateLimit \in Nat
    /\ MaxTicks \in Nat /\ MaxFaults \in Nat /\ MaxAdmin \in Nat

VARIABLES
    clock,
    log, loggedAt,         \* audit.log, and when its events happened
    events, storedAt,      \* security_events of source waf: event_id, created_at
    reviews, blocks,       \* and of source soar: the events answered
    table,                 \* waf_ip_blocklist
    file,                  \* the addresses in ip-blocklist.conf
    handler,               \* what the request being served does next
    length, position,      \* the log as it was read, and the event at hand
    blockedForRate,        \* events that had their address blocked for its rate
    faults, adminRequests

dbVars   == <<events, storedAt, reviews, blocks, table>>
timeVars == <<clock, log, loggedAt>>
loopVars == <<length, position>>
budgets  == <<faults, adminRequests>>
vars     == <<timeVars, dbVars, file, handler, loopVars, blockedForRate, budgets>>

Handlers == {"idle", "store", "judge", "rules", "announce", "review", "page", "sync"}
Current == log[position]

Of(ip, set) == {e \in set : IpOf[e] = ip}
Recent == {e \in events : storedAt[e] = clock}

Init ==
    /\ clock = 0
    /\ log = <<>> /\ loggedAt = [e \in Events |-> 0]
    /\ events = {} /\ storedAt = [e \in Events |-> 0]
    /\ reviews = {} /\ blocks = {}
    /\ table = {} /\ file = {}
    /\ handler = "idle"
    /\ length = 0 /\ position = 1
    /\ blockedForRate = {}
    /\ faults = 0 /\ adminRequests = 0

-----------------------------------------------------------------------------
(* The world around *)

Tick ==
    /\ clock < MaxTicks
    /\ clock' = clock + 1
    /\ UNCHANGED <<log, loggedAt, dbVars, file, handler, loopVars, blockedForRate, budgets>>

\* The WAF appends an event, at any time.
WafLogs ==
    \E e \in Events :
        /\ \A i \in DOMAIN log : log[i] # e
        /\ log' = Append(log, e)
        /\ loggedAt' = [loggedAt EXCEPT ![e] = clock]
        /\ UNCHANGED <<clock, dbVars, file, handler, loopVars, blockedForRate, budgets>>

-----------------------------------------------------------------------------
(* ingest_waf_audit_log *)

\* The log is read in one piece.
Ingest ==
    /\ handler = "idle"
    /\ log # <<>>
    /\ handler' = "store"
    /\ length' = Len(log)
    /\ position' = 1
    /\ UNCHANGED <<timeVars, dbVars, file, blockedForRate, budgets>>

\* The next event, or the end of the loop: admin_security goes on with the
\* rules, api_security_events and api_security_stats return.
NextEvent ==
    IF position < length
    THEN handler' = "store" /\ position' = position + 1
    ELSE handler' \in {"page", "idle"} /\ UNCHANGED position

\* Mutated form of Store: the first event known already ends the loop.
StoreStops ==
    /\ handler = "store"
    /\ IF Current \in events
       THEN handler' = "idle" /\ UNCHANGED <<events, storedAt, position>>
       ELSE /\ events' = events \union {Current}
            /\ storedAt' = [storedAt EXCEPT ![Current] = clock]
            /\ handler' = "judge"
            /\ UNCHANGED position
    /\ UNCHANGED <<timeVars, reviews, blocks, table, file, length, blockedForRate, budgets>>

\* log_security_event: an event known already is left at that.
Store ==
    /\ handler = "store"
    /\ IF Current \in events
       THEN NextEvent /\ UNCHANGED <<events, storedAt>>
       ELSE /\ events' = events \union {Current}
            /\ storedAt' = [storedAt EXCEPT ![Current] = clock]
            /\ handler' = "judge"
            /\ UNCHANGED position
    /\ UNCHANGED <<timeVars, reviews, blocks, table, file, length, blockedForRate, budgets>>

\* Mutated form of OverThreshold: one more than the threshold is needed.
OverThresholdLate(e) ==
    e \in Sensitive /\ Cardinality(Of(IpOf[e], events \intersect Sensitive)) > Threshold

\* _auto_block_reason: sensitive paths count for ever, the rate counts what was
\* stored within the window.
OverThreshold(e) ==
    e \in Sensitive /\ Cardinality(Of(IpOf[e], events \intersect Sensitive)) >= Threshold
OverRate(e) == Cardinality(Of(IpOf[e], Recent)) > RateLimit

\* _maybe_auto_block_ip, up to the row in the table.
Judge ==
    LET e == Current
        ip == IpOf[e] IN
    /\ handler = "judge"
    /\ IF ip \in External \ table /\ (OverThreshold(e) \/ OverRate(e))
       THEN /\ table' = table \union {ip}
            /\ blockedForRate' = IF OverThreshold(e) THEN blockedForRate ELSE blockedForRate \union {e}
            /\ handler' = "rules"
       ELSE handler' = "review" /\ UNCHANGED <<table, blockedForRate>>
    /\ UNCHANGED <<timeVars, events, storedAt, reviews, blocks, file, loopVars, budgets>>

\* write_blocklist_rules, from the whole table.
Rules ==
    /\ handler = "rules"
    /\ file' = table
    /\ handler' = "announce"
    /\ UNCHANGED <<timeVars, dbVars, loopVars, blockedForRate, budgets>>

\* The block's own record.
Announce ==
    /\ handler = "announce"
    /\ blocks' = blocks \union {Current}
    /\ handler' = "review"
    /\ UNCHANGED <<timeVars, events, storedAt, reviews, table, file, loopVars,
                   blockedForRate, budgets>>

\* Mutated form of Review: a blocked address needs no review.
ReviewUnlessBlocked ==
    /\ handler = "review"
    /\ reviews' = IF Current \in Severe /\ IpOf[Current] \notin table
                  THEN reviews \union {Current} ELSE reviews
    /\ NextEvent
    /\ UNCHANGED <<timeVars, events, storedAt, blocks, table, file, length,
                   blockedForRate, budgets>>

\* The record for the administrator's review.
Review ==
    /\ handler = "review"
    /\ reviews' = IF Current \in Severe THEN reviews \union {Current} ELSE reviews
    /\ NextEvent
    /\ UNCHANGED <<timeVars, events, storedAt, blocks, table, file, length,
                   blockedForRate, budgets>>

\* admin_security writes the rules in any case, and lives with a failure.
Page ==
    /\ handler = "page"
    /\ \/ file' = table /\ UNCHANGED faults
       \/ faults < MaxFaults /\ faults' = faults + 1 /\ file' \in {file, {}}
    /\ handler' = "idle"
    /\ UNCHANGED <<timeVars, dbVars, loopVars, blockedForRate, adminRequests>>

-----------------------------------------------------------------------------
(* The administrator's requests *)

\* Mutated form of Block: the rules are left to the next request.
BlockWithoutSync(ip) ==
    /\ handler = "idle"
    /\ adminRequests < MaxAdmin
    /\ adminRequests' = adminRequests + 1
    /\ table' = table \union {ip}
    /\ UNCHANGED <<timeVars, events, storedAt, reviews, blocks, file, handler,
                   loopVars, blockedForRate, faults>>

\* The form's and the API's way to add an address,
Block(ip) ==
    /\ handler = "idle"
    /\ adminRequests < MaxAdmin
    /\ adminRequests' = adminRequests + 1
    /\ table' = table \union {ip}
    /\ handler' = "sync"
    /\ UNCHANGED <<timeVars, events, storedAt, reviews, blocks, file, loopVars,
                   blockedForRate, faults>>

\* and to remove one.
Unblock(ip) ==
    /\ handler = "idle"
    /\ adminRequests < MaxAdmin
    /\ adminRequests' = adminRequests + 1
    /\ table' = table \ {ip}
    /\ handler' = "sync"
    /\ UNCHANGED <<timeVars, events, storedAt, reviews, blocks, file, loopVars,
                   blockedForRate, faults>>

\* The "apply" button.
Apply ==
    /\ handler = "idle"
    /\ adminRequests < MaxAdmin
    /\ adminRequests' = adminRequests + 1
    /\ handler' = "sync"
    /\ UNCHANGED <<timeVars, dbVars, file, loopVars, blockedForRate, faults>>

\* sync_waf_blocklist(reload=False), write_blocklist_rules.
Sync ==
    /\ handler = "sync"
    /\ file' = table
    /\ handler' = "idle"
    /\ UNCHANGED <<timeVars, dbVars, loopVars, blockedForRate, budgets>>

-----------------------------------------------------------------------------
\* The request ends with an exception, or the server dies and is started again.
\* A file being written is left as it was or empty.
Interrupted ==
    /\ handler # "idle"
    /\ faults < MaxFaults
    /\ faults' = faults + 1
    /\ handler' = "idle"
    /\ file' \in {file} \union IF handler \in {"rules", "page", "sync"} THEN {{}} ELSE {}
    /\ UNCHANGED <<timeVars, dbVars, loopVars, blockedForRate, adminRequests>>

IngestStep == Store \/ Judge \/ Rules \/ Announce \/ Review

Next ==
    \/ Tick \/ WafLogs
    \/ Ingest \/ IngestStep \/ Page
    \/ \E ip \in Ips : Block(ip) \/ Unblock(ip)
    \/ Apply \/ Sync
    \/ Interrupted

Spec == Init /\ [][Next]_vars
=============================================================================
