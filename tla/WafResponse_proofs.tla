-------------------------- MODULE WafResponse_proofs --------------------------
(***************************************************************************)
(* Proofs about the answer to attacks, for any log, thresholds, number of  *)
(* failures and of administrators' requests.                               *)
(*                                                                         *)
(* What holds between two requests is broken and mended within one, so the *)
(* invariants say what is still owed at each place of the loop over the    *)
(* log: to the event at hand, and to nobody else.                          *)
(***************************************************************************)
EXTENDS WafResponseProps, SequenceTheorems, FiniteSetTheorems, TLAPS

USE WafAssumption DEF WafAssumption

-----------------------------------------------------------------------------
(* Types, and the place in the log *)

\* The events that were stored and not done with.
AtEvent == handler \in {"judge", "rules", "announce", "review"}

\* The loop is somewhere in the log as it was read; what it has passed and what
\* it has at hand is stored.
LoopInv ==
    /\ InLoop => position <= length
    /\ InLoop => \A i \in 1..(position - 1) : log[i] \in events
    /\ AtEvent => Current \in events

TypeInv == TypeOK /\ LoopInv

LEMMA InitTypeInv == Init => TypeInv
BY EmptySeq DEF Init, TypeInv, TypeOK, LoopInv, InLoop, AtEvent, Handlers

\* The event at hand is one of the log, and what the WAF appends to the log
\* leaves the part that was read as it is.
LEMMA CurrentInLog == TypeInv /\ InLoop => Current \in Events
<1> SUFFICES ASSUME TypeInv, InLoop PROVE Current \in Events
    OBVIOUS
<1>1. log \in Seq(Events) /\ position \in 1..Len(log)
    BY LenProperties DEF TypeInv, TypeOK, LoopInv
<1> QED
    BY <1>1, ElementOfSeq DEF Current

LEMMA LogGrows ==
    ASSUME TypeInv, WafLogs
    PROVE  /\ log' \in Seq(Events) /\ Len(log') = Len(log) + 1
           /\ \A i \in 1..length : log'[i] = log[i]
           /\ loggedAt' \in [Events -> 0..MaxTicks]
           /\ InLoop => Current' = Current
           /\ UNCHANGED <<clock, dbVars, file, handler, loopVars, blockedForRate, budgets>>
<1>1. PICK e \in Events : log' = Append(log, e) /\ loggedAt' = [loggedAt EXCEPT ![e] = clock]
    BY DEF WafLogs
<1>2. UNCHANGED <<clock, dbVars, file, handler, loopVars, blockedForRate, budgets>>
    BY DEF WafLogs
<1>3. /\ log \in Seq(Events) /\ Len(log) \in Nat /\ length \in 0..Len(log)
      /\ InLoop => position \in 1..length
    BY LenProperties DEF TypeInv, TypeOK, LoopInv
<1>4. /\ log' \in Seq(Events) /\ Len(log') = Len(log) + 1
      /\ \A i \in 1..Len(log) : log'[i] = log[i]
    BY <1>1, <1>3, AppendProperties
<1>5. \A i \in 1..length : log'[i] = log[i]
    BY <1>3, <1>4
<1>6. InLoop => Current' = Current
    BY <1>2, <1>3, <1>5 DEF Current, loopVars
<1>7. loggedAt' \in [Events -> 0..MaxTicks]
    BY <1>1 DEF TypeInv, TypeOK
<1> QED
    BY <1>2, <1>4, <1>5, <1>6, <1>7

\* The loop goes on with the next event, if there is one.
LEMMA NextEventMoves ==
    ASSUME TypeInv, InLoop, Current \in events', events \subseteq events',
           NextEvent, UNCHANGED <<log, length>>
    PROVE  /\ handler' \in {"store", "page", "idle"}
           /\ position' \in 1..(length + 1)
           /\ LoopInv'
           /\ handler' # "store" => \A i \in 1..length : log[i] \in events'
<1>1. /\ length \in Nat /\ position \in Nat /\ 1 <= position /\ position <= length
      /\ \A i \in 1..(position - 1) : log[i] \in events
    BY LenProperties DEF TypeInv, TypeOK, LoopInv
<1>2. \A i \in 1..position : log[i] \in events'
  <2> SUFFICES ASSUME NEW i \in 1..position PROVE log[i] \in events'
      OBVIOUS
  <2>1. CASE i = position
      BY <2>1 DEF Current
  <2>2. CASE i # position
    <3>1. i \in 1..(position - 1)
        BY <1>1, <2>2
    <3> QED
        BY <1>1, <3>1
  <2> QED
      BY <2>1, <2>2
<1>3. CASE /\ position < length
           /\ handler' = "store" /\ position' = position + 1
  <2>1. position' <= length /\ position' - 1 = position /\ position' \in 1..(length + 1)
      BY <1>1, <1>3
  <2> QED
      BY <1>2, <1>3, <2>1 DEF LoopInv, InLoop, AtEvent
<1>4. CASE /\ ~(position < length)
           /\ handler' \in {"page", "idle"} /\ position' = position
  <2>1. position = length /\ position' \in 1..(length + 1)
      BY <1>1, <1>4
  <2> QED
      BY <1>2, <1>4, <2>1 DEF LoopInv, InLoop, AtEvent
<1> QED
    BY <1>3, <1>4 DEF NextEvent

\* Of the variables a step must leave alone for the place in the log to stay.
LEMMA LoopStays ==
    ASSUME LoopInv, UNCHANGED <<log, loopVars, events>>,
           InLoop' => InLoop, AtEvent' => AtEvent
    PROVE  LoopInv'
BY DEF LoopInv, InLoop, AtEvent, Current, loopVars

LEMMA NextTypeInv == TypeInv /\ [Next]_vars => TypeInv'
<1> SUFFICES ASSUME TypeInv, [Next]_vars
             PROVE  TypeInv'
    OBVIOUS
<1> USE DEF Handlers
<1>1. TypeOK /\ LoopInv /\ Len(log) \in Nat /\ length \in Nat
    BY LenProperties DEF TypeInv, TypeOK
<1>2. CASE Tick
  <2>1. TypeOK'
      BY <1>1, <1>2 DEF Tick, TypeOK, dbVars, loopVars, budgets
  <2>2. LoopInv'
      BY <1>1, <1>2, LoopStays DEF Tick, dbVars, InLoop, AtEvent
  <2> QED
      BY <2>1, <2>2 DEF TypeInv
<1>3. CASE WafLogs
  <2>1. TypeOK'
    <3>1. /\ log' \in Seq(Events) /\ loggedAt' \in [Events -> 0..MaxTicks]
          /\ UNCHANGED <<clock, events, storedAt, reviews, blocks, table, file, handler, length,
                         position, blockedForRate, faults, adminRequests>>
        BY <1>3, LogGrows DEF dbVars, loopVars, budgets
    <3>2. length' \in 0..Len(log')
      <4>1. Len(log') = Len(log) + 1 /\ length' = length
          BY <1>3, <3>1, LogGrows
      <4> QED
          BY <1>1, <4>1 DEF TypeOK
    <3> QED
        BY <1>1, <3>1, <3>2 DEF TypeOK
  <2>2. LoopInv'
    <3>1. UNCHANGED <<events, handler, loopVars>> /\ (InLoop => Current' = Current)
          /\ \A i \in 1..length : log'[i] = log[i]
        BY <1>3, LogGrows DEF dbVars
    <3>2. InLoop => \A i \in 1..(position - 1) : i \in 1..length
        BY <1>1 DEF TypeOK, LoopInv
    <3> QED
        BY <1>1, <3>1, <3>2 DEF LoopInv, InLoop, AtEvent, loopVars
  <2> QED
      BY <2>1, <2>2 DEF TypeInv
<1>4. CASE Ingest
  <2>1. length' = Len(log) /\ position' = 1 /\ handler' = "store" /\ log # <<>>
      BY <1>4 DEF Ingest
  <2>2. Len(log) >= 1
      BY <1>1, <2>1, EmptySeq DEF TypeOK
  <2>3. TypeOK'
      BY <1>1, <1>4, <2>1, <2>2 DEF Ingest, TypeOK, timeVars, dbVars, budgets
  <2>4. LoopInv'
      BY <2>1, <2>2 DEF LoopInv, AtEvent
  <2> QED
      BY <2>3, <2>4 DEF TypeInv
<1>5. CASE Store
  <2>1. InLoop /\ Current \in Events
      BY <1>5, CurrentInLog DEF Store, InLoop
  <2>2. CASE Current \in events
    <3>1. NextEvent /\ UNCHANGED <<timeVars, events, storedAt, reviews, blocks, table, file, length,
                                   blockedForRate, budgets>>
        BY <1>5, <2>2 DEF Store
    <3>2. /\ handler' \in {"store", "page", "idle"}
          /\ position' \in 1..(length + 1)
          /\ LoopInv'
        BY <2>1, <2>2, <3>1, NextEventMoves DEF timeVars
    <3>3. TypeOK'
        BY <1>1, <3>1, <3>2 DEF TypeOK, timeVars, budgets
    <3> QED
        BY <3>2, <3>3 DEF TypeInv
  <2>3. CASE Current \notin events
    <3>1. /\ events' = events \union {Current} /\ handler' = "judge" /\ position' = position
          /\ storedAt' = [storedAt EXCEPT ![Current] = clock]
          /\ UNCHANGED <<timeVars, reviews, blocks, table, file, length, blockedForRate, budgets>>
        BY <1>5, <2>3 DEF Store
    <3>2. TypeOK'
        BY <1>1, <2>1, <3>1 DEF TypeOK, timeVars, budgets
    <3>3. LoopInv'
        BY <1>1, <2>1, <3>1 DEF LoopInv, InLoop, AtEvent, Current, timeVars
    <3> QED
        BY <3>2, <3>3 DEF TypeInv
  <2> QED
      BY <2>2, <2>3
<1>6. CASE Judge
  <2>1. InLoop /\ AtEvent /\ Current \in Events
      BY <1>6, CurrentInLog DEF Judge, InLoop, AtEvent
  <2>2. /\ handler' \in {"rules", "review"}
        /\ table' = table \/ \E ip \in External : table' = table \union {ip}
        /\ blockedForRate' = blockedForRate \/ blockedForRate' = blockedForRate \union {Current}
        /\ UNCHANGED <<timeVars, events, storedAt, reviews, blocks, file, loopVars, budgets>>
      BY <1>6 DEF Judge
  <2>3. TypeOK'
      BY <1>1, <2>1, <2>2 DEF TypeOK, timeVars, loopVars, budgets
  <2>4. LoopInv'
      BY <1>1, <2>1, <2>2, LoopStays DEF timeVars
  <2> QED
      BY <2>3, <2>4 DEF TypeInv
<1>7. CASE Rules \/ Announce
  <2>1. InLoop /\ AtEvent /\ Current \in Events
      BY <1>7, CurrentInLog DEF Rules, Announce, InLoop, AtEvent
  <2>2. TypeOK'
      BY <1>1, <1>7, <2>1 DEF Rules, Announce, TypeOK, timeVars, dbVars, loopVars, budgets
  <2>3. LoopInv'
      BY <1>1, <1>7, <2>1, LoopStays DEF Rules, Announce, timeVars, dbVars
  <2> QED
      BY <2>2, <2>3 DEF TypeInv
<1>8. CASE Review
  <2>1. InLoop /\ Current \in events /\ Current \in Events
      BY <1>1, <1>8, CurrentInLog DEF Review, InLoop, AtEvent, LoopInv
  <2>2. /\ NextEvent
        /\ reviews' = reviews \/ reviews' = reviews \union {Current}
        /\ UNCHANGED <<timeVars, events, storedAt, blocks, table, file, length,
                       blockedForRate, budgets>>
      BY <1>8 DEF Review
  <2>3. /\ handler' \in {"store", "page", "idle"}
        /\ position' \in 1..(length + 1)
        /\ LoopInv'
      BY <2>1, <2>2, NextEventMoves DEF timeVars
  <2>4. TypeOK'
      BY <1>1, <2>1, <2>2, <2>3 DEF TypeOK, timeVars, budgets
  <2> QED
      BY <2>3, <2>4 DEF TypeInv
<1>9. CASE Page \/ Interrupted \/ Sync
  <2>1. /\ handler' = "idle" /\ file' \subseteq Ips
        /\ faults' \in 0..MaxFaults
        /\ UNCHANGED <<timeVars, dbVars, loopVars, blockedForRate, adminRequests>>
      BY <1>1, <1>9 DEF Page, Interrupted, Sync, TypeOK, budgets
  <2>2. TypeOK'
      BY <1>1, <2>1 DEF TypeOK, timeVars, dbVars, loopVars
  <2>3. LoopInv'
      BY <1>1, <2>1, LoopStays DEF timeVars, dbVars, InLoop, AtEvent
  <2> QED
      BY <2>2, <2>3 DEF TypeInv
<1>10. ASSUME Apply \/ \E ip \in Ips : Block(ip) \/ Unblock(ip)
       PROVE  TypeInv'
  <2>1. /\ handler' = "sync" /\ table' \subseteq Ips
        /\ adminRequests' \in 0..MaxAdmin
        /\ UNCHANGED <<timeVars, events, storedAt, reviews, blocks, file, loopVars, blockedForRate,
                       faults>>
      BY <1>1, <1>10 DEF Apply, Block, Unblock, TypeOK, dbVars
  <2>2. TypeOK'
      BY <1>1, <2>1 DEF TypeOK, timeVars, loopVars
  <2>3. LoopInv'
      BY <1>1, <2>1, LoopStays DEF timeVars, InLoop, AtEvent
  <2> QED
      BY <2>2, <2>3 DEF TypeInv
<1>11. CASE UNCHANGED vars
  <2>1. TypeOK'
      BY <1>1, <1>11 DEF TypeOK, vars, timeVars, dbVars, loopVars, budgets
  <2>2. LoopInv'
      BY <1>1, <1>11, LoopStays DEF vars, timeVars, dbVars, InLoop, AtEvent
  <2> QED
      BY <2>1, <2>2 DEF TypeInv
<1> QED
    BY <1>2, <1>3, <1>4, <1>5, <1>6, <1>7, <1>8, <1>9, <1>10, <1>11 DEF Next, IngestStep

\* Every variable keeps its type, and the loop stays in the part of the log it
\* has read.
THEOREM TypeCorrect == Spec => []TypeOK
<1>1. TypeInv => TypeOK
    BY DEF TypeInv
<1> QED
    BY InitTypeInv, NextTypeInv, <1>1, PTL DEF Spec

\* waf_audit_parser.py catches up: an ingest that comes to its end has stored
\* every event of the log as it was read, whatever earlier ones left out.
THEOREM IngestAlwaysCatchesUp == Spec => IngestCatchesUp
<1>1. ASSUME TypeInv, Next, Completes
      PROVE  \A i \in 1..length : log[i] \in events'
  <2>1. InLoop /\ handler' \in {"idle", "page"} /\ faults' = faults
      BY <1>1 DEF Completes
  <2>2. faults \in Nat
      BY <1>1 DEF TypeInv, TypeOK
  <2>3. ~Interrupted
      BY <2>1, <2>2 DEF Interrupted
  <2>4. CASE Store \/ Review
    <3>1. NextEvent /\ UNCHANGED <<log, length, events>> /\ Current \in events
        BY <1>1, <2>1, <2>4 DEF Store, Review, TypeInv, LoopInv, AtEvent, timeVars
    <3> QED
        BY <1>1, <2>1, <3>1, NextEventMoves
  <2>5. CASE Judge \/ Rules \/ Announce
      BY <2>1, <2>5 DEF Judge, Rules, Announce
  <2>6. CASE Tick \/ WafLogs
      BY <2>1, <2>6 DEF Tick, WafLogs, InLoop
  <2>7. CASE Ingest \/ Page \/ Sync \/ Apply \/ \E ip \in Ips : Block(ip) \/ Unblock(ip)
      BY <2>1, <2>7 DEF Ingest, Page, Sync, Apply, Block, Unblock, InLoop
  <2> QED
      BY <1>1, <2>3, <2>4, <2>5, <2>6, <2>7 DEF Next, IngestStep
<1>2. TypeInv /\ [Next]_vars => [Completes => \A i \in 1..length : log[i] \in events']_vars
    BY <1>1
<1> QED
    BY InitTypeInv, NextTypeInv, <1>2, PTL DEF Spec, IngestCatchesUp

-----------------------------------------------------------------------------
(* What is owed to the event at hand *)

\* An exception is counted for ever, and so is an administrator's request.
LEMMA CountersGrow ==
    ASSUME TypeInv, [Next]_vars
    PROVE  /\ faults' = 0 => faults = 0 /\ ~Interrupted
           /\ adminRequests' = 0 =>
                 /\ adminRequests = 0
                 /\ ~Apply /\ \A ip \in Ips : ~Block(ip) /\ ~Unblock(ip)
<1>1. faults \in Nat /\ adminRequests \in Nat
    BY DEF TypeInv, TypeOK
<1>2. Interrupted => faults' # 0
    BY <1>1 DEF Interrupted
<1>3. Apply \/ (\E ip \in Ips : Block(ip) \/ Unblock(ip)) => adminRequests' # 0
    BY <1>1 DEF Apply, Block, Unblock
<1>4. faults' = faults \/ faults' = faults + 1
    BY DEF Next, Tick, WafLogs, Ingest, IngestStep, Store, Judge, Rules, Announce, Review, Page,
           Apply, Block, Unblock, Sync, Interrupted, vars, budgets
<1>5. adminRequests' = adminRequests \/ adminRequests' = adminRequests + 1
    BY DEF Next, Tick, WafLogs, Ingest, IngestStep, Store, Judge, Rules, Announce, Review, Page,
           Apply, Block, Unblock, Sync, Interrupted, vars, budgets
<1> QED
    BY <1>1, <1>2, <1>3, <1>4, <1>5

\* The rules are owed while a row was added and the file was not written yet.
RulesInv == faults = 0 /\ handler \notin {"rules", "sync"} => file = table

LEMMA NextRulesInv == TypeInv /\ RulesInv /\ [Next]_vars => RulesInv'
<1> SUFFICES ASSUME TypeInv, RulesInv, [Next]_vars, faults' = 0, handler' \notin {"rules", "sync"}
             PROVE  file' = table'
    BY DEF RulesInv
<1>1. faults = 0 /\ ~Interrupted
    BY CountersGrow
<1>2. CASE Rules \/ Sync \/ Page
    BY <1>1, <1>2 DEF Rules, Sync, Page, dbVars
<1>3. CASE Judge
    BY <1>1, <1>3 DEF Judge, RulesInv
<1>4. CASE Tick \/ WafLogs \/ Ingest \/ Store \/ Announce \/ Review \/ UNCHANGED vars
  <2>1. UNCHANGED <<file, table>>
      BY <1>4 DEF Tick, WafLogs, Ingest, Store, Announce, Review, vars, dbVars
  <2>2. handler \notin {"rules", "sync"}
      BY <1>4 DEF Tick, WafLogs, Ingest, Store, Announce, Review, vars
  <2> QED
      BY <1>1, <2>1, <2>2 DEF RulesInv
<1>5. CASE Apply \/ \E ip \in Ips : Block(ip) \/ Unblock(ip)
    BY <1>5 DEF Apply, Block, Unblock
<1> QED
    BY <1>1, <1>2, <1>3, <1>4, <1>5 DEF Next, IngestStep

\* waf_blocklist.py: whoever changed the table last, between two requests the
\* WAF's rule file blocks exactly the addresses of the table, while no request
\* was cut off by an exception or a crash.
THEOREM RulesAlwaysFollowTable == Spec => []RulesFollowTable
<1>1. Init => RulesInv
    BY DEF Init, RulesInv
<1>2. RulesInv => RulesFollowTable
    BY DEF RulesInv, RulesFollowTable
<1> QED
    BY InitTypeInv, NextTypeInv, NextRulesInv, <1>1, <1>2, PTL DEF Spec

\* The violations that count against an address,
Violations(ip) == Of(ip, events \intersect Sensitive)

\* which are enough to block it, unless it is just going to be judged.
ThresholdInv ==
    faults = 0 /\ adminRequests = 0 =>
        \A ip \in External :
            Cardinality(Violations(ip)) >= Threshold =>
                \/ ip \in table
                \/ handler = "judge" /\ Current \in Sensitive /\ ip = IpOf[Current]

\* A new event adds a violation to its own address only.
LEMMA OtherViolations ==
    ASSUME NEW ip, NEW e \in Events, events' = events \union {e},
           e \notin Sensitive \/ ip # IpOf[e]
    PROVE  Violations(ip)' = Violations(ip)
BY DEF Violations, Of

LEMMA NextThresholdInv == TypeInv /\ ThresholdInv /\ [Next]_vars => ThresholdInv'
<1> SUFFICES ASSUME TypeInv, ThresholdInv, [Next]_vars,
                    faults' = 0, adminRequests' = 0,
                    NEW ip \in External, Cardinality(Violations(ip)') >= Threshold
             PROVE  (\/ ip \in table
                     \/ handler = "judge" /\ Current \in Sensitive /\ ip = IpOf[Current])'
    BY DEF ThresholdInv
<1>1. /\ faults = 0 /\ adminRequests = 0
      /\ ~Interrupted /\ ~Apply /\ \A i \in Ips : ~Block(i) /\ ~Unblock(i)
    BY CountersGrow
<1>2. Cardinality(Violations(ip)) >= Threshold =>
         ip \in table \/ (handler = "judge" /\ Current \in Sensitive /\ ip = IpOf[Current])
    BY <1>1 DEF ThresholdInv
<1>3. CASE Store
  <2>1. handler = "store" /\ Current \in Events /\ UNCHANGED <<log, table>>
      BY <1>3, CurrentInLog DEF Store, InLoop, timeVars
  <2>2. CASE events' = events
      BY <1>2, <2>1, <2>2 DEF Violations
  <2>3. CASE Current \notin events
    <3>1. events' = events \union {Current} /\ handler' = "judge" /\ Current' = Current
        BY <1>3, <2>1, <2>3 DEF Store, Current
    <3>2. CASE Current \in Sensitive /\ ip = IpOf[Current]
        BY <3>1, <3>2
    <3>3. CASE Current \notin Sensitive \/ ip # IpOf[Current]
      <4>1. Violations(ip)' = Violations(ip)
          BY <2>1, <3>1, <3>3, OtherViolations
      <4> QED
          BY <1>2, <2>1, <4>1
    <3> QED
        BY <3>2, <3>3
  <2> QED
      BY <1>3, <2>2, <2>3 DEF Store
<1>4. CASE Judge
  <2>1. /\ events' = events
        /\ \/ table' = table \union {IpOf[Current]}
           \/ /\ table' = table
              /\ ~(IpOf[Current] \in External \ table /\ OverThreshold(Current))
      BY <1>4 DEF Judge
  <2>2. ip \in table \/ (Current \in Sensitive /\ ip = IpOf[Current])
      BY <1>2, <2>1 DEF Violations
  <2>3. Cardinality(Of(ip, events \intersect Sensitive)) >= Threshold
      BY <2>1 DEF Violations
  <2> QED
      BY <2>1, <2>2, <2>3 DEF OverThreshold
<1>5. CASE WafLogs
  <2>1. /\ UNCHANGED <<events, table, handler>>
        /\ handler = "judge" => Current' = Current
      BY <1>5, LogGrows DEF dbVars, InLoop
  <2> QED
      BY <1>2, <2>1 DEF Violations
<1>6. CASE Tick \/ UNCHANGED vars
  <2>1. UNCHANGED <<events, table, handler, Current>>
      BY <1>6 DEF Tick, vars, timeVars, dbVars, loopVars, Current
  <2> QED
      BY <1>2, <2>1 DEF Violations
<1>7. CASE Ingest \/ Rules \/ Announce \/ Review \/ Page \/ Sync
  <2>1. UNCHANGED <<events, table>> /\ handler # "judge"
      BY <1>7 DEF Ingest, Rules, Announce, Review, Page, Sync, dbVars
  <2> QED
      BY <1>2, <2>1 DEF Violations
<1> QED
    BY <1>1, <1>3, <1>4, <1>5, <1>6, <1>7 DEF Next, IngestStep

\* waf_audit_parser.py, _auto_block_reason: no order of events, mixed with those
\* of others and spread over any number of ingests, lets an external address reach
\* the threshold of violations without being blocked, while no administrator
\* changed the table and no ingest was cut off.
THEOREM ThresholdAlwaysBlocks == Spec => []ThresholdBlocks
<1>1. Init => ThresholdInv
  <2> SUFFICES ASSUME Init, NEW ip \in External PROVE ~(Cardinality(Violations(ip)) >= Threshold)
      BY DEF ThresholdInv
  <2>1. Violations(ip) = {}
      BY DEF Init, Violations, Of
  <2> QED
      BY <2>1, FS_EmptySet
<1>2. ThresholdInv => ThresholdBlocks
    BY DEF ThresholdInv, ThresholdBlocks, Violations
<1> QED
    BY InitTypeInv, NextTypeInv, NextThresholdInv, <1>1, <1>2, PTL DEF Spec

\* Only the event at hand may still miss its record for review.
SevereInv ==
    faults = 0 =>
        \A e \in events \intersect Severe : e \in reviews \/ (AtEvent /\ e = Current)

LEMMA NextSevereInv == TypeInv /\ SevereInv /\ [Next]_vars => SevereInv'
<1> SUFFICES ASSUME TypeInv, SevereInv, [Next]_vars,
                    faults' = 0, NEW e \in events' \intersect Severe
             PROVE  (e \in reviews \/ (AtEvent /\ e = Current))'
    BY DEF SevereInv
<1>1. faults = 0 /\ ~Interrupted
    BY CountersGrow
<1>2. e \in events => e \in reviews \/ (AtEvent /\ e = Current)
    BY <1>1 DEF SevereInv
<1>3. CASE Store
  <2>1. ~AtEvent /\ reviews' = reviews
      BY <1>3 DEF Store, AtEvent
  <2>2. CASE e \in events
      BY <1>2, <2>1, <2>2
  <2>3. CASE e \notin events
    <3>1. e = Current /\ handler' = "judge" /\ Current' = Current
        BY <1>3, <2>3 DEF Store, Current, timeVars
    <3> QED
        BY <3>1 DEF AtEvent
  <2> QED
      BY <2>2, <2>3
<1>4. CASE Review
    BY <1>2, <1>4 DEF Review
<1>5. CASE Judge \/ Rules \/ Announce
  <2>1. AtEvent' /\ UNCHANGED <<events, reviews, Current>>
      BY <1>5 DEF Judge, Rules, Announce, AtEvent, Current, timeVars, dbVars, loopVars
  <2> QED
      BY <1>2, <2>1
<1>6. CASE WafLogs
  <2>1. UNCHANGED <<events, reviews, handler>> /\ (AtEvent => Current' = Current)
      BY <1>6, LogGrows DEF dbVars, InLoop, AtEvent
  <2> QED
      BY <1>2, <2>1 DEF AtEvent
<1>7. CASE Tick \/ UNCHANGED vars
  <2>1. UNCHANGED <<events, reviews, handler, Current>>
      BY <1>7 DEF Tick, vars, timeVars, dbVars, loopVars, Current
  <2> QED
      BY <1>2, <2>1 DEF AtEvent
<1>8. CASE Ingest \/ Page \/ Sync \/ Apply \/ \E ip \in Ips : Block(ip) \/ Unblock(ip)
  <2>1. UNCHANGED <<events, reviews>> /\ ~AtEvent
      BY <1>8 DEF Ingest, Page, Sync, Apply, Block, Unblock, AtEvent, dbVars
  <2> QED
      BY <1>2, <2>1
<1> QED
    BY <1>1, <1>3, <1>4, <1>5, <1>6, <1>7, <1>8 DEF Next, IngestStep

\* waf_audit_parser.py's comment, "high/critical events leave a SOAR response
\* record in addition": when an ingest comes to its end every such event stored
\* so far has its record, while none was cut off before.
THEOREM SevereAlwaysAnswered == Spec => SevereAnswered
<1>1. Init => SevereInv
    BY DEF Init, SevereInv
<1>2. ASSUME SevereInv', Completes, faults = 0
      PROVE  events' \intersect Severe \subseteq reviews'
    BY <1>2 DEF SevereInv, Completes, AtEvent
<1>3. SevereInv' /\ [Next]_vars =>
         [Completes /\ faults = 0 => events' \intersect Severe \subseteq reviews']_vars
    BY <1>2
<1> QED
    BY InitTypeInv, NextTypeInv, NextSevereInv, <1>1, <1>3, PTL DEF Spec, SevereAnswered
=============================================================================
