-------------------------- MODULE WafResponseProps --------------------------
(***************************************************************************)
(* What the answer to attacks promises.                                    *)
(***************************************************************************)
EXTENDS WafResponse

TypeOK ==
    /\ clock \in 0..MaxTicks
    /\ log \in Seq(Events)
    /\ loggedAt \in [Events -> 0..MaxTicks]
    /\ events \subseteq Events /\ storedAt \in [Events -> 0..MaxTicks]
    /\ reviews \subseteq Events /\ blocks \subseteq Events
    /\ table \subseteq Ips /\ file \subseteq Ips
    /\ handler \in Handlers
    /\ length \in 0..Len(log)
    /\ position \in 1..(length + 1)
    /\ blockedForRate \subseteq Events
    /\ faults \in 0..MaxFaults /\ adminRequests \in 0..MaxAdmin

InLoop == handler \notin {"idle", "page", "sync"}

\* The loop over the log has come to its end without an exception.
Completes == InLoop /\ handler' \in {"idle", "page"} /\ faults' = faults

\* An ingest that completes has stored every event the log held when it was
\* read, whatever an earlier one left out when it was interrupted.
IngestCatchesUp ==
    [][Completes => \A i \in 1..length : log[i] \in events']_vars

\* Between two requests, every external address with Threshold violations of
\* sensitive paths is blocked: no order of events, however mixed with others
\* and spread over ingests, slips through (as long as no administrator removes
\* an address and no ingest is interrupted).
ThresholdBlocks ==
    handler = "idle" /\ faults = 0 /\ adminRequests = 0 =>
        \A ip \in External :
            Cardinality(Of(ip, events \intersect Sensitive)) >= Threshold => ip \in table

\* Between two requests the WAF's rule file blocks what the table blocks,
\* whether an ingest, the page or an administrator changed either last (as long
\* as no ingest is interrupted).
RulesFollowTable == handler = "idle" /\ faults = 0 => file = table

\* The parser's comment, "high/critical events leave a SOAR response record in
\* addition": an ingest that completes leaves no such event unanswered (as long
\* as none was interrupted before).
SevereAnswered ==
    [][Completes /\ faults = 0 => events' \intersect Severe \subseteq reviews']_vars

-----------------------------------------------------------------------------
(* A message that is not true *)

\* "WAF request rate threshold exceeded (n/60s)": an address blocked for its
\* rate sent more than RateLimit requests within one window.
RateBlockIsARate ==
    \A e \in blockedForRate :
        \E t \in 0..MaxTicks :
            Cardinality({f \in Of(IpOf[e], events) : loggedAt[f] = t}) > RateLimit
=============================================================================
