---------------------------- MODULE CveCacheProps ----------------------------
(***************************************************************************)
(* What the cache of NVD's answers promises.                               *)
(***************************************************************************)
EXTENDS CveCache

TypeOK ==
    /\ pc \in [Scans -> Places]
    /\ at \in [Scans -> Cves]
    /\ todo \in [Scans -> SUBSET Cves]
    /\ \A s \in Scans : pc[s] \in {"index", "fetch", "mark"} => at[s] \notin todo[s]
    /\ loaded \in [Scans -> SUBSET Cves]
    /\ dicts \in [Scans \union {NoScan} -> SUBSET Cves]
    /\ cache \in Scans \union {NoScan}
    /\ dirty \in BOOLEAN
    /\ dumping \in [Scans -> Scans \union {NoScan}]
    /\ seen \in [Scans -> SUBSET Cves]
    /\ torn \subseteq Scans
    /\ file \subseteq Cves
    /\ fetched \in [Scans -> SUBSET Cves]
    /\ enriched \in [Scans -> SUBSET Cves]
    /\ overlapped \in BOOLEAN
    /\ faults \in 0..MaxFaults

Answered == UNION {fetched[s] : s \in Scans}
Quiet == \A s \in Scans : ~InStage(s)

\* What is remembered, in any dictionary or in the file, and what a finding was
\* given, NVD has answered: a request that failed is asked again, whatever the
\* other scans, failing writes and crashes do in between.
OnlyAnswers ==
    /\ file \subseteq Answered
    /\ \A s \in Scans \union {NoScan} : dicts[s] \subseteq Answered
    /\ \A s \in Scans : enriched[s] \subseteq Answered

\* The header, "cache: data/cve_cache.json (kept for ever, by CVE id)": when no
\* scan is in the stage, the file holds everything NVD has ever answered, as long
\* as the scans went through the stage one after the other (two at once lose
\* answers: each replaces the other's dictionary) and nothing failed.
KeptForEver == Quiet /\ ~overlapped /\ faults = 0 => Answered \subseteq file
=============================================================================
