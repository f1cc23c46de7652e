--------------------------- MODULE CveCache_proofs ---------------------------
(***************************************************************************)
(* Proofs about the cache of NVD's answers, for any number of scans, CVEs, *)
(* slots and failures.                                                     *)
(*                                                                         *)
(* OnlyAnswers holds in every interleaving; KeptForEver while the scans go *)
(* through the stage one at a time.  Its invariant follows an answer from  *)
(* NVD to the file: at each place of the stage it says which of the copies *)
(* (the file, what was loaded, the dictionary, what is being written) has  *)
(* all the answers.                                                        *)
(***************************************************************************)
EXTENDS CveCacheProps, TLAPS

USE CveCacheAssumption DEF CveCacheAssumption

-----------------------------------------------------------------------------
(* Types *)

LEMMA InitTypeOK == Init => TypeOK
<1> SUFFICES ASSUME Init PROVE TypeOK
    OBVIOUS
<1>1. todo \in [Scans -> SUBSET Cves] /\ at \in [Scans -> Cves]
    BY DEF Init
<1>2. pc \in [Scans -> Places] /\ \A s \in Scans : pc[s] = "before"
    BY DEF Init, Places
<1>3. \A s \in Scans : pc[s] \notin {"index", "fetch", "mark"}
    BY <1>2
<1>4. faults \in 0..MaxFaults
    BY DEF Init
<1>5. /\ overlapped \in BOOLEAN /\ dirty \in BOOLEAN
      /\ loaded \in [Scans -> SUBSET Cves] /\ seen \in [Scans -> SUBSET Cves]
      /\ fetched \in [Scans -> SUBSET Cves] /\ enriched \in [Scans -> SUBSET Cves]
      /\ dumping \in [Scans -> Scans \union {NoScan}]
      /\ dicts \in [Scans \union {NoScan} -> SUBSET Cves]
      /\ cache \in Scans \union {NoScan} /\ torn \subseteq Scans /\ file \subseteq Cves
    BY DEF Init
<1> QED
    BY <1>1, <1>2, <1>3, <1>4, <1>5 DEF TypeOK

LEMMA NextTypeOK == TypeOK /\ [Next]_vars => TypeOK'
<1> SUFFICES ASSUME TypeOK, [Next]_vars
             PROVE  TypeOK'
    OBVIOUS
<1> USE DEF Places, Goto, locals, heap, flush
<1>1. ASSUME NEW s \in Scans, Load(s) \/ Assign(s) PROVE TypeOK'
    BY <1>1 DEF Load, Assign, TypeOK
<1>2. ASSUME NEW s \in Scans, Look(s) PROVE TypeOK'
  <2>1. PICK c \in todo[s] :
           /\ at' = [at EXCEPT ![s] = c]
           /\ todo' = [todo EXCEPT ![s] = @ \ {c}]
           /\ pc' = [pc EXCEPT ![s] = IF c \in Cached THEN "index" ELSE "fetch"]
      BY <1>2 DEF Look
  <2>2. c \in Cves
      BY <2>1 DEF TypeOK
  <2>3. UNCHANGED <<loaded, fetched, enriched, heap, flush, file, faults, overlapped>>
      BY <1>2 DEF Look
  <2> QED
      BY <2>1, <2>2, <2>3 DEF TypeOK
<1>3. ASSUME NEW s \in Scans, Index(s) \/ Mark(s) PROVE TypeOK'
  <2>1. /\ \E place \in {"look", "failed"} : pc' = [pc EXCEPT ![s] = place]
        /\ enriched' = enriched \/ enriched' = [enriched EXCEPT ![s] = @ \union {at[s]}]
        /\ dirty' = dirty \/ dirty' = TRUE
        /\ UNCHANGED <<at, todo, loaded, fetched, dicts, cache, flush, file, faults, overlapped>>
      BY <1>3 DEF Index, Mark
  <2>2. pc' \in [Scans -> Places] /\ enriched' \in [Scans -> SUBSET Cves]
      BY <2>1 DEF TypeOK
  <2>3. \A t \in Scans : pc'[t] \in {"index", "fetch", "mark"} => at[t] \notin todo[t]
      BY <2>1 DEF TypeOK
  <2>4. dirty' \in BOOLEAN
      BY <2>1 DEF TypeOK
  <2> QED
      BY <2>1, <2>2, <2>3, <2>4 DEF TypeOK
<1>4. ASSUME NEW s \in Scans, Fetch(s) PROVE TypeOK'
    BY <1>4 DEF Fetch, TypeOK
<1>5. ASSUME NEW s \in Scans, Flush(s) \/ Clean(s) PROVE TypeOK'
  <2>1. /\ \E place \in {"open", "done"} : pc' = [pc EXCEPT ![s] = place]
        /\ dumping' = dumping \/ dumping' = [dumping EXCEPT ![s] = cache]
        /\ dirty' = dirty \/ dirty' = FALSE
        /\ UNCHANGED <<locals, dicts, cache, seen, torn, file, faults, overlapped>>
      BY <1>5 DEF Flush, Clean
  <2>2. pc' \in [Scans -> Places] /\ dumping' \in [Scans -> Scans \union {NoScan}]
      BY <2>1 DEF TypeOK
  <2>3. \A t \in Scans : pc'[t] \in {"index", "fetch", "mark"} => at[t] \notin todo[t]
      BY <2>1 DEF TypeOK
  <2>4. dirty' \in BOOLEAN
      BY <2>1 DEF TypeOK
  <2> QED
      BY <2>1, <2>2, <2>3, <2>4 DEF TypeOK
<1>6. ASSUME NEW s \in Scans, Open(s) PROVE TypeOK'
    BY <1>6 DEF Open, TypeOK, Writing
<1>7. ASSUME NEW s \in Scans, Write(s) \/ WriteFails(s) PROVE TypeOK'
    BY <1>7 DEF Write, WriteFails, TypeOK
<1>8. CASE Crash
  <2>1. /\ pc' = [s \in Scans |-> IF InStage(s) THEN "failed" ELSE pc[s]]
        /\ cache' = NoScan /\ dicts' = [dicts EXCEPT ![NoScan] = {}] /\ dirty' = FALSE
        /\ faults' \in 0..MaxFaults
        /\ UNCHANGED <<locals, flush, file, overlapped>>
      BY <1>8 DEF Crash, TypeOK
  <2>2. pc' \in [Scans -> Places] /\ \A s \in Scans : pc'[s] \notin {"index", "fetch", "mark"}
      BY <2>1 DEF TypeOK, InStage
  <2> QED
      BY <2>1, <2>2 DEF TypeOK
<1>9. CASE UNCHANGED vars
    BY <1>9 DEF vars, TypeOK
<1> QED
    BY <1>1, <1>2, <1>3, <1>4, <1>5, <1>6, <1>7, <1>8, <1>9 DEF Next, Step

\* Every variable keeps its type, and the CVE a scan looks at is no longer on
\* the list of those to come.
THEOREM TypeCorrect == Spec => []TypeOK
BY InitTypeOK, NextTypeOK, PTL DEF Spec

-----------------------------------------------------------------------------
(* Nothing but answers *)

\* NVD's answers only grow: by the one that was fetched.
LEMMA AnswersGrow ==
    ASSUME TypeOK, NEW s \in Scans, NEW c,
           fetched' = [fetched EXCEPT ![s] = @ \union {c}]
    PROVE  Answered' = Answered \union {c}
BY DEF TypeOK, Answered

LEMMA OtherwiseAnswersStay ==
    ASSUME UNCHANGED fetched
    PROVE  Answered' = Answered
BY DEF Answered

\* Every copy, those of scans that were interrupted included, and the answer
\* that is not marked yet.
AnswersInv ==
    /\ file \subseteq Answered
    /\ \A s \in Scans \union {NoScan} : dicts[s] \subseteq Answered
    /\ \A s \in Scans : loaded[s] \union seen[s] \union enriched[s] \subseteq Answered
    /\ \A s \in Scans : pc[s] = "mark" => at[s] \in Answered

LEMMA NextAnswersInv == TypeOK /\ AnswersInv /\ [Next]_vars => AnswersInv'
<1> SUFFICES ASSUME TypeOK, AnswersInv, [Next]_vars
             PROVE  AnswersInv'
    OBVIOUS
<1> USE DEF Goto, locals, heap, flush
<1>1. ASSUME NEW s \in Scans, Fetch(s) PROVE AnswersInv'
  <2>1. CASE /\ dicts' = [dicts EXCEPT ![cache] = @ \union {at[s]}]
             /\ fetched' = [fetched EXCEPT ![s] = @ \union {at[s]}]
             /\ pc' = [pc EXCEPT ![s] = "mark"]
    <3>1. Answered' = Answered \union {at[s]}
        BY <2>1, AnswersGrow
    <3>2. UNCHANGED <<at, loaded, seen, enriched, file>>
        BY <1>1 DEF Fetch
    <3> QED
        BY <2>1, <3>1, <3>2 DEF AnswersInv, TypeOK
  <2>2. CASE pc' = [pc EXCEPT ![s] = "look"] /\ UNCHANGED <<dicts, fetched>>
    <3>1. Answered' = Answered
        BY <2>2, OtherwiseAnswersStay
    <3>2. UNCHANGED <<at, loaded, seen, enriched, file>>
        BY <1>1 DEF Fetch
    <3> QED
        BY <2>2, <3>1, <3>2 DEF AnswersInv, TypeOK
  <2> QED
      BY <1>1, <2>1, <2>2 DEF Fetch
<1>2. ASSUME UNCHANGED fetched, ~\E s \in Scans : Fetch(s)
      PROVE  AnswersInv'
  <2>1. Answered' = Answered
      BY <1>2, OtherwiseAnswersStay
  <2>2. ASSUME NEW s \in Scans, Load(s) \/ Assign(s) PROVE AnswersInv'
      BY <2>1, <2>2 DEF Load, Assign, AnswersInv, TypeOK
  <2>3. ASSUME NEW s \in Scans, Look(s) PROVE AnswersInv'
    <3>1. /\ \E place \in {"index", "fetch"} : pc' = [pc EXCEPT ![s] = place]
          /\ \A t \in Scans \ {s} : at'[t] = at[t]
          /\ UNCHANGED <<loaded, seen, enriched, dicts, file>>
        BY <2>3 DEF Look, TypeOK
    <3> QED
        BY <2>1, <3>1 DEF AnswersInv, TypeOK
  <2>4. ASSUME NEW s \in Scans, Index(s) \/ Mark(s) PROVE AnswersInv'
    <3>1. at[s] \in Cached \/ pc[s] = "mark" => at[s] \in Answered
        BY DEF AnswersInv, TypeOK, Cached
    <3> QED
        BY <2>1, <2>4, <3>1 DEF Index, Mark, AnswersInv, TypeOK
  <2>5. ASSUME NEW s \in Scans, Flush(s) \/ Clean(s) PROVE AnswersInv'
      BY <2>1, <2>5 DEF Flush, Clean, AnswersInv, TypeOK
  <2>6. ASSUME NEW s \in Scans, Open(s) PROVE AnswersInv'
      BY <2>1, <2>6 DEF Open, AnswersInv, TypeOK
  <2>7. ASSUME NEW s \in Scans, Write(s) \/ WriteFails(s) PROVE AnswersInv'
      BY <2>1, <2>7 DEF Write, WriteFails, AnswersInv, TypeOK
  <2>8. CASE Crash
      BY <2>1, <2>8 DEF Crash, AnswersInv, TypeOK
  <2>9. CASE UNCHANGED vars
      BY <2>1, <2>9 DEF vars, AnswersInv
  <2> QED
      BY <1>2, <2>2, <2>3, <2>4, <2>5, <2>6, <2>7, <2>8, <2>9 DEF Next, Step
<1>3. (\E s \in Scans : Fetch(s)) \/ UNCHANGED fetched
    BY DEF Next, Step, Load, Assign, Look, Index, Mark, Flush, Open, Write, WriteFails, Clean,
           Crash, vars
<1> QED
    BY <1>1, <1>2, <1>3

\* cve_enricher.py, enrich_cve: what is in a dictionary, in the file or on a
\* finding, NVD has answered, whatever scans do at once, and whatever writes fail
\* and crashes come between.
THEOREM OnlyAnswersAreKept == Spec => []OnlyAnswers
<1>1. Init => AnswersInv
    BY DEF Init, AnswersInv
<1>2. AnswersInv => OnlyAnswers
    BY DEF AnswersInv, OnlyAnswers
<1> QED
    BY InitTypeOK, NextTypeOK, NextAnswersInv, <1>1, <1>2, PTL DEF Spec

-----------------------------------------------------------------------------
(* Kept for ever, while the scans come one after the other *)

Serial == faults = 0 /\ ~overlapped

Alone == \A s, t \in Scans : InStage(s) /\ InStage(t) => s = t

\* Where all the answers are, at each place of the stage.
KeepsAnswers(s) ==
    /\ pc[s] = "assign" => Answered \subseteq loaded[s]
    /\ pc[s] \in {"look", "index", "fetch", "mark"} => Answered \subseteq Cached
    /\ pc[s] = "index" => at[s] \in Cached
    /\ pc[s] \in {"assign", "look", "index", "fetch"} => dirty \/ Answered \subseteq file
    /\ pc[s] = "open" => Answered \subseteq dicts[dumping[s]]
    /\ pc[s] = "write" => /\ Answered \subseteq seen[s]
                          /\ seen[s] = dicts[dumping[s]] /\ s \notin torn
    /\ pc[s] = "clean" => Answered \subseteq file

KeptInv ==
    Serial => /\ Alone
              /\ Quiet => Answered \subseteq file
              /\ \A s \in Scans : KeepsAnswers(s)

\* Two scans in the stage at once, and failures, are counted for ever.
LEMMA SerialBefore ==
    ASSUME TypeOK, [Next]_vars, Serial'
    PROVE  /\ Serial
           /\ ~Crash /\ \A s \in Scans : ~WriteFails(s)
           /\ \A s \in Scans : Load(s) => Quiet
<1>1. faults \in Nat /\ faults' = 0 /\ ~overlapped'
    BY DEF TypeOK, Serial
<1>2. ~Crash /\ \A s \in Scans : ~WriteFails(s)
    BY <1>1 DEF Crash, WriteFails
<1>3. faults' = faults
    BY <1>2 DEF Next, Step, Load, Assign, Look, Index, Fetch, Mark, Flush, Open, Write, Clean, vars
<1>4. \A s \in Scans : Load(s) => ~overlapped /\ Quiet
    BY <1>1 DEF Load, Quiet
<1>5. (\E s \in Scans : Load(s)) \/ overlapped' = overlapped
    BY <1>2 DEF Next, Step, Assign, Look, Index, Fetch, Mark, Flush, Open, Write, Clean, vars
<1> QED
    BY <1>1, <1>2, <1>3, <1>4, <1>5 DEF Serial

\* The only scan in the stage is the one that steps, so that it alone is left to
\* look at.
LEMMA OnlyOneMoves ==
    ASSUME TypeOK, NEW s \in Scans,
           \A t \in Scans \ {s} : ~InStage(t) /\ pc'[t] = pc[t],
           KeepsAnswers(s)',
           ~InStage(s)' => (Answered \subseteq file)'
    PROVE  KeptInv'
<1>1. \A t \in Scans \ {s} : ~InStage(t)' /\ KeepsAnswers(t)'
    BY DEF InStage, KeepsAnswers
<1>2. Alone'
    BY <1>1 DEF Alone
<1>3. Quiet' => (Answered \subseteq file)'
    BY DEF Quiet
<1> QED
    BY <1>1, <1>2, <1>3 DEF KeptInv

LEMMA NextKeptInv == TypeOK /\ KeptInv /\ [Next]_vars => KeptInv'
<1> SUFFICES ASSUME TypeOK, KeptInv, [Next]_vars, Serial'
             PROVE  KeptInv'
    BY DEF KeptInv
<1> USE DEF Goto, locals, heap, flush
<1>1. /\ Serial /\ ~Crash
      /\ \A s \in Scans : ~WriteFails(s) /\ (Load(s) => Quiet)
    BY SerialBefore
<1>2. /\ Alone
      /\ Quiet => Answered \subseteq file
      /\ \A s \in Scans : KeepsAnswers(s)
    BY <1>1 DEF KeptInv
<1>3. ASSUME NEW s \in Scans, Step(s), ~Fetch(s)
      PROVE  KeptInv'
  <2>1. \A t \in Scans \ {s} : ~InStage(t) /\ pc'[t] = pc[t]
    <3>1. InStage(s) \/ Load(s)
        BY <1>3 DEF Step, InStage, Load, Assign, Look, Index, Fetch, Mark, Flush, Open, Write,
                    WriteFails, Clean
    <3>2. \A t \in Scans \ {s} : ~InStage(t)
        BY <1>1, <1>2, <3>1 DEF Alone, Quiet
    <3>3. \E place \in Places : pc' = [pc EXCEPT ![s] = place]
        BY <1>3 DEF Step, Places, Load, Assign, Look, Index, Fetch, Mark, Flush, Open, Write,
                    WriteFails, Clean
    <3> QED
        BY <3>2, <3>3 DEF TypeOK
  <2>2. Answered' = Answered
    <3>1. UNCHANGED fetched
        BY <1>3 DEF Step, Load, Assign, Look, Index, Mark, Flush, Open, Write, WriteFails, Clean
    <3> QED
        BY <3>1, OtherwiseAnswersStay
  <2>3. KeepsAnswers(s)
      BY <1>2
  <2>4. CASE Load(s)
    <3>1. pc'[s] = "assign" /\ loaded'[s] = file /\ UNCHANGED file
        BY <2>4 DEF Load, TypeOK
    <3>2. Answered \subseteq file
        BY <1>1, <1>2, <2>4
    <3>3. KeepsAnswers(s)'
        BY <2>2, <3>1, <3>2 DEF KeepsAnswers
    <3> QED
        BY <2>1, <3>1, <3>3, OnlyOneMoves DEF InStage
  <2>5. CASE Assign(s)
    <3>1. /\ pc[s] = "assign" /\ pc'[s] = "look"
          /\ Cached' = loaded[s] /\ UNCHANGED <<dirty, file>>
        BY <2>5 DEF Assign, TypeOK, Cached
    <3>2. KeepsAnswers(s)'
        BY <2>2, <2>3, <3>1 DEF KeepsAnswers
    <3> QED
        BY <2>1, <3>1, <3>2, OnlyOneMoves DEF InStage
  <2>6. CASE Look(s)
    <3>1. /\ pc[s] = "look" /\ pc'[s] \in {"index", "fetch"}
          /\ pc'[s] = "index" => at'[s] \in Cached
          /\ UNCHANGED <<dicts, cache, dirty, file>>
        BY <2>6 DEF Look, TypeOK
    <3>2. KeepsAnswers(s)'
        BY <2>2, <2>3, <3>1 DEF KeepsAnswers, Cached
    <3> QED
        BY <2>1, <3>1, <3>2, OnlyOneMoves DEF InStage
  <2>7. CASE Index(s)
    <3>1. /\ pc[s] = "index" /\ pc'[s] = "look"
          /\ UNCHANGED <<dicts, cache, dirty, file>>
        BY <2>3, <2>7 DEF Index, TypeOK, KeepsAnswers
    <3>2. KeepsAnswers(s)'
        BY <2>2, <2>3, <3>1 DEF KeepsAnswers, Cached
    <3> QED
        BY <2>1, <3>1, <3>2, OnlyOneMoves DEF InStage
  <2>8. CASE Mark(s)
    <3>1. /\ pc[s] = "mark" /\ pc'[s] = "look" /\ dirty'
          /\ UNCHANGED <<dicts, cache, file>>
        BY <2>8 DEF Mark, TypeOK
    <3>2. KeepsAnswers(s)'
        BY <2>2, <2>3, <3>1 DEF KeepsAnswers, Cached
    <3> QED
        BY <2>1, <3>1, <3>2, OnlyOneMoves DEF InStage
  <2>9. CASE Flush(s)
    <3>1. /\ pc[s] = "look" /\ UNCHANGED <<dicts, cache, dirty, file>>
          /\ \/ pc'[s] = "open" /\ dumping'[s] = cache
             \/ pc'[s] = "done" /\ ~dirty
        BY <2>9 DEF Flush, TypeOK
    <3>2. KeepsAnswers(s)'
        BY <2>2, <2>3, <3>1 DEF KeepsAnswers, Cached
    <3>3. pc'[s] = "done" => (Answered \subseteq file)'
        BY <2>2, <2>3, <3>1 DEF KeepsAnswers
    <3> QED
        BY <2>1, <3>1, <3>2, <3>3, OnlyOneMoves DEF InStage
  <2>10. CASE Open(s)
    <3>1. /\ pc[s] = "open" /\ pc'[s] = "write" /\ UNCHANGED <<dicts, dumping>>
          /\ seen'[s] = dicts[dumping[s]]
          /\ torn' = IF Writing = {} THEN torn \ {s} ELSE torn \union Writing \union {s}
        BY <2>10 DEF Open, TypeOK
    <3>2. Writing = {}
        BY <2>1, <3>1 DEF Writing, InStage
    <3>3. KeepsAnswers(s)'
        BY <2>2, <2>3, <3>1, <3>2 DEF KeepsAnswers
    <3> QED
        BY <2>1, <3>1, <3>3, OnlyOneMoves DEF InStage
  <2>11. CASE Write(s)
    <3>1. /\ pc[s] = "write" /\ pc'[s] = "clean"
          /\ file' = seen[s] \/ s \in torn \/ dicts[dumping[s]] # seen[s]
        BY <2>11 DEF Write, TypeOK
    <3>2. KeepsAnswers(s)'
        BY <2>2, <2>3, <3>1 DEF KeepsAnswers
    <3> QED
        BY <2>1, <3>1, <3>2, OnlyOneMoves DEF InStage
  <2>12. CASE Clean(s)
    <3>1. pc[s] = "clean" /\ pc'[s] = "done" /\ UNCHANGED file
        BY <2>12 DEF Clean, TypeOK
    <3>2. KeepsAnswers(s)' /\ (Answered \subseteq file)'
        BY <2>2, <2>3, <3>1 DEF KeepsAnswers
    <3> QED
        BY <2>1, <3>2, OnlyOneMoves
  <2> QED
      BY <1>1, <1>3, <2>4, <2>5, <2>6, <2>7, <2>8, <2>9, <2>10, <2>11, <2>12 DEF Step
<1>4. ASSUME NEW s \in Scans, Fetch(s)
      PROVE  KeptInv'
  <2>1. pc[s] = "fetch" /\ pc'[s] \in {"mark", "look"} /\ UNCHANGED <<cache, dirty, file>>
      BY <1>4 DEF Fetch, TypeOK
  <2>2. \A t \in Scans \ {s} : ~InStage(t) /\ pc'[t] = pc[t]
      BY <1>2, <1>4, <2>1 DEF Alone, InStage, Fetch, TypeOK
  <2>3. KeepsAnswers(s)
      BY <1>2
  <2>4. \/ /\ Answered' = Answered \union {at[s]} /\ Cached' = Cached \union {at[s]}
           /\ pc'[s] = "mark"
        \/ Answered' = Answered /\ Cached' = Cached
    <3>1. CASE /\ dicts' = [dicts EXCEPT ![cache] = @ \union {at[s]}]
               /\ fetched' = [fetched EXCEPT ![s] = @ \union {at[s]}]
               /\ pc' = [pc EXCEPT ![s] = "mark"]
      <4>1. Answered' = Answered \union {at[s]}
          BY <3>1, AnswersGrow
      <4>2. Cached' = Cached \union {at[s]} /\ pc'[s] = "mark"
          BY <2>1, <3>1 DEF Cached, TypeOK
      <4> QED
          BY <4>1, <4>2
    <3>2. CASE UNCHANGED <<dicts, fetched>>
        BY <2>1, <3>2, OtherwiseAnswersStay DEF Cached
    <3> QED
        BY <1>4, <3>1, <3>2 DEF Fetch
  <2>5. KeepsAnswers(s)'
      BY <2>1, <2>3, <2>4 DEF KeepsAnswers
  <2> QED
      BY <2>1, <2>2, <2>5, OnlyOneMoves DEF InStage
<1>5. CASE UNCHANGED vars
  <2>1. Answered' = Answered
      BY <1>5, OtherwiseAnswersStay DEF vars
  <2> QED
      BY <1>2, <1>5, <2>1 DEF KeptInv, vars, Alone, Quiet, InStage, KeepsAnswers, Cached
<1> QED
    BY <1>1, <1>3, <1>4, <1>5 DEF Next

\* The header of cve_enricher.py, "kept for ever, by CVE id": between two scans
\* the file holds every answer NVD has given, while scans go through the stage
\* one after the other and nothing fails.
THEOREM AnswersAreKeptForEver == Spec => []KeptForEver
<1>1. Init => KeptInv
  <2> SUFFICES ASSUME Init PROVE KeptInv
      OBVIOUS
  <2>1. Answered = {} /\ \A s \in Scans : pc[s] = "before"
      BY DEF Init, Answered
  <2> QED
      BY <2>1 DEF KeptInv, Alone, InStage, KeepsAnswers
<1>2. KeptInv => KeptForEver
    BY DEF KeptInv, KeptForEver, Serial
<1> QED
    BY InitTypeOK, NextTypeOK, NextKeptInv, <1>1, <1>2, PTL DEF Spec
=============================================================================
