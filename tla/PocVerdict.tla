----------------------------- MODULE PocVerdict -----------------------------
(***************************************************************************)
(* How a finding gets its verdict: normalizer.py, dispatch() and the       *)
(* verifiers of poc_verifier.py, and the lists into which                  *)
(* run_pipeline_with_cb splits the findings.                               *)
(*                                                                         *)
(* dispatch() looks for keywords in the name, the evidence and the         *)
(* description together; the first branch whose keyword occurs anywhere    *)
(* runs its verifier.  A kind stands for such a branch ("header" for the   *)
(* six branches that look for one header).  A verifier asks the target     *)
(* once or several times; sweeps over a payload file send one request for  *)
(* each of its payloads.                                                   *)
(*                                                                         *)
(* Findings are judged one after the other and share nothing, so the model *)
(* follows one finding, from its normalization to the reports.             *)
(***************************************************************************)
EXTENDS Naturals, Sequences, FiniteSets

CONSTANTS
    Payloads,     \* number of payloads in each file
    MaxMentions   \* bounds the kinds a text mentions besides its own

Files == {"xss", "sqli_error", "sqli_time", "cors"}

ASSUME PayloadsAssumption == Payloads \in [Files -> Nat]

VARIABLES
    finding,   \* the finding at hand
    kind,      \* the branch of dispatch() it is in
    stage,     \* found, checking, judged or reported
    step,      \* the sweep of the verifier that is going on
    planned,   \* requests of each sweep
    asked,     \* requests answered, or failed, in each sweep
    seen,      \* what the answers were
    status,    \* poc_status
    lists      \* the report files that list it

checkVars == <<step, planned, asked, seen>>
vars == <<finding, kind, stage, checkVars, status, lists>>

Tools == {"ZAP", "Nmap", "SQLMap", "HeaderScan", "Nikto", "Nuclei"}
Status == {"PENDING", "CONFIRMED", "FALSE_POSITIVE", "UNVERIFIED"}
Answers == {"evidence", "clean", "delayed", "absent", "timeout", "error"}

\* The branches of dispatch(), in its order; "unmapped" is the else branch.
Order == <<"xss", "sqli", "header", "noheader", "cookie", "session", "private_ip",
           "cors", "redirect", "listing", "unmapped">>
Kinds == {Order[i] : i \in DOMAIN Order}

Finding == [tool: Tools, risk: {"High", "Lower"}, name: Kinds,
            mentions: SUBSET (Kinds \ {"unmapped"}), param: BOOLEAN, absolute: BOOLEAN]

\* What the normalizers make of the tools' results: only ZAP names a parameter,
\* Nmap's address has no scheme, and Nikto's is usually a path.
Normalized ==
    {f \in Finding :
        /\ Cardinality(f.mentions) <= MaxMentions
        /\ f.param => f.tool = "ZAP"
        /\ f.tool = "Nmap" => f.name = "unmapped" /\ f.risk = "Lower" /\ ~f.absolute
        /\ f.tool = "SQLMap" => f.name = "sqli"
        /\ f.tool = "HeaderScan" => f.name = "header" /\ f.risk = "Lower"
        /\ f.tool \in {"Nmap", "SQLMap", "HeaderScan"} => f.mentions = {}
        /\ f.tool \in {"ZAP", "SQLMap", "HeaderScan"} => f.absolute}

\* SQLMap's own verdict is written at once; the others wait.
FirstStatus(f) ==
    IF f.tool # "SQLMap" THEN "PENDING"
    ELSE IF f.risk = "High" THEN "CONFIRMED" ELSE "UNVERIFIED"

Text(f) == {f.name, "unmapped"} \union f.mentions

-----------------------------------------------------------------------------
(* The verifiers *)

\* The sweeps of each verifier.
Sweeps(k) ==
    IF k = "sqli" THEN <<"sqli_error", "baseline", "sqli_time">>
    ELSE IF k = "redirect" THEN <<"page", "landing">>
    ELSE IF k \in {"xss", "cors"} THEN <<k>>
    ELSE <<"page">>

NeedsParam == {"xss", "sqli", "redirect"}

\* load_payloads: nothing when the file cannot be read.  One that cannot be
\* decoded counts as unreadable too, except for xss: verify_xss loads it outside
\* of its try, so the exception ends the scan, and the finding stays undecided.
Sizes(sweep) ==
    IF sweep \in Files THEN {0, Payloads[sweep]}
    ELSE IF sweep = "baseline" THEN {2} ELSE {1}

\* What a request of a sweep can bring; requests.get() refuses an address
\* without a scheme.
Possible(f, k, sweep) ==
    IF ~f.absolute THEN {"error"}
    ELSE {"clean", "timeout", "error"}
         \union (IF sweep = "baseline" THEN {} ELSE {"evidence"})
         \union (IF sweep = "sqli_time" THEN {"delayed"} ELSE {})
         \union (IF k = "cookie" THEN {"absent"} ELSE {})

\* Mutated form of Ruling: any timeout confirms.
RulingOnTimeout(answer, f, k, sweep) ==
    IF k = "unmapped" THEN IF f.risk = "High" THEN "CONFIRMED" ELSE "UNVERIFIED"
    ELSE IF answer \in {"evidence", "timeout"} THEN "CONFIRMED"
    ELSE IF answer \in {"absent", "error"} THEN "UNVERIFIED" ELSE "PENDING"

\* Mutated form of Ruling: a request that fails is skipped.
RulingSkips(answer, f, k, sweep) ==
    IF k = "unmapped" THEN IF f.risk = "High" THEN "CONFIRMED" ELSE "UNVERIFIED"
    ELSE IF answer = "evidence" THEN "CONFIRMED"
    ELSE IF answer = "absent" THEN "UNVERIFIED" ELSE "PENDING"

\* The verdict an answer settles, PENDING if it settles nothing.  A timeout is
\* evidence only for a time-based payload; an unmapped finding goes by its risk.
Ruling(answer, f, k, sweep) ==
    IF k = "unmapped" THEN IF f.risk = "High" THEN "CONFIRMED" ELSE "UNVERIFIED"
    ELSE IF answer = "evidence" \/ (answer = "timeout" /\ sweep = "sqli_time") THEN "CONFIRMED"
    ELSE IF answer \in {"absent", "error", "timeout"} THEN "UNVERIFIED" ELSE "PENDING"

-----------------------------------------------------------------------------
Init ==
    /\ finding \in Normalized
    /\ kind = "unmapped"
    /\ stage = "found"
    /\ step = 1
    /\ planned = [i \in 1..3 |-> 0]
    /\ asked = [i \in 1..3 |-> 0]
    /\ seen = {}
    /\ status = FirstStatus(finding)
    /\ lists = {}

Judge(verdict) == stage' = "judged" /\ status' = verdict

\* Sweep s of a verifier starts; one without payloads cannot be done.
Enter(k, s) ==
    /\ step' = s
    /\ \E n \in Sizes(Sweeps(k)[s]) :
          /\ planned' = [planned EXCEPT ![s] = n]
          /\ IF n = 0
             THEN Judge("UNVERIFIED")
             ELSE stage' = "checking" /\ UNCHANGED status

\* dispatch() up to the first request of the verifier.
Dispatch ==
    /\ stage = "found"
    /\ \E i \in DOMAIN Order :
          /\ Order[i] \in Text(finding)
          /\ \A j \in 1..i-1 : Order[j] \notin Text(finding)
          /\ kind' = Order[i]
          /\ IF \/ Order[i] = "noheader"
                \/ Order[i] \in NeedsParam /\ ~finding.param
             THEN Judge("UNVERIFIED") /\ UNCHANGED <<step, planned>>
             ELSE Enter(Order[i], 1)
    /\ UNCHANGED <<finding, asked, seen, lists>>

Sweep == Sweeps(kind)[step]
Rule(answer) == Ruling(answer, finding, kind, Sweep)

\* A request is answered or fails.
Answer(answer) ==
    /\ stage = "checking"
    /\ answer \in Possible(finding, kind, Sweep)
    /\ asked' = [asked EXCEPT ![step] = @ + 1]
    /\ seen' = seen \union {answer}
    /\ UNCHANGED <<finding, kind, lists>>

Settles(answer) ==
    /\ Answer(answer)
    /\ Rule(answer) # "PENDING"
    /\ Judge(Rule(answer))
    /\ UNCHANGED <<step, planned>>

Continues(answer) ==
    /\ Answer(answer)
    /\ Rule(answer) = "PENDING"
    /\ asked'[step] < planned[step]
    /\ UNCHANGED <<stage, status, step, planned>>

NextSweep(answer) ==
    /\ Answer(answer)
    /\ Rule(answer) = "PENDING"
    /\ asked'[step] = planned[step]
    /\ step < Len(Sweeps(kind))
    /\ Enter(kind, step + 1)

\* Nothing was found; a delay that is neither short nor long decides nothing.
Ends(answer) ==
    /\ Answer(answer)
    /\ Rule(answer) = "PENDING"
    /\ asked'[step] = planned[step]
    /\ step = Len(Sweeps(kind))
    /\ Judge(IF "delayed" \in seen' THEN "UNVERIFIED" ELSE "FALSE_POSITIVE")
    /\ UNCHANGED <<step, planned>>

\* Mutated form of ReportsOf: what is only unverified is left out.
ReportsOfDecided(verdict) ==
    {"full"}
    \union (IF verdict = "CONFIRMED" THEN {"confirmed"} ELSE {})
    \union (IF verdict = "FALSE_POSITIVE" THEN {"false_positive"} ELSE {})
    \union (IF verdict = "PENDING" THEN {"unverified"} ELSE {})

\* The lists of run_pipeline_with_cb.
ReportsOf(verdict) ==
    {"full"}
    \union (IF verdict = "CONFIRMED" THEN {"confirmed"} ELSE {})
    \union (IF verdict = "FALSE_POSITIVE" THEN {"false_positive"} ELSE {})
    \union (IF verdict \in {"UNVERIFIED", "PENDING"} THEN {"unverified"} ELSE {})

Report ==
    /\ stage = "judged"
    /\ stage' = "reported"
    /\ lists' = ReportsOf(status)
    /\ UNCHANGED <<finding, kind, checkVars, status>>

-----------------------------------------------------------------------------
Request(answer) ==
    \/ Settles(answer)
    \/ Continues(answer)
    \/ NextSweep(answer)
    \/ Ends(answer)

Next ==
    \/ Dispatch
    \/ \E answer \in Answers : Request(answer)
    \/ Report

Spec == Init /\ [][Next]_vars
=============================================================================
