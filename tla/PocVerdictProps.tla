--------------------------- MODULE PocVerdictProps ---------------------------
(***************************************************************************)
(* What a verdict means.                                                   *)
(***************************************************************************)
EXTENDS PocVerdict

TypeOK ==
    /\ finding \in Finding
    /\ kind \in Kinds
    /\ stage \in {"found", "checking", "judged", "reported"}
    /\ step \in 1..3
    /\ planned \in [1..3 -> Nat]
    /\ asked \in [1..3 -> Nat]
    /\ \A i \in 1..3 : asked[i] <= planned[i]
    /\ seen \subseteq Answers
    /\ status \in Status
    /\ lists \subseteq {"full", "confirmed", "false_positive", "unverified"}

Judged == stage \in {"judged", "reported"}

\* A finding is called a false positive only after the whole check: every sweep
\* of its verifier was made to its end, no payload was missing, and the target
\* answered every request without a trace of the flaw.
FalsePositiveWasSwept ==
    Judged /\ status = "FALSE_POSITIVE" =>
        /\ seen = {"clean"}
        /\ \A i \in 1..Len(Sweeps(kind)) : planned[i] > 0 /\ asked[i] = planned[i]

\* A finding with a verifier is confirmed only if the last answer showed the
\* flaw, or was a timeout of a time-based payload: a target that fails, or is
\* slow before, confirms nothing.
ConfirmedWasSeen ==
    Judged /\ status = "CONFIRMED" /\ kind # "unmapped" =>
        \/ "evidence" \in seen
        \/ "timeout" \in seen /\ Sweep = "sqli_time"

-----------------------------------------------------------------------------
(* Statements of comments that the code does not keep *)

\* normalizer.py: SQLMap is a proof of concept itself, what it found vulnerable
\* is CONFIRMED at once, and verify_sqli() is less accurate.
SqlmapVerdictKept ==
    stage = "reported" /\ finding.tool = "SQLMap" /\ finding.risk = "High"
        => status = "CONFIRMED"

\* _vuln_text: matching name, evidence and description together makes it more
\* accurate.  So a finding gets the verifier of its own name.
OwnVerifier == stage # "found" => kind = finding.name
=============================================================================
