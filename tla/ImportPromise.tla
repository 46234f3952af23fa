---------------------------- MODULE ImportPromise ----------------------------
(***************************************************************************)
(* What uploading an import promises its caller (UploadOutcome in          *)
(* import/upload.ts): items land in the vault in the order of the file,    *)
(* and whenever the upload stops, for whatever reason, what it reports     *)
(* brackets what really landed.  The one report that does not is about an  *)
(* answer that could not be read: it may leave out one request.            *)
(***************************************************************************)
EXTENDS Naturals

CONSTANT Request    \* how many items one request may carry

VARIABLES
    total,      \* items handed to the upload
    landed,     \* how many of them, counted from the first, are in the vault
    report      \* the outcome, or the phase while there is none

vars == <<total, landed, report>>

Waiting == [phase |-> "waiting", uploaded |-> 0, inDoubt |-> 0]
Running == [phase |-> "running", uploaded |-> 0, inDoubt |-> 0]

\* Confirmed items are there, no others than those in doubt can be, and without
\* an error everything is.  An answer that could not be read leaves none in
\* doubt, and yet its request may have landed.
Truthful(r) ==
    /\ r.uploaded <= landed
    /\ landed <= r.uploaded + (IF r.phase = "misread" THEN Request ELSE r.inDoubt)
    /\ r.uploaded + r.inDoubt <= total
    /\ r.phase = "complete" => r.uploaded = total

Init == total = 0 /\ landed = 0 /\ report = Waiting

Begin ==
    /\ report # Running
    /\ total' \in Nat /\ landed' = 0 /\ report' = Running

Land ==
    /\ report = Running
    /\ landed' \in Nat /\ landed < landed' /\ landed' <= total
    /\ UNCHANGED <<total, report>>

Finish ==
    /\ report = Running
    /\ report'.phase \in {"complete", "failed", "misread"} /\ Truthful(report')
    /\ UNCHANGED <<total, landed>>

Next == Begin \/ Land \/ Finish

Spec == Init /\ [][Next]_vars
=============================================================================
