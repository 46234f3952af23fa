---------------------------- MODULE ImportUpload -----------------------------
(***************************************************************************)
(* uploadItems (packages/vault/src/import/upload.ts) against the bulk      *)
(* endpoint: encrypt item by item, close a chunk at the row limit or the   *)
(* byte budget, post it, stop at the first failure.                        *)
(*                                                                         *)
(* An item is the length of its entry in the request body.  A chunk is     *)
(* always the run of items that follows what was confirmed, so its length  *)
(* and its bytes describe it.                                              *)
(***************************************************************************)
EXTENDS Naturals, Sequences

CONSTANTS
    MaxItemsPerRequest,     \* MAX_ITEMS_PER_REQUEST, and the server's limit
    BodyBudget,             \* BODY_BUDGET
    MaxBodyBytes,           \* MAX_BODY_BYTES, and the server's limit
    Envelope                \* what the body has around the entries

\* The 64 KiB between budget and cap are there for the envelope.
ASSUME UploadAssumption ==
    /\ {MaxItemsPerRequest, BodyBudget, MaxBodyBytes, Envelope} \subseteq Nat
    /\ MaxItemsPerRequest > 0
    /\ BodyBudget + Envelope <= MaxBodyBytes

VARIABLES
    items,      \* the entries to upload
    chunk,      \* chunk.length
    chunkBytes,
    uploaded,   \* items the server confirmed
    landed,     \* items the server stored
    phase,      \* where uploadItems is
    inDoubt     \* of the outcome, once there is one

uploadVars == <<items, chunk, chunkBytes, uploaded, landed, phase, inDoubt>>

\* How the outcome may be: without an error, with one, or with the client's own
\* about an answer it could not read.
Over == {"complete", "failed", "misread"}

UploadInit ==
    /\ items = <<>>
    /\ chunk = 0 /\ chunkBytes = 0 /\ uploaded = 0 /\ landed = 0
    /\ phase = "waiting" /\ inDoubt = 0

\* Nothing to upload is complete without a request; a collection whose key is
\* not held is refused before the first one.
StartUpload(entries, keyHeld) ==
    /\ phase \in Over \cup {"waiting"}
    /\ items' = entries
    /\ chunk' = 0 /\ chunkBytes' = 0 /\ uploaded' = 0 /\ landed' = 0
    /\ inDoubt' = 0
    /\ phase' = IF entries = <<>> THEN "started-empty"
                ELSE IF keyHeld THEN "encrypting" ELSE "started-keyless"

\* The two early returns.
ReturnEarly ==
    /\ phase \in {"started-empty", "started-keyless"}
    /\ phase' = IF phase = "started-empty" THEN "complete" ELSE "failed"
    /\ UNCHANGED <<items, chunk, chunkBytes, uploaded, landed, inDoubt>>

NextItem == uploaded + chunk + 1

\* [bug] the entry being added is not counted.
ChunkIsFullLate(entryBytes) ==
    chunk > 0 /\ (chunk >= MaxItemsPerRequest \/ chunkBytes > BodyBudget)

\* [bug] an entry over the budget closes a chunk with nothing in it.
ChunkIsFullWhenEmpty(entryBytes) ==
    chunk >= MaxItemsPerRequest \/ chunkBytes + entryBytes > BodyBudget

\* A chunk with something in it is closed by whichever limit comes first.
ChunkIsFull(entryBytes) ==
    chunk > 0 /\ (chunk >= MaxItemsPerRequest \/ chunkBytes + entryBytes > BodyBudget)

\* One turn of the loop, up to the await of send().
EncryptItem ==
    /\ phase = "encrypting" /\ NextItem <= Len(items)
    /\ IF ChunkIsFull(items[NextItem])
       THEN phase' = "sending" /\ UNCHANGED <<chunk, chunkBytes>>
       ELSE /\ chunk' = chunk + 1
            /\ chunkBytes' = chunkBytes + items[NextItem]
            /\ UNCHANGED phase
    /\ UNCHANGED <<items, uploaded, landed, inDoubt>>

SendLast ==
    /\ phase = "encrypting" /\ NextItem > Len(items)
    /\ phase' = IF chunk > 0 THEN "sending" ELSE "complete"
    /\ UNCHANGED <<items, chunk, chunkBytes, uploaded, landed, inDoubt>>

-----------------------------------------------------------------------------
(***************************************************************************)
(* The server validates the whole batch before its transaction, and stores *)
(* all of a chunk or none of it.                                           *)
(***************************************************************************)
Acceptable == chunk <= MaxItemsPerRequest /\ chunkBytes + Envelope <= MaxBodyBytes

ServerStores ==
    /\ phase = "sending" /\ Acceptable
    /\ landed' = landed + chunk
    /\ phase' = "stored"
    /\ UNCHANGED <<items, chunk, chunkBytes, uploaded, inDoubt>>

\* [bug] what was sent is counted, whatever became of it.
ConfirmedCountingSent ==
    /\ phase \in {"sending", "stored"}
    /\ uploaded' = uploaded + chunk
    /\ chunk' = 0 /\ chunkBytes' = 0
    /\ phase' = "encrypting"
    /\ UNCHANGED <<items, landed, inDoubt>>

Confirmed ==
    /\ phase = "stored"
    /\ uploaded' = uploaded + chunk
    /\ chunk' = 0 /\ chunkBytes' = 0
    /\ phase' = "encrypting"
    /\ UNCHANGED <<items, landed, inDoubt>>

\* A 4xx is definitely not written.
Refused ==
    /\ phase = "sending"
    /\ phase' = "failed" /\ inDoubt' = 0
    /\ UNCHANGED <<items, chunk, chunkBytes, uploaded, landed>>

\* A 2xx whose body is not JSON, the server's after the commit or a gateway's
\* without one: request() throws an ApiError with that status, which is below
\* 500 and so counts as definitely not written.
Malformed ==
    /\ phase \in {"sending", "stored"}
    /\ phase' = "misread" /\ inDoubt' = 0
    /\ UNCHANGED <<items, chunk, chunkBytes, uploaded, landed>>

\* No answer, or a 5xx, before or after the commit: the client cannot tell.
Lost ==
    /\ phase \in {"sending", "stored"}
    /\ phase' = "failed" /\ inDoubt' = chunk
    /\ UNCHANGED <<items, chunk, chunkBytes, uploaded, landed>>

UploadStep ==
    \/ ReturnEarly \/ EncryptItem \/ SendLast
    \/ ServerStores \/ Confirmed \/ Refused \/ Malformed \/ Lost

\* Uploads one after another, of anything.
UploadNext ==
    UploadStep \/ \E entries \in Seq(Nat), keyHeld \in BOOLEAN : StartUpload(entries, keyHeld)
UploadSpec == UploadInit /\ [][UploadNext]_uploadVars

-----------------------------------------------------------------------------
(***************************************************************************)
(* Properties.                                                             *)
(***************************************************************************)
\* The counters and the phase of one call of uploadItems.
UploadTypeOK ==
    /\ items \in Seq(Nat)
    /\ chunk \in Nat /\ chunkBytes \in Nat /\ uploaded \in Nat /\ landed \in Nat
    /\ inDoubt \in Nat
    /\ phase \in {"waiting", "started-empty", "started-keyless", "encrypting",
                  "sending", "stored"} \cup Over

\* "Chunking on count alone is not enough": the server is never sent a request
\* it must refuse for its size, except for an item no request could carry.
ChunksFit ==
    phase = "sending" => Acceptable \/ (chunk = 1 /\ chunkBytes > BodyBudget)

\* The upload implements its promise, "the only answer that is true" (UploadOutcome)
\* but for an answer that could not be read, where definitelyNotWritten takes for
\* a refusal what may be none.  The report is the outcome once there is one.
Reported ==
    IF phase \in Over
    THEN [phase |-> phase, uploaded |-> uploaded, inDoubt |-> inDoubt]
    ELSE [phase |-> IF phase = "waiting" THEN "waiting" ELSE "running",
          uploaded |-> 0, inDoubt |-> 0]
Promise == INSTANCE ImportPromise
           WITH Request <- MaxItemsPerRequest,
                total <- Len(items), landed <- landed, report <- Reported
KeepsItsPromise == Promise!Spec

\* The promise without the exception: "inDoubt" is 0 only when the items of the
\* failed chunk are known not to be there.  No run checks it: MCImportFlow.cfg
\* with it as an INVARIANT shows a chunk stored and its answer misread.
NothingLandsUnreported == phase \in Over => landed <= uploaded + inDoubt

\* What of the items is where in each phase; a chunk over the budget is one item.
UploadInv ==
    /\ UploadTypeOK
    /\ uploaded + chunk <= Len(items) /\ chunk <= MaxItemsPerRequest
    /\ chunk > 1 => chunkBytes <= BodyBudget
    /\ chunk = 0 => chunkBytes = 0
    /\ phase \in {"waiting", "started-empty", "started-keyless"} =>
          uploaded = 0 /\ chunk = 0 /\ landed = 0
    /\ phase \in {"waiting", "started-empty"} => Len(items) = 0
    /\ phase # "failed" => inDoubt = 0
    /\ phase \in {"encrypting", "sending"} => landed = uploaded
    /\ phase \in {"sending", "stored"} => chunk > 0
    /\ phase = "stored" => landed = uploaded + chunk
    /\ phase \in Over => Promise!Truthful(Reported)
=============================================================================
