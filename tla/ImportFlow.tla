----------------------------- MODULE ImportFlow ------------------------------
(***************************************************************************)
(* The import screen (apps/web/src/ui/screens/ImportScreen.tsx over        *)
(* useImportPanel.ts): choose a file, name its format, preview it with the *)
(* duplicates found, confirm, upload.  Each of inspecting, previewing and  *)
(* importing is an asynchronous read whose answer comes later, whatever    *)
(* the user has done on the screen since.                                  *)
(***************************************************************************)
EXTENDS ImportUpload, FiniteSets

CONSTANTS
    Files, NoFile, Formats,
    Collections, Personal,  \* where items may go
    Contents(_, _),     \* the rows and the number of errors of a file under a format
    DetectedFormat(_),
    Additions           \* logins other devices may add to the vault meanwhile

\* What a parser returns is a list of rows, each with an entry of some length.
IsReading(contents) ==
    /\ contents.rows \in Seq({contents.rows[i] : i \in DOMAIN contents.rows})
    /\ \A i \in DOMAIN contents.rows : contents.rows[i].bytes \in Nat
    /\ contents.errors \in Nat

ASSUME FlowAssumption ==
    /\ NoFile \notin Files /\ Personal \notin Collections
    /\ "generic-csv" \in Formats
    /\ \A f \in Files : DetectedFormat(f) \in Formats
    /\ \A f \in Files, fmt \in Formats : IsReading(Contents(f, fmt))

VARIABLES
    step, file, format, target,
    preview,    \* the last preview, or NoPreview
    skip,       \* the duplicate groups, by their key, to skip
    confirming, busy,
    reads,      \* inspections and previews under way
    import,     \* the import under way, or NoImport
    completed,  \* what the completion screen reports, or NotCompleted
    vault,      \* the items the vault store holds
    touched     \* history: the file or the format was changed, or the screen
                \* started over, while the last preview was being read

flowVars == <<step, file, format, target, preview, skip, confirming, busy, reads, import,
              completed, vault, touched>>
vars == <<flowVars, uploadVars>>

NoPreview == [rows |-> <<>>, errors |-> 0, groups |-> {}, none |-> TRUE]
NoImport == [stage |-> "none"]
NotCompleted == [none |-> TRUE]

-----------------------------------------------------------------------------
(***************************************************************************)
(* Duplicates (packages/vault/src/import/dedupe.ts).  An address is a host *)
(* with or without www. and a port, "" when it is the scheme's own; a host *)
(* of "" is one that does not parse.                                       *)
(***************************************************************************)
None == <<>>

MatchHost(url) == IF url.host = "" THEN None ELSE <<url.host, url.port>>

\* Only logins, and by their first address.
KeyOf(item) ==
    IF item.type = "note" \/ item.urls = <<>> THEN None
    ELSE IF MatchHost(item.urls[1]) = None THEN None
    ELSE <<MatchHost(item.urls[1]), item.username>>

\* A group is the rows of one key, when there are several or the vault has one.
FindDuplicates(rows, existing) ==
    LET rowsOf(key) == {i \in DOMAIN rows : KeyOf(rows[i]) = key}
        heldOf(key) == {e \in existing : KeyOf(e) = key}
    IN  {[key |-> key, rows |-> rowsOf(key), existing |-> heldOf(key)] :
         key \in {k \in {KeyOf(rows[i]) : i \in DOMAIN rows} \ {None} :
                    Cardinality(rowsOf(k)) > 1 \/ heldOf(k) # {}}}

-----------------------------------------------------------------------------
(***************************************************************************)
(* What the screen derives from its state.                                 *)
(***************************************************************************)
SkipRows == UNION {group.rows : group \in {g \in preview.groups : g.key \in skip}}

\* The rows not left out, in the order of the file.
Kept(rows, without) ==
    LET left == DOMAIN rows \ without
        nth(k) == CHOOSE i \in left : Cardinality({j \in left : j <= i}) = k
    IN  [k \in 1..Cardinality(left) |-> rows[nth(k)]]

ToImport == Len(preview.rows) - Cardinality(SkipRows)

\* The controls for the file and the format, and Start over, stay enabled while the
\* screen reads a preview.
PreviewUnderWay == \E read \in reads : read.kind = "preview"
Touch == touched' = (touched \/ PreviewUnderWay)

Init ==
    /\ step = "upload" /\ file = NoFile /\ format = "generic-csv" /\ target = Personal
    /\ preview = NoPreview /\ skip = {} /\ confirming = FALSE /\ completed = NotCompleted
    /\ busy = FALSE /\ reads = {} /\ import = NoImport /\ vault = {}
    /\ touched = FALSE
    /\ UploadInit

\* reset(): everything but busy, and no read under way is given up.
Reset ==
    /\ step' = "upload" /\ file' = NoFile /\ format' = "generic-csv" /\ target' = Personal
    /\ preview' = NoPreview /\ skip' = {} /\ confirming' = FALSE /\ completed' = NotCompleted
    /\ Touch
    /\ UNCHANGED <<busy, reads, import, vault, uploadVars>>

ChooseFile(f) ==
    /\ step = "upload"
    /\ file' = f /\ Touch
    /\ UNCHANGED <<step, format, target, preview, skip, confirming, busy, reads, import,
                   completed, vault, uploadVars>>

InspectFile ==
    /\ step = "upload" /\ file # NoFile /\ ~busy
    /\ busy' = TRUE
    /\ reads' = reads \cup {[kind |-> "inspect", file |-> file, format |-> format]}
    /\ UNCHANGED <<step, file, format, target, preview, skip, confirming, import, completed,
                   vault, touched, uploadVars>>

Inspected(read) ==
    /\ read.kind = "inspect"
    /\ format' = DetectedFormat(read.file)
    /\ step' = "map"
    /\ busy' = FALSE /\ reads' = reads \ {read}
    /\ UNCHANGED <<file, target, preview, skip, confirming, import, completed, vault, touched,
                   uploadVars>>

\* The file can no longer be read.
ReadFails(read) ==
    /\ busy' = FALSE /\ reads' = reads \ {read}
    /\ UNCHANGED <<step, file, format, target, preview, skip, confirming, import, completed,
                   vault, touched, uploadVars>>

ChooseFormat(fmt) ==
    /\ step = "map"
    /\ format' = fmt /\ Touch
    /\ UNCHANGED <<step, file, target, preview, skip, confirming, busy, reads, import,
                   completed, vault, uploadVars>>

ChooseTarget(c) ==
    /\ step = "map"
    /\ target' = c
    /\ UNCHANGED <<step, file, format, preview, skip, confirming, busy, reads, import,
                   completed, vault, touched, uploadVars>>

StartOver == step = "map" /\ Reset

\* [bug] the screen does not show that it is reading.
RunPreviewUnmarked ==
    /\ step = "map" /\ file # NoFile /\ ~busy
    /\ touched' = FALSE
    /\ reads' = reads \cup {[kind |-> "preview", file |-> file, format |-> format]}
    /\ UNCHANGED <<step, file, format, target, preview, skip, confirming, busy, import,
                   completed, vault, uploadVars>>

RunPreview ==
    /\ step = "map" /\ file # NoFile /\ ~busy
    /\ busy' = TRUE /\ touched' = FALSE
    /\ reads' = reads \cup {[kind |-> "preview", file |-> file, format |-> format]}
    /\ UNCHANGED <<step, file, format, target, preview, skip, confirming, import, completed,
                   vault, uploadVars>>

\* Against the vault as it is when the answer is made.  A group the vault has is
\* skipped unless the user says otherwise; one within the file is not.
Previewed(read) ==
    LET contents == Contents(read.file, read.format)
        groups == FindDuplicates(contents.rows, vault)
    IN  /\ read.kind = "preview"
        /\ preview' = [rows |-> contents.rows, errors |-> contents.errors, groups |-> groups,
                       none |-> FALSE]
        /\ skip' = {g.key : g \in {g \in groups : g.existing # {}}}
        /\ step' = "preview" /\ busy' = FALSE /\ reads' = reads \ {read}
        /\ UNCHANGED <<file, format, target, confirming, import, completed, vault, touched,
                       uploadVars>>

Toggle(group) ==
    /\ step = "preview" /\ ~confirming
    /\ skip' = IF group.key \in skip THEN skip \ {group.key} ELSE skip \cup {group.key}
    /\ UNCHANGED <<step, file, format, target, preview, confirming, busy, reads, import,
                   completed, vault, touched, uploadVars>>

Back ==
    /\ step = "preview" /\ ~busy /\ ~confirming
    /\ step' = "map"
    /\ UNCHANGED <<file, format, target, preview, skip, confirming, busy, reads, import,
                   completed, vault, touched, uploadVars>>

\* The confirmation is a modal dialog, opened and cancelled.
AskToConfirm ==
    /\ step = "preview"
    /\ \/ ~confirming /\ ~busy /\ ToImport # 0 /\ confirming' = TRUE
       \/ confirming /\ confirming' = FALSE
    /\ UNCHANGED <<step, file, format, target, preview, skip, busy, reads, import, completed,
                   vault, touched, uploadVars>>

\* runImport, up to the first await: the file is read again.
RunImport ==
    /\ step = "preview" /\ confirming /\ file # NoFile
    /\ confirming' = FALSE /\ busy' = TRUE
    /\ import' = [stage |-> "reading", file |-> file, format |-> format, target |-> target,
                  skipRows |-> SkipRows, promised |-> Kept(preview.rows, SkipRows),
                  errors |-> preview.errors, total |-> Len(preview.rows)]
    /\ UNCHANGED <<step, file, format, target, preview, skip, reads, completed, vault, touched,
                   uploadVars>>

Entries(rows) == [i \in DOMAIN rows |-> rows[i].bytes]

KeptOfImport == Kept(Contents(import.file, import.format).rows, import.skipRows)

\* Parsed once more, the skipped indices left out, and uploaded.  The key of the
\* collection may have gone since it was chosen.
ImportRead ==
    /\ import.stage = "reading"
    /\ \E keyHeld \in BOOLEAN :
           (import.target = Personal => keyHeld) /\ StartUpload(Entries(KeptOfImport), keyHeld)
    /\ import' = [import EXCEPT !.stage = "uploading"]
    /\ UNCHANGED <<step, file, format, target, preview, skip, confirming, busy, reads,
                   completed, vault, touched>>

ImportReadFails ==
    /\ import.stage = "reading"
    /\ import' = NoImport /\ busy' = FALSE
    /\ UNCHANGED <<step, file, format, target, preview, skip, confirming, reads, completed,
                   vault, touched, uploadVars>>

Upload == UploadStep /\ UNCHANGED flowVars

\* [bug] the groups skipped are reported, not the rows.
ImportedCountingGroups ==
    /\ import.stage = "uploading" /\ phase \in Over
    /\ completed' = [none |-> FALSE, uploaded |-> uploaded, total |-> Len(items),
                     skipped |-> Cardinality(skip), errors |-> import.errors,
                     of |-> Contents(import.file, import.format)]
    /\ step' = "done" /\ busy' = FALSE /\ import' = NoImport
    /\ UNCHANGED <<file, format, target, preview, skip, confirming, reads, vault, touched, uploadVars>>

\* The outcome: the store is synchronised, which may fail without a word, and
\* the counts of the preview are reported beside it.
Imported ==
    /\ import.stage = "uploading" /\ phase \in Over
    /\ completed' = [none |-> FALSE, uploaded |-> uploaded, total |-> Len(items),
                     skipped |-> import.total - Len(import.promised), errors |-> import.errors,
                     of |-> Contents(import.file, import.format)]
    /\ step' = "done" /\ busy' = FALSE /\ import' = NoImport
    /\ \/ vault' = vault \cup {KeptOfImport[i] : i \in 1..landed}
       \/ UNCHANGED vault
    /\ UNCHANGED <<file, format, target, preview, skip, confirming, reads, touched, uploadVars>>

ImportAnother == step = "done" /\ Reset

\* A sync brings what another device added.
VaultGrows(login) ==
    /\ login \notin vault
    /\ vault' = vault \cup {login}
    /\ UNCHANGED <<step, file, format, target, preview, skip, confirming, busy, reads, import,
                   completed, touched, uploadVars>>

Answer ==
    \/ \E read \in reads : Inspected(read) \/ Previewed(read) \/ ReadFails(read)
    \/ ImportRead \/ ImportReadFails \/ Upload \/ Imported

Next ==
    \/ \E f \in Files : ChooseFile(f)
    \/ InspectFile \/ StartOver \/ RunPreview \/ Back \/ AskToConfirm \/ RunImport
    \/ \E fmt \in Formats : ChooseFormat(fmt)
    \/ \E c \in Collections \cup {Personal} : ChooseTarget(c)
    \/ \E group \in preview.groups : Toggle(group)
    \/ ImportAnother
    \/ \E login \in Additions : VaultGrows(login)
    \/ Answer

\* Reads and requests are answered or fail; nothing is expected of the user.
Spec == Init /\ [][Next]_vars /\ WF_vars(Answer)

-----------------------------------------------------------------------------
(***************************************************************************)
(* Properties.                                                             *)
(***************************************************************************)
\* The screen holds what its components expect; only groups of the preview that
\* is shown are chosen to be skipped.
TypeOK ==
    /\ UploadTypeOK
    /\ step \in {"upload", "map", "preview", "done"}
    /\ file \in Files \cup {NoFile} /\ format \in Formats
    /\ target \in Collections \cup {Personal}
    /\ confirming \in BOOLEAN /\ busy \in BOOLEAN /\ touched \in BOOLEAN
    /\ import.stage \in {"none", "reading", "uploading"}
    /\ skip \subseteq {g.key : g \in preview.groups}

\* "re-parsing here yields the same items in the same order the preview
\* reported, and the skip indices still name the rows the user chose"
\* (useImportPanel.ts): what is uploaded is what the confirmed preview listed,
\* unless the file or the format was changed while that preview was being read.
ImportsWhatWasPreviewed ==
    import.stage # "none" /\ ~touched => KeptOfImport = import.promised

\* Without the exception.  No run checks it: MCImportFlow.cfg with it shows a late
\* preview of one file confirmed for another.
ImportsOnlyWhatWasPreviewed == import.stage # "none" => KeptOfImport = import.promised

\* The completion screen adds up: what was imported or not, skipped and
\* unreadable is everything in the file.
EveryRowAccountedFor ==
    step = "done" /\ ~touched =>
        completed.total + completed.skipped + completed.errors
            = Len(completed.of.rows) + completed.of.errors

\* A row without a web address is not checked for duplicates, and so is never
\* left out of an import.
UncheckedRowsKept ==
    import.stage # "none" /\ ~touched =>
        LET rows == Contents(import.file, import.format).rows IN
        \A i \in DOMAIN rows :
            rows[i].type = "note" \/ rows[i].urls = <<>> => i \notin import.skipRows

\* The invariant of the import screen: every row of the file is imported, skipped
\* by choice, or reported, whatever is clicked in whatever order; only an import
\* of a preview that changed under way is not held to its counts.
FlowInv == TypeOK /\ EveryRowAccountedFor /\ UncheckedRowsKept

\* However an upload goes, the screen comes back: it does not stay busy.
ImportEnds == import.stage # "none" ~> import.stage = "none" /\ ~busy

-----------------------------------------------------------------------------
(***************************************************************************)
(* Why they hold.  Whoever is at the screen, what is read is a file under  *)
(* a format, and no more than one read is under way, since busy holds back *)
(* the next.  A preview is of the file and the format on the screen when   *)
(* they were not touched while it was read, and so is its import.          *)
(***************************************************************************)
ScreenInv ==
    /\ TypeOK /\ UploadInv
    /\ \A read \in reads : read.file \in Files /\ read.format \in Formats
    /\ import.stage # "none" =>
          /\ import.file \in Files /\ import.format \in Formats
          /\ DOMAIN import = {"stage", "file", "format", "target", "skipRows", "promised",
                              "errors", "total"}

OneAtATime ==
    /\ \A read \in reads :
          /\ busy
          /\ \/ read.kind = "inspect" /\ step = "upload"
             \/ read.kind = "preview" /\ step \in {"upload", "map"}
          /\ read.kind = "preview" /\ ~touched =>
                step = "map" /\ read.file = file /\ read.format = format
    /\ \A read, other \in reads : read = other
    /\ confirming => step = "preview" /\ ~busy
    /\ import.stage # "none" => step = "preview" /\ busy

PreviewIsOfTheFile ==
    /\ step = "preview" /\ ~touched =>
          /\ preview.rows = Contents(file, format).rows
          /\ preview.errors = Contents(file, format).errors
    /\ \A group \in preview.groups : \A i \in group.rows : KeyOf(preview.rows[i]) # None

ImportIsOfThePreview ==
    /\ ImportsWhatWasPreviewed
    /\ import.stage # "none" /\ ~touched =>
          /\ import.total = Len(Contents(import.file, import.format).rows)
          /\ import.errors = Contents(import.file, import.format).errors
    /\ import.stage = "uploading" => items = Entries(KeptOfImport)

PreviewInv ==
    /\ ScreenInv /\ OneAtATime /\ PreviewIsOfTheFile /\ ImportIsOfThePreview
    /\ EveryRowAccountedFor /\ UncheckedRowsKept
=============================================================================
