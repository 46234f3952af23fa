------------------------------ MODULE ImportZip ------------------------------
(***************************************************************************)
(* The archive reader (packages/vault/src/import/zip.ts) behind 1Password  *)
(* .1pux files.  An archive is its directory and what is wrong with it.    *)
(***************************************************************************)
EXTENDS Naturals, Sequences, FiniteSetsExt

\* An archive: what the end record and the directory are like, and its entries
\* in directory order.  An entry's data is what its bytes really hold; checks
\* names the comparisons with the directory that fail.
NOT_AN_ARCHIVE == [problem |-> "not an archive"]
IsZipProblem(value) == DOMAIN value = {"problem"}

\* endRecordAt and readDirectory.
OpenZip(archive) ==
    IF ~archive.endRecord THEN NOT_AN_ARCHIVE
    ELSE IF archive.directory # "sound" THEN [problem |-> archive.directory]
    ELSE [entries |-> archive.entries]

\* An entry is used only when nothing about it has to be guessed: what is
\* encrypted, Zip64 or compressed otherwise is named before its bytes are
\* looked for, and the bytes must expand to what the directory recorded.
UnreadableEntries == <<"encrypted", "zip64", "method", "header", "truncated", "inflate", "checksum">>

\* read(): the first entry of that name.
ReadEntry(opened, name) ==
    LET held == {i \in DOMAIN opened.entries : opened.entries[i].name = name}
        entry == opened.entries[Min(held)]
        wrong == {k \in DOMAIN UnreadableEntries : UnreadableEntries[k] \in entry.fails}
    IN  IF held = {} THEN [problem |-> "missing"]
        ELSE IF wrong # {} THEN [problem |-> UnreadableEntries[Min(wrong)]]
        ELSE [contents |-> entry.data]

\* readText(): and only text.
ReadText(opened, name) ==
    LET read == ReadEntry(opened, name) IN
    IF IsZipProblem(read) THEN read
    ELSE IF read.contents.text THEN read ELSE [problem |-> "not text"]
=============================================================================
