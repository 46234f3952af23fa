---------------------------- MODULE ImportFormats ----------------------------
(***************************************************************************)
(* A file on its way to the items it becomes: inspected, read with the     *)
(* detected parser or one the user chose, record by record, and mapped     *)
(* (onInspect and parseFile in apps/web/src/ui/useImportPanel.ts, over     *)
(* packages/vault/src/import).                                             *)
(*                                                                         *)
(* A file is [text, json, records, archive, named1pux, magic]: what the    *)
(* reader gets to see; and, for the properties, the records its exporter   *)
(* wrote in source, of a CSV its columns and the style it is written in,   *)
(* the kind of file (csv, headerless, json, archive), and whether the text *)
(* was damaged since.                                                      *)
(***************************************************************************)
EXTENDS Integers, Sequences, ImportDetect, ImportCsv, ImportZip

CONSTANTS
    Files,
    MapFields   \* bound: the fields whose column the user changes

\* A file is a text, and lists of records.
IsList(s) == s \in Seq({s[k] : k \in DOMAIN s})

ASSUME FilesAssumption ==
    \A f \in Files :
        /\ f.text \in Seq(STRING)
        /\ IsList(f.records)
        /\ IsList(f.archive.entries)
        /\ \A i \in DOMAIN f.archive.entries : IsList(f.archive.entries[i].data.records)

VARIABLES
    file,
    evidence,   \* what detection saw of it
    format,     \* the parser to use
    mapping,    \* of the columns, for generic-csv
    phase,      \* "chosen", "inspected", "rows", "done" or "refused"
    result,     \* what the parser was handed
    at,         \* records read
    items,      \* the items so far, with the line each came from
    errors      \* the lines reported

vars == <<file, evidence, format, mapping, phase, result, at, items, errors>>

NoJson == [arrays |-> {}, objects |-> {}, texts |-> {}, true |-> {}, defined |-> {}]

MANUAL_FORMATS ==
    {"bitwarden-json", "bitwarden-csv", "onepassword-1pux", "onepassword-csv", "lastpass-csv",
     "browser-csv", "keepass-csv", "nordpass-csv", "dashlane-json", "dashlane-csv",
     "protonpass-json", "keeper-json", "keeper-csv", "generic-csv"}

JsonFormats == {"bitwarden-json", "dashlane-json", "protonpass-json", "keeper-json"}

\* A header cell as a column name (indexColumns).
ColumnName(field) == IF Len(field) = 1 THEN field[1] ELSE "unnamed"
HeaderOf(table) == [i \in DOMAIN table.header |-> ColumnName(table.header[i])]

\* probe(): what detection looks at.
Probe(f) == [header |-> HeaderOf(ParseCsv(f.text)), json |-> f.json,
             named1pux |-> f.named1pux, magic |-> f.magic]

\* The records of a CSV: by column name, the first of a repeated one, or by
\* position where there is no header.  A row the reader complained about is
\* damaged, and one with more fields than the header has a surplus.
ByName(row, header) ==
    [name \in {header[i] : i \in DOMAIN header} |->
        LET i == CHOOSE i \in DOMAIN header :
                     header[i] = name /\ \A j \in DOMAIN header : header[j] = name => i <= j
        IN  IF i <= Len(row.fields) THEN row.fields[i] ELSE <<>>]

KeeperPositions == KeeperColumns \o <<"customName", "customValue">>

CsvRecords(table, byPosition) ==
    [k \in DOMAIN table.rows |->
        [line |-> table.rows[k].line,
         cells |-> IF byPosition THEN ByName(table.rows[k], KeeperPositions)
                   ELSE ByName(table.rows[k], HeaderOf(table)),
         flaw |-> IF \E e \in DOMAIN table.errors : table.errors[e] = table.rows[k].line
                  THEN "damaged"
                  ELSE IF ~byPosition /\ Len(table.rows[k].fields) > Len(table.header)
                  THEN "surplus" ELSE "none"]]

\* What parseFile hands to a parser: the archive's export, or the text.
ExportData(f) ==
    LET opened == OpenZip(f.archive) IN
    IF IsZipProblem(opened) THEN opened ELSE ReadText(opened, "export.data")

\* A record of a JSON export is reported by its number.
AtLine(record, k) ==
    [list |-> record.list, details |-> record.details, flaw |-> record.flaw,
     cells |-> record.cells, line |-> k]

Parsed(f, fmt, map) ==
    LET named == ParseCsv(f.text)
        table == IF fmt = "keeper-csv" THEN ParseCsvRecords(f.text) ELSE named
        header == HeaderOf(table)
        data == ExportData(f)
        json == IF fmt = "onepassword-1pux" /\ ~IsZipProblem(data)
                THEN data.contents ELSE [json |-> f.json, records |-> f.records]
        accepted ==
            CASE fmt = "bitwarden-json" -> ParseBitwardenJson(json.json)
              [] fmt = "dashlane-json" -> ParseDashlaneJson(json.json)
              [] fmt = "protonpass-json" -> ParseProtonPassJson(json.json)
              [] fmt = "keeper-json" -> ParseKeeperJson(json.json)
              [] fmt = "onepassword-1pux" ->
                   ~IsZipProblem(data) /\ ParseOnePasswordExportData(json.json)
              [] fmt = "bitwarden-csv" -> ParseBitwardenCsv(header)
              [] fmt = "onepassword-csv" -> ParseOnePasswordCsv(header)
              [] fmt = "lastpass-csv" -> ParseLastPassCsv(header)
              [] fmt = "browser-csv" -> ParseBrowserCsv(header)
              [] fmt = "keepass-csv" -> ParseKeePassCsv(header)
              [] fmt = "nordpass-csv" -> ParseNordPassCsv(header)
              [] fmt = "dashlane-csv" -> ParseDashlaneCsv(header)
              [] fmt = "generic-csv" -> ParseGenericCsv(map)
              [] fmt = "keeper-csv" -> TRUE
        isJson == fmt \in JsonFormats \cup {"onepassword-1pux"}
    IN  [accepted |-> accepted,
         header |-> header,
         reported |-> IF isJson THEN {} ELSE {table.errors[e] : e \in DOMAIN table.errors},
         records |-> IF isJson THEN [k \in DOMAIN json.records |-> AtLine(json.records[k], k)]
                     ELSE CsvRecords(table, fmt = "keeper-csv")]

\* What a parser makes of one record.
Outcome(fmt, record, header, map) ==
    IF record.flaw # "none" THEN RowError ELSE
    CASE fmt = "bitwarden-json" -> BitwardenJsonItem(record)
      [] fmt = "dashlane-json" -> DashlaneJsonRecord(record)
      [] fmt = "protonpass-json" -> ProtonPassItem(record)
      [] fmt = "keeper-json" -> KeeperJsonRecord(record)
      [] fmt = "onepassword-1pux" -> OnePasswordItem(record)
      [] fmt = "bitwarden-csv" -> BitwardenCsvItem(record)
      [] fmt = "onepassword-csv" -> OnePasswordCsvItem(record, header)
      [] fmt = "lastpass-csv" -> LastPassItem(record)
      [] fmt = "browser-csv" -> BrowserItem(record, header)
      [] fmt = "keepass-csv" -> KeePassItem(record, header)
      [] fmt = "nordpass-csv" -> NordPassItem(record)
      [] fmt = "dashlane-csv" -> DashlaneCsvItem(record)
      [] fmt = "keeper-csv" -> KeeperCsvRecord(record)
      [] fmt = "generic-csv" -> GenericRow(record, map)

-----------------------------------------------------------------------------
NoResult == [accepted |-> FALSE, header |-> <<>>, reported |-> {}, records |-> <<>>]

Init ==
    /\ file \in Files
    /\ evidence = Probe([text |-> <<>>, json |-> NoJson, named1pux |-> FALSE, magic |-> FALSE])
    /\ format = "generic-csv" /\ mapping = SuggestMapping(<<>>)
    /\ phase = "chosen" /\ result = NoResult /\ at = 0 /\ items = <<>> /\ errors = {}

\* onInspect.
Inspect ==
    /\ phase = "chosen"
    /\ evidence' = Probe(file)
    /\ format' = Detect(evidence')
    /\ mapping' = SuggestMapping(evidence'.header)
    /\ phase' = "inspected"
    /\ UNCHANGED <<file, result, at, items, errors>>

\* The user overrules detection, or the suggested column of a field; the
\* columns left over are worked out again (normalizeMapping).
ChooseFormat ==
    /\ phase = "inspected" /\ format = Detect(evidence)
    /\ format' \in {"generic-csv", "keeper-csv"} \ {format}
    /\ UNCHANGED <<file, evidence, mapping, phase, result, at, items, errors>>

NormalizeMapping(map, header) ==
    [map EXCEPT !.custom = {header[i] : i \in DOMAIN header}
                           \ {map.placed[field] : field \in DOMAIN map.placed}]

MapColumn ==
    /\ phase = "inspected" /\ format = "generic-csv"
    /\ mapping = SuggestMapping(evidence.header)
    /\ \E field \in MapFields, k \in 0..Len(evidence.header) :
           mapping' = NormalizeMapping(
               [mapping EXCEPT !.placed[field] = IF k = 0 THEN "" ELSE evidence.header[k]],
               evidence.header)
    /\ UNCHANGED <<file, evidence, format, phase, result, at, items, errors>>

\* parseFile, up to the first record: a file the parser does not recognise is
\* one error.
Parse ==
    /\ phase = "inspected"
    /\ result' = Parsed(file, format, mapping)
    /\ phase' = IF ~result'.accepted THEN "refused"
                ELSE IF result'.records = <<>> THEN "done" ELSE "rows"
    /\ errors' = result'.reported \cup IF result'.accepted THEN {} ELSE {1}
    /\ UNCHANGED <<file, evidence, format, mapping, at, items>>

\* One record becomes an item or an error (mapCsvRows, and the loops of the
\* JSON parsers), the items go through toItemPlaintext.
ReadRecord ==
    /\ phase = "rows"
    /\ LET record == result.records[at + 1]
           outcome == Outcome(format, record, result.header, mapping)
       IN  /\ at' = at + 1
           /\ phase' = IF at + 1 = Len(result.records) THEN "done" ELSE "rows"
           /\ IF IsRowError(outcome)
              THEN errors' = errors \cup {record.line} /\ UNCHANGED items
              ELSE /\ items' = Append(items, [line |-> record.line,
                                              plaintext |-> ToItemPlaintext(outcome)])
                   /\ UNCHANGED errors
    /\ UNCHANGED <<file, evidence, format, mapping, result>>

Next == Inspect \/ ChooseFormat \/ MapColumn \/ Parse \/ ReadRecord

Spec == Init /\ [][Next]_vars

-----------------------------------------------------------------------------
(***************************************************************************)
(* Properties.                                                             *)
(***************************************************************************)
Landed(plaintext) ==
    UNION {plaintext.name, plaintext.username, plaintext.password, plaintext.urls,
           plaintext.notes, plaintext.favorite}

\* A record is a login or a note, and a note holds no login fields; the parser
\* is one the picker offers.
TypeOK ==
    /\ format \in MANUAL_FORMATS
    /\ phase \in {"chosen", "inspected", "rows", "done", "refused"}
    /\ at \in Nat
    /\ \A k \in DOMAIN items : items[k].plaintext.type \in {"login", "note"}
    /\ errors \subseteq Nat

\* "A Keeper CSV has no header row, so its columns are read by position" (map.ts):
\* the user is cautioned, and only a file without a header is to be read so.
RightReader ==
    CASE file.kind = "headerless" -> format = "keeper-csv"
      [] file.kind = "csv" -> format \in {Detect(evidence), "generic-csv"}
      [] OTHER -> format = Detect(evidence) /\ format # "generic-csv"

\* What was written is what is read: through quoting, line ends and byte order
\* marks, each item holds the values of one record of the file and nothing
\* else; when the text is damaged the detected parser still makes no item up and
\* something is reported, and when it is sound no record is missing that the
\* parser did not refuse on its merits.
ReadBackAsWritten ==
    phase = "done" /\ RightReader /\ (file.damaged => format = Detect(evidence)) =>
        LET values(r) == {file.source[r].cells[c] : c \in DOMAIN file.source[r].cells}
        IN  /\ \A k \in DOMAIN items : \E r \in DOMAIN file.source :
                   Landed(items[k].plaintext) \subseteq values(r)
            /\ file.damaged => errors # {}
            /\ ~file.damaged =>
                   Len(items) = Cardinality({r \in DOMAIN file.source :
                       ~IsRowError(Outcome(format, file.source[r], result.header, mapping))})

\* NordPass's columns of cards and of personal information.
CardColumns == {"cardholdername", "cardnumber", "cvc", "expirydate", "zipcode"}
IdentityColumns ==
    {"full_name", "phone_number", "email", "address1", "address2", "city", "country", "state"}

\* Values a format leaves behind: what a browser or a manager records about its
\* own bookkeeping, the columns that belong to record types that are refused, and
\* the keys of a JSON export that no parser reads, 1Password's previous passwords
\* among them.
LeftBehind(fmt) ==
    CASE fmt = "browser-csv" ->
           {"formactionorigin", "guid", "timecreated", "timelastused", "timepasswordchanged"}
      [] fmt = "keepass-csv" -> {"icon", "last modified", "created"}
      [] fmt = "nordpass-csv" -> {"type"} \cup CardColumns \cup IdentityColumns
      [] fmt = "bitwarden-csv" -> {"type"}
      [] fmt = "bitwarden-json" ->
           {"type", "folderId", "id", "organizationId", "secureNote", "card"}
      [] fmt = "protonpass-json" ->
           {"type", "state", "itemId", "shareId", "aliasEmail", "createTime", "modifyTime",
            "pinned", "itemUuid"}
      [] fmt = "onepassword-1pux" ->
           {"categoryUuid", "state", "url", "uuid", "createdAt", "updatedAt", "subtitle",
            "passwordHistory"}
      [] fmt = "dashlane-json" -> {"name", "domain"}
      [] OTHER -> {}

\* The keys a note of a format has; the others are empty in an export.
NoteKeys(fmt) ==
    CASE fmt = "lastpass-csv" -> {"name", "extra", "grouping"}
      [] fmt = "nordpass-csv" -> {"name", "note", "folder", "custom_fields"}
      [] fmt = "bitwarden-csv" -> {"name", "notes", "folder", "fields", "reprompt"}
      [] fmt = "bitwarden-json" -> {"name", "notes", "folderOfId", "collectionIds",
                                    "fields", "reprompt"}
      [] fmt = "protonpass-json" -> {"name", "note", "vault", "extraFields"}
      [] fmt = "onepassword-1pux" -> {"title", "notesPlain", "vault", "sections", "tags",
                                      "account"}
      [] fmt = "dashlane-json" -> {"title", "content"}
      [] OTHER -> {}

\* "a column dropped because nothing recognised its name is still a column
\* dropped, and the user cannot miss what they were never shown" (map.ts): with
\* the detected parser, or with any mapping of the columns that names a
\* password, every value of a record that is imported lands in its item.
NothingLost ==
    phase = "done" /\ ~file.damaged /\ RightReader =>
        \A k \in DOMAIN items :
            LET record == result.records[CHOOSE r \in DOMAIN result.records :
                                             result.records[r].line = items[k].line]
                isNote == items[k].plaintext.type = "note"
            IN  \A c \in DOMAIN record.cells \ LeftBehind(format) :
                    \/ record.cells[c] \in No
                    \/ record.cells[c] \in Landed(items[k].plaintext)
                    \/ isNote /\ format # "generic-csv" /\ c \notin NoteKeys(format)

\* Never an item with a blank password: a login always has one, and it is the
\* value of the record's password column.
NoBlankPasswords ==
    \A k \in DOMAIN items :
        items[k].plaintext.type = "login" => items[k].plaintext.password # {}

\* The invariant of a parser: the items made so far are whole.
ItemsInv == TypeOK /\ NoBlankPasswords

\* What keeps the items whole, and ties them to the file: detection and the
\* parser have seen this file and the columns left over are those no field has
\* (mapping); the records read are those of the file, each an item or an error,
\* and each item is what the parser made of one of them.
OutcomeAt(r) == Outcome(format, result.records[r], result.header, mapping)

Refusals(n) == {r \in 1..n : IsRowError(OutcomeAt(r))}

ItemOf(r) == [line |-> result.records[r].line, plaintext |-> ToItemPlaintext(OutcomeAt(r))]

MappingInv ==
    phase # "chosen" =>
        /\ evidence = Probe(file)
        /\ DOMAIN mapping.placed = DOMAIN Candidates
        /\ {evidence.header[i] : i \in DOMAIN evidence.header} \subseteq
               mapping.custom \cup {mapping.placed[field] : field \in DOMAIN mapping.placed}

RecordsInv ==
    /\ at \in Nat
    /\ phase \in {"chosen", "inspected", "refused"} => at = 0 /\ items = <<>>
    /\ phase \in {"rows", "done", "refused"} => result = Parsed(file, format, mapping)
    /\ phase \in {"rows", "done"} => at <= Len(result.records) /\ result.accepted
    /\ phase = "rows" => at < Len(result.records)
    /\ phase = "done" => at = Len(result.records)
    /\ phase = "refused" => ~result.accepted

ReaderInv ==
    /\ format \in MANUAL_FORMATS
    /\ phase \in {"chosen", "inspected", "rows", "done", "refused"}
    /\ errors \subseteq Nat
    /\ MappingInv
    /\ RecordsInv
    /\ IsList(items)
    /\ \A k \in DOMAIN items : \E r \in 1..at : ~IsRowError(OutcomeAt(r)) /\ items[k] = ItemOf(r)
    /\ Len(items) + Cardinality(Refusals(at)) = at

\* A file that is recognised is read: its parser does not turn it away as some
\* other product's, unless it is encrypted or its archive is damaged.
RecognisedIsReadable ==
    phase = "refused" /\ format = Detect(evidence) =>
        \/ format = "generic-csv"
        \/ file.json.true \cap {"encrypted", "passwordProtected"} # {}
        \/ format = "onepassword-1pux" /\ IsZipProblem(ExportData(file))

\* The readable archives that Files has under 1Password's name are 1Password's.
ArchivesAreExports ==
    \A f \in Files :
        \/ IsZipProblem(ExportData(f))
        \/ ParseOnePasswordExportData(ExportData(f).contents.json)

KeePassColumns == {"account", "login name", "password", "web site", "comments"}
KeePassXCColumns ==
    {"group", "title", "username", "password", "url", "notes", "totp", "icon", "last modified",
     "created"}
FirefoxColumns ==
    {"url", "username", "password", "httprealm", "formactionorigin", "guid", "timecreated",
     "timelastused", "timepasswordchanged"}
SafariColumns == {"title", "url", "username", "password", "notes", "otpauth"}
ChromiumColumns == {"name", "url", "username", "password", "note"}
NordPassColumns ==
    {"name", "url", "additional_urls", "username", "password", "note", "folder", "type",
     "custom_fields"} \cup CardColumns \cup IdentityColumns

\* The columns, or keys, of each exporter's records, a set for each layout: those
\* of the repository's sample exports and of its parsers' descriptions.
ExportColumns(fmt) ==
    CASE fmt = "lastpass-csv" ->
           {{"url", "username", "password", "totp", "extra", "name", "grouping", "fav"}}
      [] fmt = "nordpass-csv" -> {NordPassColumns}
      [] fmt = "browser-csv" -> {FirefoxColumns, SafariColumns, ChromiumColumns}
      [] fmt = "keepass-csv" -> {KeePassXCColumns, KeePassColumns}
      [] fmt = "dashlane-csv" ->
           {{"username", "username2", "username3", "title", "password", "note", "url", "category",
             "otpsecret"}}
      [] fmt = "onepassword-csv" ->
           {{"title", "username", "password", "otpauth", "favorite", "archived", "tags",
             address, note} : address \in {"url", "website", "urls"}, note \in {"notes", "note"}}
      [] fmt = "bitwarden-csv" ->
           {{"folder", "favorite", "type", "name", "notes", "fields", "reprompt", "login_uri",
             "login_username", "login_password", "login_totp"}}
      [] fmt = "keeper-csv" -> {{KeeperPositions[k] : k \in DOMAIN KeeperPositions}}
      [] fmt = "keeper-json" ->
           {{"title", "login", "password", "login_url", "notes", "folders", "otherFolders",
             "custom_fields"}}
      [] fmt = "bitwarden-json" ->
           {{"name", "notes", "favorite", "folderOfId", "folderId", "collectionIds",
             "fields", "reprompt", "type", "username", "password", "uris", "totp", "id",
             "organizationId", "secureNote", "card"}}
      [] fmt = "protonpass-json" ->
           {{"name", "note", "vault", "extraFields", "state", "type", "itemUsername", "itemEmail",
             "password", "urls", "totpUri", "passkeys", "itemId", "shareId", "aliasEmail",
             "createTime", "modifyTime", "pinned", "itemUuid"}}
      [] fmt = "dashlane-json" ->
           {{"title", "name", "login", "email", "password", "note", "category", "url", "domain",
             "otpSecret"}, {"title", "name", "content"}}
      [] fmt = "onepassword-1pux" ->
           {{"title", "notesPlain", "favIndex", "vault", "sections", "tags", "account", "state",
             "categoryUuid", "username", "password", "urls", "url", "otherFields", "uuid",
             "createdAt", "updatedAt", "subtitle", "passwordHistory"}}

\* The records that Files has are of those columns, and their flags say yes or no.
KnownRecord(fmt, record) ==
    /\ \E columns \in ExportColumns(fmt) : DOMAIN record.cells \subseteq columns
    /\ \A c \in DOMAIN record.cells \cap {"fav", "favorite", "archived"} :
           record.cells[c] \in No \cup {<<"1">>, <<"true">>}

ExportsAreKnown ==
    \A f \in Files :
        LET fmt == Detect(Probe(f))
            records == Parsed(f, fmt, SuggestMapping(<<>>)).records
        IN  fmt # "generic-csv" => \A r \in DOMAIN records : KnownRecord(fmt, records[r])

\* A CSV is its columns, unless it has no header, and its records, of two columns
\* at least, as WriteTable writes them.
TableOf(f) ==
    (IF f.kind = "headerless" THEN <<>>
     ELSE << [i \in DOMAIN f.columns |-> <<f.columns[i]>>] >>)
    \o [r \in DOMAIN f.source |->
           [i \in DOMAIN f.columns |-> f.source[r].cells[f.columns[i]]]]

IsWrittenCsv(f) ==
    /\ IsList(f.source)
    /\ \A r \in DOMAIN f.source :
           /\ f.source[r].flaw = "none"
           /\ f.source[r].cells \in [{f.columns[i] : i \in DOMAIN f.columns} -> Seq(STRING)]
    /\ f.columns \in Seq(STRING) /\ Len(f.columns) > 1
    /\ \A i, j \in DOMAIN f.columns : f.columns[i] = f.columns[j] => i = j
    /\ f.style.damage = "none" /\ f.style.eol \in {<<"cr">>, <<"lf">>, <<"cr", "lf">>}
    /\ f.text = WriteTable(TableOf(f), f.style)
    /\ f.text # <<>> /\ Head(f.text) = BOM => f.style.bom

\* The undamaged files that Files has are as their exporters write them, and none
\* has the columns or the keys of another kind of export.
FilesAreWritten ==
    \A f \in Files :
        LET detected == Detect(Probe(f)) IN
        ~f.damaged =>
            /\ f.kind = "headerless" => IsWrittenCsv(f) /\ f.columns = KeeperPositions
            /\ f.kind = "csv" =>
                   /\ IsWrittenCsv(f)
                   /\ detected \notin JsonFormats \cup {"onepassword-1pux", "keeper-csv"}
            /\ f.kind = "json" =>
                   f.source = f.records /\ detected \in JsonFormats \cup {"generic-csv"}
            /\ f.kind = "archive" =>
                   /\ detected \in {"onepassword-1pux", "generic-csv"}
                   /\ \A i \in DOMAIN f.archive.entries :
                          LET entry == f.archive.entries[i] IN
                          /\ entry.name = "export.data"
                          /\ \A k \in DOMAIN UnreadableEntries :
                                 UnreadableEntries[k] \notin entry.fails
                          => entry.data.records = f.source
            /\ f.kind \in {"headerless", "csv", "json", "archive"}

\* The columns every export of a product has; a product with one layout writes
\* all of them.
ColumnsAlwaysThere(id) ==
    CASE id = "lastpass-csv" -> {"url", "username", "password", "extra", "name", "grouping"}
      [] id = "chromium-csv" -> {"name", "url", "username", "password"}
      [] id = "firefox-csv" ->
           {"url", "username", "password", "httprealm", "formactionorigin", "guid"}
      [] id = "safari-csv" -> {"title", "url", "username", "password", "notes"}
      [] id = "onepassword-csv" -> {"title", "username", "password", "otpauth", "archived", "tags"}
      [] id = "keepassxc-csv" ->
           {"group", "title", "username", "password", "url", "notes", "totp"}
      [] OTHER -> UNION ExportColumns(id)

\* A table, of the columns of a product in any order; KeePass 1.x has the one.
IsCsvExportOf(id, seen) ==
    /\ seen.json = NoJson /\ ~seen.magic
    /\ IF id = "keepass-csv"
       THEN seen.header = <<"account", "login name", "password", "web site", "comments">>
       ELSE /\ ColumnsAlwaysThere(id) \subseteq HeaderSet(seen)
            /\ \E columns \in ExportColumns(ParserOf(id)) : HeaderSet(seen) \subseteq columns
            /\ Len(seen.header) = Cardinality(HeaderSet(seen))

\* An object of the shape of a product's, or 1Password's archive, whose first line
\* is not the header of a table of passwords.
IsJsonExportOf(id, seen) ==
    /\ HeaderSet(seen) \cap {"password", "login_uri"} = {}
    /\ seen.magic <=> id = "onepassword-1pux"
    /\ CASE id = "bitwarden-json" ->
              /\ seen.json.objects = {}
              /\ \/ "items" \in seen.json.arrays
                    /\ seen.json.arrays \in (SUBSET {"items", "folders", "collections"}) \ {{"items"}}
                 \/ /\ seen.json.arrays = {} /\ "data" \in seen.json.texts
                    /\ "passwordProtected" \in seen.json.true
         [] id = "protonpass-json" ->
              /\ seen.json.objects = {"vaults"} /\ seen.json.arrays = {}
              /\ "encrypted" \in seen.json.defined /\ "data" \notin seen.json.texts
         [] id = "dashlane-json" ->
              /\ seen.json.arrays \in (SUBSET RecordLists) \ {{}}
              /\ seen.json.objects = {} /\ seen.json.texts = {}
         [] id = "keeper-json" ->
              /\ seen.json.arrays = {"records", "shared_folders"}
              /\ seen.json.objects = {} /\ seen.json.texts = {}
         [] id = "onepassword-1pux" -> seen.named1pux /\ seen.json = NoJson

IsExportOf(id, seen) ==
    IF id \in JsonFormats \cup {"onepassword-1pux"} THEN IsJsonExportOf(id, seen)
    ELSE IsCsvExportOf(id, seen)

\* "exactly one signature matches" (detect.ts): what a product exports, its columns
\* in any order and whatever the records hold, is recognised by that product's
\* signature and by no other, so their order never decides.
OneSignature ==
    phase = "inspected" =>
        \A k \in DOMAIN SignatureOrder :
            IsExportOf(SignatureOrder[k], evidence) => Signatures(evidence) = {k}
=============================================================================
