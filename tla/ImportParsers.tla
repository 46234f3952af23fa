---------------------------- MODULE ImportParsers ----------------------------
(***************************************************************************)
(* The parsers of packages/vault/src/import/parsers, and map.ts: what      *)
(* becomes of each record of an export.                                    *)
(*                                                                         *)
(* A record is the function from its columns or keys to their values, with *)
(* nested keys flattened and the enclosing vault or account added; a value *)
(* is a sequence of characters, and one that is absent or not of the       *)
(* expected type is empty.  An item's fields are the sets of the values    *)
(* that land in them.                                                      *)
(***************************************************************************)
EXTENDS Naturals, Sequences, FiniteSetsExt

Value(record, key) == IF key \in DOMAIN record.cells THEN record.cells[key] ELSE <<>>

Cell(record, key) == {Value(record, key)} \ {<<>>}
Cells(record, keys) == UNION {Cell(record, key) : key \in keys}

\* The first of the keys that holds something.
FirstCell(record, keys) ==
    LET held == {k \in DOMAIN keys : Cell(record, keys[k]) # {}} IN
    IF held = {} THEN {} ELSE Cell(record, keys[Min(held)])

\* Texts that mean no.
No == {<<>>, <<"0">>, <<"false">>}
Flag(record, key) == {Value(record, key)} \cap {<<"1">>, <<"true">>}
Metadata(record, key) == {Value(record, key)} \ No

RowError == [type |-> "error"]
IsRowError(outcome) == outcome.type = "error"

BlankImportItem ==
    [type |-> "login", name |-> {}, username |-> {}, password |-> {}, urls |-> {},
     notes |-> {}, favorite |-> {}, folderPath |-> {}, extra |-> {}]

\* [bug] an absent password is taken for an empty one and the item kept.
RequiredPasswordOptional(record, key, item) ==
    [item EXCEPT !.password = Cell(record, key)]

\* requiredPassword, and its counterparts in the JSON parsers: never an item
\* with a blank password.
RequiredPassword(record, key, item) ==
    IF Cell(record, key) = {} THEN RowError
    ELSE [item EXCEPT !.password = Cell(record, key)]

Fields(fields) ==
    [field \in DOMAIN BlankImportItem |->
        IF field \in DOMAIN fields THEN fields[field] ELSE BlankImportItem[field]]

\* A login of a CSV export whose layout names a column per field and the
\* columns to carry.
LayoutItem(record, layout) ==
    RequiredPassword(record, layout.password,
        Fields([name |-> FirstCell(record, layout.name),
                username |-> Cell(record, layout.username),
                urls |-> Cell(record, layout.url),
                notes |-> Cell(record, layout.notes),
                folderPath |-> Cell(record, layout.folder),
                extra |-> Cells(record, layout.carry)]))

HasColumns(header, columns) == columns \subseteq {header[i] : i \in DOMAIN header}

\* The first of the names that the header has, or "".
FirstColumn(header, names) ==
    LET found == {k \in DOMAIN names : HasColumns(header, {names[k]})} IN
    IF found = {} THEN "" ELSE names[Min(found)]

-----------------------------------------------------------------------------
(***************************************************************************)
(* LastPass.  A note is a row whose address is http://sn.                  *)
(***************************************************************************)
SecureNoteUrl == <<"http://sn">>

LastPassItem(record) ==
    LET item == Fields([name |-> Cell(record, "name"), notes |-> Cell(record, "extra"),
                        favorite |-> Flag(record, "fav"),
                        folderPath |-> Cell(record, "grouping")])
    IN  IF Value(record, "url") = SecureNoteUrl THEN [item EXCEPT !.type = "note"]
        ELSE RequiredPassword(record, "password",
                 [item EXCEPT !.username = Cell(record, "username"),
                              !.urls = Cell(record, "url"), !.extra = Cell(record, "totp")])

\* [bug] exports older than the totp column are turned away.
ParseLastPassCsvOfToday(header) == HasColumns(header, {"password", "grouping", "totp"})

ParseLastPassCsv(header) == HasColumns(header, {"password", "grouping"})

(***************************************************************************)
(* NordPass.                                                               *)
(***************************************************************************)
NordPassItem(record) ==
    LET word == Value(record, "type")
        item == Fields([name |-> Cell(record, "name"), notes |-> Cell(record, "note"),
                        folderPath |-> Cell(record, "folder"),
                        extra |-> Cell(record, "custom_fields")])
    IN  CASE word = <<"note">> -> [item EXCEPT !.type = "note"]
          [] word \in {<<>>, <<"password">>} ->
               RequiredPassword(record, "password",
                   [item EXCEPT !.username = Cell(record, "username"),
                                !.urls = Cells(record, {"url", "additional_urls"})])
          [] OTHER -> RowError

ParseNordPassCsv(header) == HasColumns(header, {"password", "cardholdername"})

(***************************************************************************)
(* Browsers and KeePass: the first layout whose fingerprint the header     *)
(* has.                                                                    *)
(***************************************************************************)
BrowserLayouts == <<
    [fingerprint |-> {"url", "username", "password", "httprealm", "formactionorigin", "guid"},
     name |-> <<"url">>, username |-> "username", password |-> "password", url |-> "url",
     notes |-> "", folder |-> "", carry |-> {"httprealm"}],
    [fingerprint |-> {"title", "url", "username", "password"},
     name |-> <<"title", "url">>, username |-> "username", password |-> "password",
     url |-> "url", notes |-> "notes", folder |-> "", carry |-> {"otpauth"}],
    [fingerprint |-> {"name", "url", "username", "password"},
     name |-> <<"name", "url">>, username |-> "username", password |-> "password",
     url |-> "url", notes |-> "note", folder |-> "", carry |-> {}] >>

KeePassLayouts == <<
    [fingerprint |-> {"group", "title", "username", "password", "url", "notes"},
     name |-> <<"title">>, username |-> "username", password |-> "password", url |-> "url",
     notes |-> "notes", folder |-> "group", carry |-> {"totp"}],
    [fingerprint |-> {"account", "login name", "password", "web site", "comments"},
     name |-> <<"account">>, username |-> "login name", password |-> "password",
     url |-> "web site", notes |-> "comments", folder |-> "", carry |-> {}] >>

Fitting(layouts, header) ==
    {k \in DOMAIN layouts : HasColumns(header, layouts[k].fingerprint)}

BrowserItem(record, header) ==
    LayoutItem(record, BrowserLayouts[Min(Fitting(BrowserLayouts, header))])
ParseBrowserCsv(header) == Fitting(BrowserLayouts, header) # {}

KeePassItem(record, header) ==
    LayoutItem(record, KeePassLayouts[Min(Fitting(KeePassLayouts, header))])
ParseKeePassCsv(header) == Fitting(KeePassLayouts, header) # {}

-----------------------------------------------------------------------------
(***************************************************************************)
(* Dashlane.  In the JSON export the list a record is in is its kind.      *)
(***************************************************************************)
DashlaneCsvItem(record) ==
    LayoutItem(record,
        [name |-> <<"title">>, username |-> "username", password |-> "password",
         url |-> "url", notes |-> "note", folder |-> "category",
         carry |-> {"username2", "username3", "otpsecret"}])

ParseDashlaneCsv(header) == HasColumns(header, {"title", "password"})

RecordLists == {"AUTHENTIFIANT", "SECURENOTE", "PAYMENTMEANS_CREDITCARD", "PAYMENTMEAN_PAYPAL",
                "BANKSTATEMENT", "ADDRESS", "IDCARD", "IDENTITY", "EMAIL"}

DashlaneJsonRecord(record) ==
    LET item == Fields([name |-> FirstCell(record, <<"title", "name">>)]) IN
    CASE record.list = "SECURENOTE" ->
           [item EXCEPT !.type = "note", !.notes = Cell(record, "content")]
      [] record.list = "AUTHENTIFIANT" ->
           RequiredPassword(record, "password",
               [item EXCEPT !.username = FirstCell(record, <<"login", "email">>),
                            !.notes = Cell(record, "note"),
                            !.folderPath = Cell(record, "category"),
                            !.urls = FirstCell(record, <<"url", "domain">>),
                            !.extra = Cell(record, "otpSecret") \cup
                                (Cell(record, "email") \ FirstCell(record, <<"login", "email">>))])
      [] OTHER -> RowError

ParseDashlaneJson(json) == json.arrays \cap RecordLists # {}

(***************************************************************************)
(* Proton Pass.                                                            *)
(***************************************************************************)
ProtonPassItem(record) ==
    LET item == Fields([name |-> Cell(record, "name"), notes |-> Cell(record, "note"),
                        folderPath |-> Cell(record, "vault"),
                        extra |-> Cell(record, "extraFields")])
        username == FirstCell(record, <<"itemUsername", "itemEmail">>)
    IN  IF Value(record, "state") = <<"trashed">> THEN RowError ELSE
        CASE Value(record, "type") = <<"note">> -> [item EXCEPT !.type = "note"]
          [] Value(record, "type") = <<"login">> /\ record.details ->
               RequiredPassword(record, "password",
                   [item EXCEPT !.username = username,
                                !.urls = Cell(record, "urls"),
                                !.extra = @ \cup (Cell(record, "itemEmail") \ username)
                                            \cup Cells(record, {"totpUri", "passkeys"})])
          [] OTHER -> RowError

ParseProtonPassJson(json) == "encrypted" \notin json.true /\ "vaults" \in json.objects

(***************************************************************************)
(* Keeper.  The CSV has no header: its columns are positions.              *)
(***************************************************************************)
KeeperColumns == <<"folder", "title", "login", "password", "url", "notes">>

KeeperCsvRecord(record) ==
    LayoutItem(record,
        [name |-> <<"title">>, username |-> "login", password |-> "password", url |-> "url",
         notes |-> "notes", folder |-> "folder", carry |-> {"customName", "customValue"}])

KeeperJsonRecord(record) ==
    LayoutItem(record,
        [name |-> <<"title">>, username |-> "login", password |-> "password",
         url |-> "login_url", notes |-> "notes", folder |-> "folders",
         carry |-> {"otherFolders", "custom_fields"}])

ParseKeeperJson(json) == "records" \in json.arrays

-----------------------------------------------------------------------------
(***************************************************************************)
(* Bitwarden.  A folder the file does not name is carried by its id.       *)
(***************************************************************************)
BitwardenJsonItem(record) ==
    LET item == Fields([name |-> Cell(record, "name"), notes |-> Cell(record, "notes"),
                        favorite |-> Flag(record, "favorite"),
                        folderPath |-> Cell(record, "folderOfId"),
                        extra |-> Cells(record, {"collectionIds", "fields"})
                                  \cup Metadata(record, "reprompt")
                                  \cup IF Cell(record, "folderOfId") = {}
                                       THEN Cell(record, "folderId") ELSE {}])
    IN  CASE Value(record, "type") = <<"2">> -> [item EXCEPT !.type = "note"]
          [] Value(record, "type") = <<"1">> /\ record.details ->
               RequiredPassword(record, "password",
                   [item EXCEPT !.username = Cell(record, "username"),
                                !.urls = Cell(record, "uris"),
                                !.extra = @ \cup Cell(record, "totp")])
          [] OTHER -> RowError

ParseBitwardenJson(json) ==
    json.true \cap {"encrypted", "passwordProtected"} = {} /\ "items" \in json.arrays

BitwardenCsvItem(record) ==
    LET word == Value(record, "type")
        item == Fields([name |-> Cell(record, "name"), notes |-> Cell(record, "notes"),
                        favorite |-> Flag(record, "favorite"),
                        folderPath |-> Cell(record, "folder"),
                        extra |-> Cell(record, "fields") \cup Metadata(record, "reprompt")])
    IN  CASE word \in {<<"note">>, <<"securenote">>} -> [item EXCEPT !.type = "note"]
          [] word \in {<<>>, <<"login">>} ->
               RequiredPassword(record, "login_password",
                   [item EXCEPT !.username = Cell(record, "login_username"),
                                !.urls = Cell(record, "login_uri"),
                                !.extra = @ \cup Cell(record, "login_totp")])
          [] OTHER -> RowError

ParseBitwardenCsv(header) == HasColumns(header, {"login_password"})

(***************************************************************************)
(* 1Password.  A login field without a designation, and every section      *)
(* field, is carried; so are the account, when the export has several, and *)
(* any state but active.                                                   *)
(***************************************************************************)
OnePasswordItem(record) ==
    LET item == Fields([name |-> Cell(record, "title"), notes |-> Cell(record, "notesPlain"),
                        favorite |-> Metadata(record, "favIndex"),
                        folderPath |-> Cell(record, "vault"),
                        extra |-> Cells(record, {"sections", "tags", "account"})
                                  \cup (Cell(record, "state") \ {<<"active">>})])
    IN  CASE Value(record, "categoryUuid") = <<"003">> -> [item EXCEPT !.type = "note"]
          [] Value(record, "categoryUuid") = <<"001">> /\ record.details ->
               RequiredPassword(record, "password",
                   [item EXCEPT !.username = Cell(record, "username"),
                                !.urls = FirstCell(record, <<"urls", "url">>),
                                !.extra = @ \cup Cell(record, "otherFields")])
          [] OTHER -> RowError

ParseOnePasswordExportData(json) == "accounts" \in json.arrays

\* The address and the note go by several names; the header has at most one.
OnePasswordCsvItem(record, header) ==
    RequiredPassword(record, "password",
        Fields([name |-> Cell(record, "title"), username |-> Cell(record, "username"),
                notes |-> Cell(record, FirstColumn(header, <<"notes", "note">>)),
                favorite |-> Flag(record, "favorite"),
                urls |-> Cell(record, FirstColumn(header, <<"url", "website", "urls">>)),
                extra |-> Cells(record, {"otpauth", "tags"}) \cup Flag(record, "archived")]))

ParseOnePasswordCsv(header) == HasColumns(header, {"password"})

-----------------------------------------------------------------------------
(***************************************************************************)
(* map.ts: any other CSV, through a mapping of its columns, and the        *)
(* plaintext of an item.                                                   *)
(***************************************************************************)
Candidates ==
    [name |-> <<"name", "title", "account", "item name", "entry", "display name">>,
     username |-> <<"username", "user name", "login name", "login", "user", "email",
                    "login_username">>,
     password |-> <<"password", "login_password", "pass">>,
     url |-> <<"url", "uri", "website", "web site", "web address", "login_uri", "site", "link">>,
     notes |-> <<"notes", "note", "comments", "comment", "extra", "description">>,
     folder |-> <<"folder", "group", "grouping", "category", "path">>,
     totp |-> <<"totp", "otpauth", "otp", "otpsecret", "otp secret", "login_totp">>]

\* [bug] a column nothing recognises is left out.
SuggestMappingWithoutRest(header) ==
    [placed |-> [field \in DOMAIN Candidates |->
                    IF HasColumns(header, {Candidates[field][1]}) THEN Candidates[field][1] ELSE ""],
     custom |-> {}]

\* One column for each field, and the rest carried.
SuggestMapping(header) ==
    LET placed == [field \in DOMAIN Candidates |-> FirstColumn(header, Candidates[field])]
    IN  [placed |-> placed,
         custom |-> {header[i] : i \in DOMAIN header}
                    \ {placed[field] : field \in DOMAIN placed}]

GenericRow(record, mapping) ==
    LayoutItem(record,
        [name |-> <<mapping.placed.name, mapping.placed.url>>,
         username |-> mapping.placed.username, password |-> mapping.placed.password,
         url |-> mapping.placed.url, notes |-> mapping.placed.notes,
         folder |-> mapping.placed.folder,
         carry |-> mapping.custom \cup {mapping.placed.totp}])

ParseGenericCsv(mapping) == mapping.placed.password # ""

\* The folder and the carried fields are written into the notes; a note also
\* takes the address and the user name there.
ToItemPlaintext(item) ==
    LET isLogin == item.type = "login" \/ item.password # {}
        carried == IF isLogin THEN {} ELSE item.username \cup item.urls
    IN  [type |-> IF isLogin THEN "login" ELSE "note",
         name |-> item.name,
         username |-> IF isLogin THEN item.username ELSE {},
         password |-> IF isLogin THEN item.password ELSE {},
         urls |-> IF isLogin THEN item.urls ELSE {},
         notes |-> item.notes \cup item.folderPath \cup carried \cup item.extra,
         favorite |-> item.favorite]
=============================================================================
