--------------------------- MODULE MCImportFormats ---------------------------
(***************************************************************************)
(* The files the formats are checked on: of each format, a first record    *)
(* with every choice of filled columns and of discriminator, and a second  *)
(* one that is full; and one table in every style of writing it, with      *)
(* values that need quoting, and damaged.                                  *)
(***************************************************************************)
EXTENDS ImportFormats

NoArchive == [endRecord |-> FALSE, directory |-> "sound", entries |-> <<>>]

Plain == [bom |-> FALSE, always |-> FALSE, last |-> TRUE, eol |-> <<"lf">>,
          damage |-> "none", at |-> <<0, 0>>]

CsvFile(header, records, style) ==
    [text |-> WriteTable((IF header = <<>> THEN <<>> ELSE << [i \in DOMAIN header |-> <<header[i]>>] >>)
                         \o records, style),
     json |-> NoJson, records |-> <<>>, archive |-> NoArchive,
     named1pux |-> FALSE, magic |-> FALSE,
     source |-> [r \in DOMAIN records |->
                    LET names == IF header = <<>> THEN KeeperPositions ELSE header IN
                    [flaw |-> "none",
                     cells |-> [c \in {names[i] : i \in DOMAIN names} |->
                                   records[r][CHOOSE i \in DOMAIN names : names[i] = c]]]],
     columns |-> IF header = <<>> THEN KeeperPositions ELSE header, style |-> style,
     kind |-> IF header = <<>> THEN "headerless" ELSE "csv", damaged |-> style.damage # "none"]

\* All the keys but up to two, or up to two of them beside the password.
Selections(keys) ==
    LET few == {{a, b} : a \in keys, b \in keys} \cup {{}} IN
    {{}} \cup {keys \ f : f \in few}
         \cup {f \cup (keys \cap {"password", "login_password"}) : f \in few}

\* What a filled column holds: its own name, or a flag.
Content(column) == IF column \in {"fav", "favorite", "reprompt"} THEN <<"1">> ELSE <<column>>

\* Rows with the columns in filled set, and the
\* discriminating column to one of its words.
Rows(header, column, words) ==
    {[i \in DOMAIN header |->
        IF header[i] = column THEN word
        ELSE IF header[i] \in filled THEN Content(header[i]) ELSE <<>>] :
     filled \in Selections({header[i] : i \in DOMAIN header} \ {column}), word \in words}

FullRow(header, column, word) ==
    [i \in DOMAIN header |-> IF header[i] = column THEN word ELSE Content(header[i])]

Vendor(header, column, words, word) ==
    {CsvFile(header, <<row, FullRow(header, column, word)>>, Plain) :
     row \in Rows(header, column, words)}

CsvFiles == UNION {
    Vendor(<<"url", "username", "password", "totp", "extra", "name", "grouping", "fav">>,
           "fav", {<<"0">>, <<"1">>}, <<"0">>),
    Vendor(<<"url", "username", "password", "extra", "name", "grouping">>,
           "url", {SecureNoteUrl, <<>>}, <<"url">>),
    Vendor(<<"name", "url", "additional_urls", "username", "password", "note", "cardholdername",
             "cardnumber", "cvc", "expirydate", "zipcode", "folder", "full_name", "phone_number",
             "email", "address1", "address2", "city", "country", "state", "type",
             "custom_fields">>,
           "type", {<<>>, <<"password">>, <<"note">>, <<"identity">>}, <<"password">>),
    Vendor(<<"url", "username", "password", "httprealm", "formactionorigin", "guid",
             "timecreated", "timelastused", "timepasswordchanged">>,
           "guid", {<<"guid">>}, <<"guid">>),
    Vendor(<<"title", "url", "username", "password", "notes", "otpauth">>, "", {<<>>}, <<>>),
    Vendor(<<"name", "url", "username", "password">>, "", {<<>>}, <<>>),
    Vendor(<<"group", "title", "username", "password", "url", "notes", "totp", "icon",
             "last modified", "created">>, "", {<<>>}, <<>>),
    Vendor(<<"account", "login name", "password", "web site", "comments">>, "", {<<>>}, <<>>),
    Vendor(<<"username", "username2", "username3", "title", "password", "note", "url",
             "category", "otpsecret">>, "", {<<>>}, <<>>),
    Vendor(<<"folder", "favorite", "type", "name", "notes", "fields", "reprompt", "login_uri",
             "login_username", "login_password", "login_totp">>,
           "type", {<<>>, <<"login">>, <<"note">>, <<"card">>}, <<"login">>),
    Vendor(<<"title", "website", "username", "password", "otpauth", "archived", "tags", "notes">>,
           "archived", {<<"true">>, <<"false">>}, <<"true">>),
    Vendor(<<"title", "email", "secret", "pass", "link", "colour">>, "", {<<>>}, <<>>),
    Vendor(<<"title", "email", "link">>, "", {<<>>}, <<>>),
    {CsvFile(<<>>, <<row, FullRow(KeeperPositions, "", <<>>)>>, Plain) :
     row \in Rows(KeeperPositions, "", {<<>>})} }

-----------------------------------------------------------------------------
\* Styles of one table.
Passwords == {<<"pw">>, <<"pw", "comma">>, <<"pw", "quote", "x">>, <<"quote">>,
              <<"pw", "lf">>, <<"cr", "lf", "pw">>, <<>>}

Styles == [bom : BOOLEAN, always : BOOLEAN, last : BOOLEAN,
           eol : {<<"lf">>, <<"cr">>, <<"cr", "lf">>}, damage : {"none"}, at : {<<0, 0>>}]

BrowserRow(user, pw, note) == << <<"site">>, <<"address">>, user, pw, note >>
BrowserHeader == <<"name", "url", "username", "password", "note">>

StyledFiles ==
    {CsvFile(BrowserHeader, <<BrowserRow(user, pw, note), BrowserRow(<<"me">>, pw2, <<>>)>>,
             style) :
     user \in {<<>>}, pw \in Passwords, pw2 \in {<<"pw", "comma">>, <<"quote">>, <<>>},
     note \in {<<>>, <<"a", "lf", "lf", "comma", "b">>}, style \in Styles}

\* Nothing can tell a damaged file from a sound one when the next quoted value
\* begins with what may follow a closing quote, so none here does.
DamagedFiles ==
    {CsvFile(BrowserHeader, <<BrowserRow(<<"me">>, pw, note), BrowserRow(<<"me">>, pw2, <<>>)>>,
             style) :
     pw \in {p \in Passwords : \E i \in DOMAIN p : p[i] = QUOTE},
     pw2 \in {p \in Passwords : p # <<>> /\ p[1] \notin LineEnds \cup {DELIMITER}},
     note \in {<<>>, <<"a", "lf", "b">>},
     style \in [bom : {FALSE}, always : BOOLEAN, last : BOOLEAN, eol : {<<"lf">>},
                damage : {"unclosed", "undoubled"}, at : {<<2, 4>>}]}

-----------------------------------------------------------------------------
\* JSON exports.
Record(list, details, cells) ==
    [list |-> list, details |-> details, flaw |-> "none", cells |-> cells]

Filled(keys) == {[k \in filled |-> <<k>>] : filled \in Selections(keys)}

JsonFile(json, records) ==
    [text |-> <<"{">>, json |-> json, records |-> records, archive |-> NoArchive,
     named1pux |-> FALSE, magic |-> FALSE, kind |-> "json", damaged |-> FALSE,
     source |-> records, columns |-> <<>>, style |-> Plain]

Keys(arrays, objects, true, defined) ==
    [arrays |-> arrays, objects |-> objects, texts |-> {}, true |-> true, defined |-> defined]

WithKind(key, words, cells) == {cell @@ [k \in {key} |-> word] : cell \in cells, word \in words}

NotAnObject == [Record("", FALSE, [k \in {"name"} |-> <<"name">>]) EXCEPT !.flaw = "shape"]

JsonFiles == UNION {
    {JsonFile(Keys({"items", "folders"}, {}, {}, {"encrypted"}),
              <<NotAnObject, Record("", details, cells)>>) :
     details \in BOOLEAN,
     cells \in WithKind("type", {<<"1">>, <<"2">>, <<"3">>},
                 Filled({"name", "notes", "username", "password", "uris", "totp",
                         "collectionIds", "folderOfId", "folderId"}))},
    {JsonFile(Keys({}, {"vaults"}, {}, {"encrypted"}), <<Record("", details, cells)>>) :
     details \in BOOLEAN,
     cells \in WithKind("type", {<<"login">>, <<"note">>, <<"alias">>},
                 WithKind("state", {<<"1">>, <<"trashed">>},
                   Filled({"name", "note", "vault", "extraFields", "itemUsername", "itemEmail",
                           "password", "totpUri"})))},
    {JsonFile(Keys({"AUTHENTIFIANT"}, {}, {}, {}), <<Record("AUTHENTIFIANT", TRUE, cells)>>) :
     cells \in Filled({"title", "name", "login", "email", "password", "note", "category", "url",
                       "domain", "otpSecret"})},
    {JsonFile(Keys({list}, {}, {}, {}), <<Record(list, TRUE, cells)>>) :
     list \in RecordLists \ {"AUTHENTIFIANT"}, cells \in Filled({"title", "name", "content"})},
    {JsonFile(Keys({"records", "shared_folders"}, {}, {}, {}), <<Record("", TRUE, cells)>>) :
     cells \in Filled({"title", "login", "password", "login_url", "notes", "folders",
                       "otherFolders", "custom_fields"})},
    \* Envelopes: which keys a file has, whatever they hold.
    {JsonFile(Keys(arrays, objects, true, true \cup defined), <<>>) :
     arrays \in {{}, {"items"}, {"items", "collections"}, {"records"}, {"records", "shared_folders"}},
     objects \in {{}, {"items"}}, true \in SUBSET {"encrypted", "passwordProtected"},
     defined \in {{}, {"encrypted"}}},
    {JsonFile(Keys({}, objects, true, true \cup defined), <<>>) :
     objects \in SUBSET {"vaults"}, true \in SUBSET {"encrypted"},
     defined \in {{}, {"encrypted"}}},
    {JsonFile([NoJson EXCEPT !.texts = texts, !.true = true, !.defined = texts \cup true], <<>>) :
     texts \in SUBSET {"data"}, true \in SUBSET {"passwordProtected", "encrypted"}} }

-----------------------------------------------------------------------------
\* 1Password archives: what may be wrong with one, and a decoy of the same name.
Damages == {{}} \cup {{UnreadableEntries[i]} : i \in DOMAIN UnreadableEntries}

Entry(name, fails, text, cells) ==
    [name |-> name, fails |-> fails,
     data |-> [text |-> text, json |-> Keys({"accounts"}, {}, {}, {}),
               records |-> <<Record("", TRUE,
                   IF fails = {} THEN cells ELSE [k \in {"password"} |-> <<"garbled">>])>>]]

ZipFile(cells, named, end, directory, name, fails, text) ==
    [text |-> <<"{">>, json |-> NoJson, records |-> <<>>, named1pux |-> named,
     magic |-> TRUE, kind |-> "archive", damaged |-> FALSE, source |-> <<Record("", TRUE, cells)>>,
     columns |-> <<>>, style |-> Plain,
     archive |-> [endRecord |-> end, directory |-> directory,
                  entries |-> <<Entry(name, fails, text, cells)>>]]

ZipFiles ==
    {ZipFile(cells, TRUE, TRUE, "sound", "export.data", {}, TRUE) :
     cells \in WithKind("categoryUuid", {<<"001">>, <<"003">>, <<"002">>},
                 Filled({"title", "notesPlain", "vault", "sections", "password", "username",
                         "urls", "url", "tags", "account", "otherFields"}))}
    \cup
    {ZipFile([k \in {"password", "categoryUuid"} |-> IF k = "password" THEN <<k>> ELSE <<"001">>], named, end, directory, name, fails, text) :
     named \in BOOLEAN, end \in BOOLEAN, directory \in {"sound", "damaged"},
     name \in {"export.data", "files"}, fails \in Damages, text \in BOOLEAN}

MCFiles == CsvFiles \cup StyledFiles \cup DamagedFiles \cup JsonFiles \cup ZipFiles

\* The files are as the theorems of ImportFormatsProofs have them.
ASSUME ArchivesAreExports /\ ExportsAreKnown /\ FilesAreWritten
=============================================================================
