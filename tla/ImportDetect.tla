---------------------------- MODULE ImportDetect -----------------------------
(***************************************************************************)
(* Format detection (packages/vault/src/import/detect.ts).                 *)
(*                                                                         *)
(* The evidence on a file is its name's ending, its first characters, its  *)
(* header row and, of a JSON object, which keys hold arrays, objects,      *)
(* texts, the value true, or anything at all.                              *)
(***************************************************************************)
EXTENDS ImportParsers

HeaderSet(file) == {file.header[i] : i \in DOMAIN file.header}

\* All the columns and no others, in any order.
HeaderSetIs(file, columns) == Len(file.header) = Cardinality(columns) /\ columns \subseteq HeaderSet(file)

IsChromium(file) ==
    \/ HeaderSetIs(file, {"name", "url", "username", "password", "note"})
    \/ HeaderSetIs(file, {"name", "url", "username", "password"})

\* The plain and the account-encrypted export have items; the
\* password-protected one is a single text.
IsBitwardenJson(json) ==
    IF "items" \in json.arrays
    THEN json.arrays \cap {"folders", "collections"} # {} \/ "encrypted" \in json.defined
    ELSE "passwordProtected" \in json.true /\ "data" \in json.texts

\* FORMAT_SIGNATURES, in the order they are tried.
SignatureOrder ==
    <<"bitwarden-json", "protonpass-json", "dashlane-json", "keeper-json", "onepassword-1pux",
      "bitwarden-csv", "lastpass-csv", "chromium-csv", "firefox-csv", "safari-csv",
      "onepassword-csv", "keepassxc-csv", "keepass-csv", "nordpass-csv", "dashlane-csv">>

\* [bug] NordPass's exports are told by columns that others write too.
SignatureColumnsShared(id) ==
    CASE id = "bitwarden-csv" -> {"login_uri", "login_username", "login_password", "reprompt"}
      [] id = "lastpass-csv" -> {"grouping", "extra", "url", "username", "password"}
      [] id = "firefox-csv" -> {"url", "username", "password", "httprealm", "formactionorigin",
                                "guid"}
      [] id = "onepassword-csv" -> {"title", "password", "otpauth", "archived", "tags"}
      [] id = "keepassxc-csv" -> {"group", "title", "username", "password", "url", "notes",
                                  "totp"}
      [] id = "nordpass-csv" -> {"name", "url", "username", "password"}
      [] id = "dashlane-csv" -> {"title", "password", "url", "otpsecret", "category"}

\* The columns that tell most CSV exports.
SignatureColumns(id) ==
    CASE id = "bitwarden-csv" -> {"login_uri", "login_username", "login_password", "reprompt"}
      [] id = "lastpass-csv" -> {"grouping", "extra", "url", "username", "password"}
      [] id = "firefox-csv" -> {"url", "username", "password", "httprealm", "formactionorigin",
                                "guid"}
      [] id = "onepassword-csv" -> {"title", "password", "otpauth", "archived", "tags"}
      [] id = "keepassxc-csv" -> {"group", "title", "username", "password", "url", "notes",
                                  "totp"}
      [] id = "nordpass-csv" -> {"name", "url", "username", "password", "cardholdername", "cvc",
                                 "folder"}
      [] id = "dashlane-csv" -> {"title", "password", "url", "otpsecret", "category"}

\* A signature's matches().
Matches(id, file) ==
    CASE id = "bitwarden-json" -> IsBitwardenJson(file.json)
      [] id = "protonpass-json" -> "vaults" \in file.json.objects
                                   /\ "encrypted" \in file.json.defined
      [] id = "dashlane-json" -> file.json.arrays \cap RecordLists # {}
      [] id = "keeper-json" -> {"records", "shared_folders"} \subseteq file.json.arrays
      [] id = "onepassword-1pux" -> file.named1pux /\ file.magic
      [] id = "chromium-csv" -> IsChromium(file)
      [] id = "safari-csv" ->
           \/ HeaderSetIs(file, {"title", "url", "username", "password", "notes", "otpauth"})
           \/ HeaderSetIs(file, {"title", "url", "username", "password", "notes"})
      [] id = "keepass-csv" ->
           file.header = <<"account", "login name", "password", "web site", "comments">>
      [] OTHER -> HasColumns(file.header, SignatureColumns(id))

\* The signatures that recognise a file, by their places.
Signatures(file) == {k \in DOMAIN SignatureOrder : Matches(SignatureOrder[k], file)}

\* The parser a signature names.
ParserOf(signature) ==
    CASE signature \in {"chromium-csv", "firefox-csv", "safari-csv"} -> "browser-csv"
      [] signature = "keepassxc-csv" -> "keepass-csv"
      [] OTHER -> signature

Detect(file) ==
    IF Signatures(file) = {} THEN "generic-csv"
    ELSE ParserOf(SignatureOrder[Min(Signatures(file))])
=============================================================================
