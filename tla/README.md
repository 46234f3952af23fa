# Keyhole in TLA+

Keyhole is an end-to-end encrypted password vault for a household or a small
team. A Go server keeps ciphertext in SQLite and serves an HTTP API; a browser
client derives the keys, decrypts, caches and edits. The server can read
nothing, so what it can get wrong is *which* rows exist, who is given them, in
which order, and whose credentials are current. What the client can get wrong is
when: every `await` is a point at which the tab may lock, the user may click on,
or another answer may arrive. This directory models both halves, model-checks
them with TLC and proves part of it with TLAPS.

## Inventory

| Component | State | Operations | Hard behaviour | What makes it correct |
|---|---|---|---|---|
| vault store (`internal/store`: items, folders, collections, sync, revision, retention) | rows with a revision each, memberships with the revision they were granted at, one revision sequence | create in bulk, update with expected revision, tombstone, purge, member add/remove, grant, fulfil | one number orders every change of every kind; cascades over several tables | every change is numbered above all cursors, references resolve, a delete is final |
| vault handlers (`internal/httpapi`) | none | check, then one transaction | the row checked is not the row written | writes land on what was checked |
| client vault store (`packages/vault/src/store.ts`) | cursor, decrypted items, folders, collections | load, resync, merge, upsert, remove, clear | syncs and saves overlap; answers are applied late or never | the cursor never passes a row the cache lacks; the cache converges |
| accounts (`internal/store` and its handlers) | status and wrapped keys, invites, sessions, recovery tokens | create, invite, enrol, log in, refresh, revoke, rotate, recover, disable, reset, delete | check and Argon2id first, transaction later; single-use tokens | tokens work once, keys are never overwritten, no half-written account, an administrator remains |
| client session and API (`session.ts`, `api.ts`, `unlock.ts`, `collections.ts`, `App.tsx`) | tokens, user key, keyring of shared buffers | unlock, lock, refresh on 401, adopt collections, create a collection | keys blanked by identity while calls hold them | no key is left behind, no key in use is blanked, no call loops |
| auto-lock (`autolock.ts`, `preferences.ts`) | setting, timer, last activity | touch, wake, fire, change the setting | a timer that sleeps with the machine | never early, and eventually |
| client account flows (`enroll.ts`, `recover.ts`, `account.ts` and their screens) | forms, a recovery session | enrol, redeem, complete, regenerate, change | the answer of the commit is lost, or comes late | a code in force is in its user's hands |
| panels (`useAdminPanel.ts`, `useCollectionsPanel.ts` and their screens) | lists loaded once, a revealed invite | create, reissue, reset, grant, fulfil, add, remove, page the audit log | a load or a refresh that races a change | a one-time invite is shown, keys go to their member |
| vault screen (`VaultScreen.tsx`, `ItemEditor.tsx`, folders) | the item edited, the form | open, type, save, delete, file | conflicts with another device | no silent overwrite, no lost text |
| import (`packages/vault/src/import`, `ImportScreen.tsx`) | file, preview, choices, chunks | detect, parse, map, dedupe, upload | fourteen formats, damaged files, a chunk whose answer was lost | nothing dropped silently, the report is true |
| backup, restore, update (`internal/backup`, `internal/release`, `cmd/keyhole`) | two binaries, a database and its log, snapshots, the service | snapshot, swap, migrate, start, roll back, restore | any step fails; a crash between any two | a version that can start, a true report, no lost copy |
| service worker, rate limiter, hashing, tokens, client crypto, configuration, audit, static files | see *Not modelled* | | | |

Interactions: the client calls the handlers over HTTP and nothing else; the
handlers call the store; the store's transactions are serialised by SQLite. An
account that is reset or deleted changes the vault tables too (`ResetUser` and
`DeleteUser` are in both `VaultStore` and `Accounts`, each with its own tables).
A membership connects the two: it decides which rows a sync sends, and its sealed
key which of them can be opened. In the tab, `App` owns one session and one vault
store; every hook and screen works on those two, and the auto-lock and a failed
refresh take both away under whatever is in flight.

## Modules

**VaultStore** is the vault half of `internal/store`. Every method is one
transaction and one action; a transaction that fails rolls back and is no step.
An id is `unborn`, then `live` or `tombstone`, then `gone`. Of a ciphertext only
the key it is under is kept. `SyncSince` is the snapshot a sync is answered
from, with both halves of its filter (the row's own revision, and the revision
of the membership that shows it). Authorisation is the handlers' business: the
store trusts its caller, and `Next` lets anybody call anything, so the proofs
hold whatever the handlers do. `PurgeTombstones` takes the tombstones up to some
revision: the clock is monotone along the sequence.

**VaultSync** puts devices in front of it. A sync is `RequestSync` (leaves with
the cursor of that moment), `AnswerSync` (one snapshot), `ApplySync` (merged
after decryption); a save is a request with the handler's check, a commit, and
`ApplySave`. `DropCall` is a refusal, a failure or a lost answer. A device may have
several calls in flight: the code does not prevent it. What that costs is kept in the
history variable `overtaken`, the rows that an answer applied in the wrong order may
have left older than the cursor says. Everyone else is `OtherClients`, any transaction
of `VaultStore`.

**Accounts** is the users half. A handler is a check that leaves a job and a
transaction that consumes it, and `Requests` of them run at once; `DropJob` is a
request refused, cut off or failed (`SQLITE_BUSY_SNAPSHOT` included). Passwords,
codes and user keys are numbers; `userKey`, `recoveryKey` and `privateKey` say
which user key is inside each of the three blobs. A session's row has the number
of its current token pair, the last pair that was handed out, and, for the
properties, what its client logged in with. `Expire` lets an invite, a recovery
token or a session pass its deadline at any time; the 30-minute life of an access
token is left out, since a refresh restores it. `DeleteUser` does not know the
references that make the real one refuse: it may delete more than the code would.

**ClientSession** is one tab with up to two calls in flight. `zeroize` works on
buffers, so keys are buffers in a small `heap`: whoever still points at a blanked
one sees zeros. A call (`unlock`, `load`, `resync`, `save`, `create`) is a record
that remembers what it captured, and each of its `await`s ends a step. A request
answered 401 goes through the one refresh of `App.tsx`; a failed refresh locks.

**AutoLock** has the wall clock (`idle`) and the timer (`left`), which counts only
while the machine is awake. Sleep, wake, visibility, activity, a change of the
setting and what storage holds are its actions.

**Credentials** is enrolment, recovery, password change and recovery-code change
of one account from one tab. A secret is minted by the client and stored by the
server; a call may be refused, its answer lost, and a request the client gave up
may still commit. `waits` says whether a form, a promise or nobody is there for
the answer.

**Panels** is an administrator's Admin and Collections tab. A hook's state lives
as long as the vault is open, a screen's as long as its tab is shown. The administrator waits
for nothing the screen does not make them wait for. The server lists every pending
grant to an administrator, also of collections whose key is not held (`Held`), and
fulfilling one of those fails in the client.

**ItemEditing** is the Vault tab: `VaultScreen` knows which item is edited,
`ItemEditor` what was typed, and another device writes to the same rows. A row may be
one this device cannot decrypt: it is in the list as a notice, cannot be opened, and as
the winner of a conflict it is not shown. The user clicks on while an answer is awaited.

**ImportCsv**, **ImportZip**, **ImportDetect**, **ImportParsers** are the readers
as operators: the CSV reader as a loop over its states, a character or two a turn (text
is cut into letters, the quote, the delimiter, line ends and the byte order mark), an archive as its
entries and their flaws, a signature as what it looks at, a parser as the columns
it requires, reads, carries and refuses. **ImportFormats** takes a file from
inspection to its items with them. **ImportUpload** is `uploadItems`,
**ImportPromise** what it promises (confirmed items are there, only those in doubt
may be, without an error all are; and one request's items more may be there when an
answer could not be read, which the code takes for a refusal), and **ImportFlow** the
screen above it.

**Update** is `keyhole update`, `restore` and `backup` with the service under
systemd. A database is its schema version and the writes in it; `wal` is what
opening it gives while a log lies beside the file. Every step of a command is an
action that may fail as the code handles it; `CommandKilled` and `MachineCrash`
strike between any two.

`*Proofs` hold the theorems, `MC*` and the `.cfg` files the instances.

## Runs

| Run | Shows |
|---|---|
| `store` | unique revisions, resolving references, no unnumbered change, no revived row, under every mix of transactions on 2 users, 1 collection, 2 items, 1 folder, 4 revisions |
| `sync` | with two calls of the device in flight the cursor never passes a row the cache lacks and incremental syncs alone bring the device up to date, but for the rows an answer in the wrong order has overtaken; an update acts on the row that was checked |
| `item_keys` | **violation**: a shared item saved as personal is re-encrypted for one user and left in the collection |
| `accounts` | two concurrent requests on two accounts: key material only in accounts that are set up, key pairs not replaced, tokens work once, only a reset takes the last administrator away |
| `session` | two calls, two sign-ins, locks and expiring tokens: no key buffer is left unblanked without an owner, the key of an open session is whole, every step of a call brings it closer to its end |
| `autolock` | the timer follows the setting, never runs ahead of the clock, and an unattended tab locks |
| `credentials` | the code an answered enrolment or any recovery put in force is in its user's hands, a confirmed credential stands against late requests |
| `panels` | one-time invites are shown, accounts that wait for one stay listed, a fulfilled grant is not offered again, keys are sealed to their member, for an administrator who clicks on |
| `editing` | what is saved for an item was typed for it, over a version the user was shown or this device cannot read; typed text is kept; each item is under one folder |
| `formats` | exports of every supported manager with all their columns, sound and damaged: one signature each, a parser that reads them, every value read back or carried, no blank passwords |
| `import` | what was previewed is imported, rows add up, requests fit, `ImportUpload` implements `ImportPromise`, and the screen comes back, with clicks while it reads and answers lost or unreadable |
| `update` | a version is always on disk, reports are true, a failed rollback names binary, database and service each by itself, no step takes the last copy of a write unless a log was left behind or the service still runs |

Each property of a passing run has a mutated form of the code, a plausible bug
(the `[bug]` operators of the modules), under which TLC finds it violated.

Several passing properties are conjunctions (`SessionInv`, `TimerInv`,
`ConfirmedStands`, `SharingInv`, `EditingInv`, `ItemsInv`, `FlowInv`): a module's
type invariant with the state invariants that belong together. Four more hold and
can be had with a line more in the run's configuration: `NothingStaysBusy`
(`credentials`) and `SaveEnds` (`editing`), no form stays busy whatever is lost;
`UpdateEnds` (`update`), an update ends with a report unless it is cut off; and the
inductive invariant `InOrderSync` (`sync`), which is proved.

### Further configurations, each ending in a counterexample

Here the code does what a comment or document of the repository says it does not.
The first eight have a `.cfg` of their own; the others are a run's configuration
with the change and the property named.

| Configuration | Property | Counterexample | What the repository says |
|---|---|---|---|
| `MCVaultSyncOverlap` | `NoRowIsPassed` | a load read before a newer resync and applied after it rolls the cache back; a resync that left with the newer cursor then passes the row | `internal/store/sync.go:61`, "a write committing mid-read cannot produce a cursor past a row the client never received" |
| `MCVaultSyncSaveRace` | `NoRowIsPassed` | a save's answer overwrites a newer row that a sync has already delivered | the same |
| `MCVaultSyncLost` | `NothingFromLostCollections` | items of a collection that was deleted, or left, stay in the cache | `docs/superpowers/plans/2026-07-26-keyhole-vault-api.md:124`, "The client drops items whose `collectionId` is no longer in the collections list" |
| `MCAccountsLogin` | `SessionsKnowPassword` | a login checked before a password change and stored after it survives the change | `internal/store/account.go:53`, "leaving other devices signed in makes the action mean far less than they believe" |
| `MCAccountsKeys` | `KeysAgree` | a recovery token from before a reset is spent after the account was set up again: both credentials now open the old key, the private key is under the new one | `internal/store/recovery.go:103`, "a token that would otherwise stay usable ... against an account whose credentials have since changed" |
| `MCAccountsActivate` | `ActiveHasKeys` | a pending account is activated without credentials | `internal/store/users.go:79`, "usable only when its owner completes an invite" |
| `MCAccountsLastAdmin` | `AdminRemains` | the only administrator is reset | `internal/store/ids.go:56`, "no administrator, and therefore no way to create one" |
| `MCClientSessionZeroKey` | `StoredItemsOpen` | a save captured a collection key that a resync then replaced and blanked: the item is stored under a key of zeros | `packages/vault/src/items.ts:57`, "writing an item nobody can open is not something to do quietly" |
| `MCClientSession` | `TabHoldsOnlyItsSession` | a load answered after a lock puts decrypted items and keys into the locked tab | `packages/vault/src/store.ts`, "Its lifetime is tied to clear(), which the UI calls whenever the session locks" |
| `MCAutoLock` | `WakeRechecksTheClock` | after a sleep past the limit, a pointer or key event that comes before the timer starts the count again | `apps/web/src/vault/autolock.ts:50`, "Every wake re-checks the wall clock" |
| `MCCredentials` | `SettingsCodeReachesUser` | the user leaves the tab while the request runs: the answer arrives, the new code is in force, and the dialog that would show it is gone | `SettingsScreen.tsx:290`, "letting someone click past this replaces their only other way in with nothing, silently" |
| `MCImportFlow` | `ImportsOnlyWhatWasPreviewed` | the format is changed while a preview is read; the preview of the old format is confirmed and the file is parsed again in the new one | `useImportPanel.ts:114`, "re-parsing here yields the same items in the same order the preview reported" |
| `MCImportFlow` | `NothingLandsUnreported` | a chunk is stored and the body of its answer does not parse: the `ApiError` carries the 201, which counts as a refusal, and the chunk is reported neither as uploaded nor in doubt (`api.ts:125`) | `packages/vault/src/import/upload.ts:116`, "Only a 4xx qualifies" |
| `MCItemEditing` | `EverySaveIsOfItsOwnText` | a save is cancelled and a new item begun; the save then ends in a conflict and makes its own item the edited one again under the new item's form, whose *Save* writes that text over it (`VaultScreen.tsx:388`) | `VaultScreen.tsx:384`, "ItemEditor's own form state (what the user typed) is untouched by this, so their edit is still right there to resubmit" |
| `MCItemEditing` | `NoTypedTextIsLost` | the user types on while a save is under way; its answer closes the form | the same |
| `MCItemEditing` | `NoUnseenOverwrite` | the version that won a conflict does not decrypt: its revision is adopted, no banner shows it, and the retried save replaces it | `VaultScreen.tsx:382`, "Adopt the winning revision so a retried Save applies on top of it" |
| `MCPanels` | `NoAccountIsStranded` | the first load is answered after an account was created that it does not list, and is put in the table; the tab is left with the invite on it, and no row is there to reissue it from | `AdminScreen.tsx`, "reissue a new one if it is lost" |
| `MCPanels` | `MembersAreOfTheOpenCollection` | another collection is opened while the members of the first are on their way: they come last and are shown under the second | `useCollectionsPanel.ts` shows one `members` list for the one selected collection |
| `MCPanels`, `MaxOps = 5` | `GrantsCanBeOpened` | the directory was loaded before its member was reset and enrolled again: the key is sealed to a key pair nobody has | `packages/vault/src/collections.ts:214`, "nothing anywhere reports it" |
| `MCPanels` | `OlderEntriesAreReached` | *Load older* sends the time of the last entry, the server expects its id, knows no such entry, and answers nothing (`internal/store/audit.go:85`) | `internal/store/audit.go:60`, "beforeID is the id of the last entry the caller already has" |
| `MCUpdate` | `NoWriteVanishes` | the service is killed on stop and leaves its log, with a write made after the snapshot; the rollback moves only the database file aside and puts the snapshot beside that log | `internal/backup/backup.go:125`, "it must not cost them their last copy" |
| `MCUpdate` | `CodeReadsItsSchema` | starting the new version and the rollback's stop both fail; the binary is put back, and systemd starts it before the database is | `internal/release/install.go:407`, "the old code would be back, reading a database the new code's migrations already rewrote" |
| `MCUpdate` | `InstructionsSuffice` | the migration fails and the binary cannot be put back: the new version starts, migrates the restored database, and the instructions name the binary alone | `internal/release/install.go:234`, "names the steps that are actually outstanding" |
| `MCUpdate` | `NoInstructionsMeansServing` | the rollback's stop fails and the old version comes up before the database is moved aside: it serves from the file moved away, and no step is named | `internal/release/install.go:451`, "renders nothing at all when nothing is outstanding" |
| `MCUpdate`, `StopsFirst = FALSE` | `ReportIsTrue` | `restore` probes the lock once; the service comes up before the log is removed and loses the log it writes to, and the report says restored | `restore` refuses while the service holds the database |

### Bounds

Each counterexample and each mutant appears within them.

* `store`, `sync`, `accounts`: 4 revisions (`sync` 3), 2 users, one collection, 2 calls
  or requests, 2 secrets. One collection suffices: the questions are about
  membership in it. In the sync runs the only device is `u1`'s: devices share
  nothing but the store, and every writer the device can meet is in
  `OtherClients`. `NoGrantPending` leaves pending grants to the `store` run: a
  grant touches no sync until its fulfilment, which is `AddMember`. In `sync` calls
  overlap only before the last write and before there are folders (`BoundedOverlap`):
  enough for `NoRowIsPassed` to be violated there. With `MaxPair`
  2 a refresh token can be offered again after its pair was replaced.
* `session`: two calls, which is what it takes for one to blank what the other
  holds; 4 buffers, 2 sign-ins and 1 key rotation, so that an answer of the first
  session meets the second one.
* `autolock`: limits of 1 to 3 minutes and 6 minutes of clock, so that a sleep can
  pass every limit.
* `credentials`: 3 secrets, 2 recovery tokens, 2 calls: one given up, one confirmed.
* `panels`: 2 users, one of them enrolled, 2 collections, one of them held, 4
  operations, 2 invites, audit pages of one entry.
* `editing`: 2 items, one stored and one new, 2 folders, one listed, 2 operations, one
  text typed beside the blank and the loaded ones, and one write of a second device to
  the same rows.
* `formats`: the files are enumerated in `MCImportFormats`: an export per supported
  manager and the damages its reader names.
* `import`: 2 files, 2 rows or 4 bytes per request: several chunks, and an item
  larger than a chunk.
* `update`: 2 versions, 2 commands, 1 write, 2 snapshots with 1 kept, and 1 fault,
  which is each single failure of each step.

No property that holds, and no theorem, rests on a user who waits or on a device whose
calls come one at a time. Where the code then breaks a promise, a history variable names what it is broken
for, the property excepts exactly that, and the property without the exception is in the
table above: `overtaken` (`VaultSync`: rows older than the cursor says; `Panels`: accounts
a list was put in the table without), `crossed` (`Panels`: a collection was opened while
another's members were on their way), `displaced` (`ItemEditing`: a conflict put another
item under the form), `touched` (`ImportFlow`: file or format changed while that preview
was being read). None of them is read by an action.

Deadlock is checked where the system always has a next step (`session`,
`autolock`, `import`). Elsewhere the bounded counters run out, and a vault nobody
uses may rest.

### Fairness

* `sync`: each focus of the tab starts a resync, and the user comes back (strong
  fairness of `RequestSync`, which a save in flight may disable again and again);
  no request stays open for ever (weak fairness of `DropCall`: browsers and the
  server time out); syncs do not fail for ever (strong fairness of answering and
  applying). Nothing is assumed of saves or other users.
* `autolock`: the clock runs on and a due timer fires (`Tick`, `Fire`); nothing is
  assumed of waking or of the user.
* `credentials`, `panels`, `editing`: a request is answered, refused or given up
  (`Settle`): `fetch` rejects when the connection ends.
* `import`: the same of the screen's own calls (`Answer`).
* `update`: the command runs on (`JobStep`): each of its waits has a deadline, and
  being killed or crashed is an action of its own.

## Proofs

For every number of users, rows, devices, requests, items and releases. A safety
property of a run is rarely inductive; each module keeps the invariant that is
beside it, under a comment that says why it holds.

**Vault** (`VaultProofs`)

* The store: `TypeCorrect`, `RevisionsUnique`, `ForeignKeysHold`,
  `NumbersCoverChanges`, `DeletesStand`. `OwnRevision` is inductive once every
  number is known to be at most `revision`, which is part of it; a bulk insert
  draws one number per row (`CreateItemsEffect`).
* The devices: `SyncTypeCorrect`; `SyncImplementsStore` (every device step
  is a store step or leaves the tables alone, so the store's theorems hold with
  devices around); `OverlappingCallsStaySound` and from it `CursorNeverPassesARow`, for
  any number of calls of each device. `CursorSound` by itself is not inductive:
  `InOrderSync` adds that an answer carries, or was asked from past, each row behind its
  own cursor (`AnswerSound`), that no call has a cursor ahead of the sequence
  (`NeverAhead`), and what a save that comes back may put in the cache (`CallSound`).
  An answer asked from behind the device's cursor still covers what it sets the cursor
  back to (`BehindLater`); one asked from past it leaves in doubt all it does not carry.
  The heart is `BehindStable`: a store step cannot make a row that is behind a
  cursor different and still behind it, because every change is numbered
  (`NumberedStep`).
* `UpdatesHitTheCheckedRow`, for overlapping calls too. An update compares revisions,
  not contents, so it needs that nobody holds a revision the row has yet to reach
  (`NothingAhead`).

**Accounts** (`ServerProofs`): `AccountsTypeCorrect`; `PendingStaysBlank`,
`KeyPairsStand` and `AdminsStand` from one lemma, `UsersStep`, that lists the four
ways a step may write a users row; `TokensWorkOnce` from `SpentTokens` (a redeemed
token is used, gone, or has a later pair in its session) and from `TablesForward` (no
token returns from such a state). `KeyPairsStand` needs `PendingIsBlank`: an
enrolment overwrites a row, and only the blankness of pending rows makes that
harmless.

**The tab** (`SessionProofs`)

* `OpenSessionKeepsItsKey` and `NoKeyIsOrphaned`, over `TabInv` and `CallInv`, which
  say which buffers a call may point at in each place of its code. The keys of
  sign-ins and of collections are different buffers, so no adoption blanks the key of
  the session; a key leaves its owner only by being installed or blanked.
* `CallsComeToAnEnd`: every step of a call lowers its measure (`Place` and what is
  left of the loop over the collections), so a call has finitely many steps.
* `TimerIsRight`, for every set of limits; `TimerInv` is inductive as it stands.

**Account flows** (`CredentialsProofs`): `NewCodeIsNeverLost` and
`ConfirmedStandsAlways`, over `CredentialsInv`: secrets are drawn once (`FreshInv`),
a form waits for one call of its kind (`FormInv`), and an answer that was carried out
left nothing behind, no token, session or older secret, that a late request could
replace it with (`CodeInv`, `PasswordInv`).

**Panels** (`PanelsProofs`): `StrandedAccountsAreListed` and `SharingIsSound`, for an
administrator who waits for nothing. `PanelsInv` is four invariants on top of each other.
`AnyAdminInv` is the shapes, and that keys are sealed to the member. `OfferInv` carries
that no grant is offered again: one load of the panel at most is awaited, only while the
panel is not loaded, and nothing is fulfilled before it is. In `RowsInv` an invite
belongs to one account, and every account that needs its row has one (`NeedsRow`), in the
table or in the list an awaited call brings. `MembersInv` says of which collection the
members on their way are. Calls that were given up may still commit at any time.

**Vault screen** (`ItemEditingProofs`): `FormItemAndFolderBelongTogether` and
`TypedTextIsKept`, over `VaultTabInv`: a text carries the item it was typed for, and a
call knows whether it still belongs to the form on the screen (`OwnInv`).
`OnlyWhatWasShownIsReplaced`: `ShownInv` follows what was shown into the editor and into
each call.

**Import** (`ImportProofs`)

* `RequestsFit`, and `UploadKeepsItsPromise`, the refinement of `ImportPromise`. Both
  come from `UploadInv`, which says where every item is: confirmed items are stored, a
  chunk that left may be, the rest are not, and the chunk in hand is within both
  limits unless it is one item. An upload that ended on an answer it could not read
  (`misread`) may have stored that one request more than it reports.
* `ScreenImplementsUpload`: every step of the screen is a step of `ImportUpload` or
  leaves it alone, so `ScreenRequestsFit` and `ScreenKeepsItsPromise`.
* `UploadsWhatWasPreviewed` and `ScreenAccountsForEveryRow`, for a user who may click on
  while a file is read. In `PreviewInv` one read is under way; unless `touched`, it is of
  the file and the format on the screen, and so is the preview it ends in. What needs no
  such exception is `ScreenStaysWellFormed`. That the rows add up is a count over a
  filtered sequence: its n-th row is the least place at which n rows were kept (`LeastNatural`, `NthExists`),
  which takes the place of an induction.

**Import formats** (`ImportFormatsProofs`). The readers are loops. A loop over a text
or a list is a recursive function on `0 .. N`; `Induction` and `Recursion`, from the
natural numbers being well ordered, let a proof step through it.

* `ReaderCorrect`: `ReaderInv`, which the others rest on. The records read are those
  of the file, each an item or an error, and each item is what the parser made of one
  of them.
* `ItemsAreWhole`, for every file. `PlaintextOfOutcome` has the one fact about the
  parsers: whatever the format, an item holds the record's values alone, and a login
  has a password.
* `RecognisedFilesAreRead`: what a signature asks for its parser asks for too
  (`SignatureIsEnough`), when a readable archive under 1Password's name is 1Password's
  (`ArchivesAreExports`).
* `NothingIsLost`, with a lemma for each of the fourteen formats: every value lands,
  when the records are of their exporter's columns (`ExportsAreKnown`; `ExportColumns`
  lists them all, the times and counters among them, and `LeftBehind` those a parser
  reads past). That an item is found by its line needs the lines to increase, which
  `Ordered` says of every state of the reader.
* `WrittenTablesAreReadBack`, the round trip of the CSV reader: `ReadTo` says that the
  reader comes to a place in the text with so much read, and the lemmas take it over a
  character, a field, a record and the table. A record of one empty field is a blank
  line, hence two columns or more.
* `SoundFilesAreReadBack`: `ReadBackAsWritten` for every undamaged file, when they are
  written as `FilesAreWritten` says. What the right reader is handed are the records
  of the file (`SourceIsRead`), and what a parser makes of a record depends on nothing
  else of it (`SameOutcome`).
* `OneSignatureMatches`, for every file. A file is the export of a product when it is as
  that product writes it: a table of its columns in any order (`IsCsvExportOf`), or a
  document with its keys (`IsJsonExportOf`). Its own signature then matches
  (`OwnSignature`) and no other does: seven tables have a column no other signature can
  do without, those of Chrome, Safari and KeePass ask for exactly their columns, and each
  kind of document has a key of its own.

TLC evaluates the three hypotheses (`ArchivesAreExports`, `ExportsAreKnown`,
`FilesAreWritten`) for the files of `MCImportFormats`.

**Update** (`ServerProofs`), over `UpdateInv`

* `AVersionRemains`. `OldBinaryRemains` is not inductive: a rollback renames `prev`
  back on the strength of having parked it, so `BinaryInv` says at which points of a
  command the running version is in place and at which it is parked, and that nothing
  but the command's own steps moves it.
* `ReportsAreTrue` and `NothingGoesUntold`: `ServiceInv` says between which steps the
  service is down and which version comes up, `DatabaseInv` where the database is what
  the update found but for what the old version makes of it. `NothingUntold` asks for
  each of the three its own instruction. The one exception, a restored database that the
  new binary, not moved back, migrates again, is `SchemaOfTheBinary`; without it the
  property is `InstructionsSuffice`, which the code does not keep. `ReportsAreTrue` is for
  an operator who stops the service before a restore (`StopsFirst`): `restore` looks
  at the lock once.
* `LastCopyStays`: what a copy writes over has nothing in it, even halfway or after a
  crash.

The assumptions are the named `ASSUME`s of the modules: `None` is no id, bounds
are numbers, a batch is not empty, a request may hold at least one item and the
body budget leaves room for the envelope, a file has a text and lists of records.

Only model-checked: liveness (`Converges`, `UnattendedTabLocks`, `InviteIsShown`,
`ImportEnds`), which is out of the prover's reach; what becomes of a
damaged text (`ReadBackAsWritten` where `file.damaged`), which depends on where the
damage is; and the counterexamples.

## Behaviours met while modelling and held to no property

Vault. A delete carries no revision, so it also takes away an edit its author has
not seen (`internal/store/items.go:321`). An item moved to a collection outside a
user's reach is in none of that user's later syncs, so the old copy stays in the
cache until the next full load. Re-adding the only manager as a member, or
resetting that account, goes past the last-manager check. A device signed in for
longer than tombstones are retained can miss a delete.

Account flows. A redemption answered after *Cancel* still opens the password step;
that step has no *Cancel*. A regeneration that was given up may commit later.

Panels. A lost answer to *create account* leaves an account whose invite nobody saw,
and the retry is refused (409). Nothing cancels the first load when a change overtakes
it, so an older list may replace a newer one. A grant is offered to an administrator who
does not hold the collection's key; *Share* then fails in the client
(`internal/httpapi/collections.go:149`, `packages/vault/src/collections.ts:226`). The slot for a revealed invite holds one invite:
a second replaces the first. Disabling and enabling a pending user makes *Reissue*
refuse. *Add member* does not consume a pending grant for the same user.

Vault screen. A lost answer to *create* and a retry make two items. Renaming a
folder into a conflict does not resync. A row that does not decrypt shows a notice in
place of the editor, and can be neither saved nor deleted from it.

Import. An unclosed quote in a CSV file cannot be told from a long value when a later
quoted value starts with a delimiter or line end. A Keeper file has no header, and read
as generic CSV its first row is taken for one. "Anything already saved will show as
duplicates" (`ImportScreen.tsx:656`) does not hold for notes, for rows without an
address, or when the resync failed. Skipping a group of duplicates within a file drops
all its rows. 1Password's previous passwords are left behind. Leaving the screen in the middle of an import does not stop it.

Update. Nightly pruning by `--keep` may take the snapshot an update still needs. Opening
a database that is absent creates an empty vault. A withdrawn release is a downgrade with
no restored database. Writes made after the snapshot are, after a rollback, only in
`replaced-*`.

## Not modelled

* Cryptography (Argon2id, XChaCha20, sealed boxes), hashing and token generation are
  the assumption that a body opens with its key and no other, and that a token is known
  only to whom it was given.
* The audit log on the server is written and never read back to decide anything; its
  paging is in `Panels`.
* The rate limiter keeps counters in memory per address; its arithmetic is tested and
  nothing else depends on it but how long a caller waits.
* The service worker: two versions of the shell and their caches live in the browser
  between loads, and what it does depends on the browser's own lifecycle.
* Verification of a release (signature, checksum, unpacking), configuration, routing,
  static files, layout and the list of devices in the settings keep no state that another
  part decides by.

`PROJECT.json` lists every part.

## Plan

Done: `VaultStore`, `VaultSync`, `Accounts`, `ClientSession`, `AutoLock`, `Credentials`,
`Panels`, `ItemEditing`, the import modules, `Update`, and the theorems above.

Open: liveness, which the provers do not reach (`UnattendedTabLocks`, `ImportEnds`,
`InviteIsShown`, `Converges` and `EveryCallEnds` beyond its measure stay with TLC), and
the parts under *Not modelled*.
