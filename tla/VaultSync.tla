------------------------------ MODULE VaultSync ------------------------------
(***************************************************************************)
(* Devices that follow the server's vault through incremental sync         *)
(* (packages/vault/src/store.ts against internal/store/sync.go).           *)
(*                                                                         *)
(* A device keeps the cursor of its last sync and a cache of the rows it   *)
(* was sent.  A sync is three steps: the request leaves with the cursor of *)
(* that moment, the server answers from one snapshot, and the answer is    *)
(* merged after the client has decrypted it.  A save is three: the handler *)
(* checks, the server commits, and the answer is put into the cache.       *)
(* Nothing in the client keeps two calls from being in flight at once --   *)
(* every window focus starts a sync, and so does every change made -- and  *)
(* nothing orders their answers.  All other clients are the transactions   *)
(* of VaultStore.                                                          *)
(***************************************************************************)
EXTENDS VaultStore, FiniteSets

CONSTANTS
    Devices,        \* browser tabs with an unlocked session
    UserOf,         \* [Devices -> Users]: who is signed in on each
    MaxCalls        \* bound on the calls one device has in flight

ASSUME DevicesAssumption ==
    /\ UserOf \in [Devices -> Users]
    /\ MaxCalls \in Nat

VARIABLES
    cursor,         \* state.revision of each device
    cache,          \* state.items: [Devices -> [Items -> Entry]]
    folderCache,    \* state.folders: [Devices -> [Folders -> Nat]], 0 if absent
    known,          \* state.collections: the ids of the last applied sync
    calls,          \* requests in flight, by device
    overtaken       \* history: the rows, by device, that an answer may have
                    \* left older than the cursor says, as it came too late

clientVars == <<cursor, cache, folderCache, known, calls, overtaken>>
vars == <<storeVars, clientVars>>

(***************************************************************************)
(* A cached item is the revision and the collection it was sent with; a    *)
(* tombstone, like an item never sent, is no entry.                        *)
(***************************************************************************)
Entry == [rev : Nat, collection : Collections \cup {None}]
NoEntry == [rev |-> 0, collection |-> None]
EntryOf(row) == IF row.st = "live"
                THEN [rev |-> row.rev, collection |-> row.collection]
                ELSE NoEntry
FolderEntryOf(row) == IF row.st = "live" THEN row.rev ELSE 0

EmptyCache == [i \in Items |-> NoEntry]
EmptyFolderCache == [f \in Folders |-> 0]
NoRows == [items |-> {}, folders |-> {}]
AllRows == [items |-> Items, folders |-> Folders]

SyncInit ==
    /\ Init
    /\ cursor = [d \in Devices |-> 0]
    /\ cache = [d \in Devices |-> EmptyCache]
    /\ folderCache = [d \in Devices |-> EmptyFolderCache]
    /\ known = [d \in Devices |-> {}]
    /\ calls = [d \in Devices |-> {}]
    /\ overtaken = [d \in Devices |-> NoRows]

MayCall(d) == Cardinality(calls[d]) < MaxCalls

-----------------------------------------------------------------------------
(***************************************************************************)
(* fetchInto: request, answer, merge.                                      *)
(***************************************************************************)

\* load() asks for everything and replaces the cache; resync() asks for what
\* changed since the cursor it reads now and merges.
RequestSync(d, full) ==
    /\ MayCall(d)
    /\ calls' = [calls EXCEPT ![d] = @ \cup
          {[op |-> "asked", full |-> full,
            since |-> IF full THEN 0 ELSE cursor[d]]}]
    /\ UNCHANGED <<storeVars, cursor, cache, folderCache, known, overtaken>>

\* handleSync: one read transaction, so one snapshot.  A request of an account
\* that is gone does not pass requireAuth.
AnswerSync(d, call) ==
    /\ call.op = "asked"
    /\ UserOf[d] \in accounts
    /\ calls' = [calls EXCEPT ![d] = (@ \ {call}) \cup
          {[op |-> "answered", full |-> call.full, since |-> call.since,
            res |-> SyncSince(UserOf[d], call.since)]}]
    /\ UNCHANGED <<storeVars, cursor, cache, folderCache, known, overtaken>>

\* merge(): what the answer does not mention is left as it was.
Merged(existing, incoming) ==
    [i \in Items |-> IF i \in DOMAIN incoming THEN EntryOf(incoming[i])
                     ELSE existing[i]]
MergedFolders(existing, incoming) ==
    [f \in Folders |-> IF f \in DOMAIN incoming THEN FolderEntryOf(incoming[f])
                       ELSE existing[f]]

\* What the merge leaves in doubt: after an answer to a cursor that has been set
\* back since, every row it does not carry; otherwise what was in doubt before
\* and is not replaced now.
StillOvertaken(d, call) ==
    LET before == CASE call.full -> NoRows
                    [] ~call.full /\ call.since > cursor[d] -> AllRows
                    [] OTHER -> overtaken[d]
    IN  [items |-> before.items \ DOMAIN call.res.items,
         folders |-> before.folders \ DOMAIN call.res.folders]

\* [bug] an answer that carries no item is taken for no news.
ApplySyncOfItems(d, call) ==
    /\ call.op = "answered"
    /\ calls' = [calls EXCEPT ![d] = @ \ {call}]
    /\ IF DOMAIN call.res.items = {}
       THEN UNCHANGED <<storeVars, cursor, cache, folderCache, known, overtaken>>
       ELSE /\ cursor' = [cursor EXCEPT ![d] = call.res.revision]
            /\ cache' = [cache EXCEPT ![d] =
                  Merged(IF call.full THEN EmptyCache ELSE @, call.res.items)]
            /\ folderCache' = [folderCache EXCEPT ![d] =
                  MergedFolders(IF call.full THEN EmptyFolderCache ELSE @,
                                call.res.folders)]
            /\ known' = [known EXCEPT ![d] = call.res.collections]
            /\ overtaken' = [overtaken EXCEPT ![d] = StillOvertaken(d, call)]
            /\ UNCHANGED storeVars

ApplySync(d, call) ==
    /\ call.op = "answered"
    /\ cursor' = [cursor EXCEPT ![d] = call.res.revision]
    /\ cache' = [cache EXCEPT ![d] =
          Merged(IF call.full THEN EmptyCache ELSE @, call.res.items)]
    /\ folderCache' = [folderCache EXCEPT ![d] =
          MergedFolders(IF call.full THEN EmptyFolderCache ELSE @,
                        call.res.folders)]
    /\ known' = [known EXCEPT ![d] = call.res.collections]
    /\ overtaken' = [overtaken EXCEPT ![d] = StillOvertaken(d, call)]
    /\ calls' = [calls EXCEPT ![d] = @ \ {call}]
    /\ UNCHANGED storeVars

-----------------------------------------------------------------------------
(***************************************************************************)
(* Saves from the editor.  The handler loads the row and checks that the   *)
(* user may see it and is a member of the target; the store's transaction  *)
(* comes after, on whatever the tables hold by then; and the answer comes  *)
(* back last.                                                              *)
(***************************************************************************)
CanTarget(d, c) == c # None => c \in known[d] /\ IsMember(c, UserOf[d])

RequestCreate(d, c) ==
    /\ MayCall(d)
    /\ CanTarget(d, c)
    /\ calls' = [calls EXCEPT ![d] = @ \cup {[op |-> "create", target |-> c]}]
    /\ UNCHANGED <<storeVars, cursor, cache, folderCache, known, overtaken>>

CommitCreate(d, call, i) ==
    /\ call.op = "create"
    /\ CreateItemsBulk(UserOf[d],
          <<[id |-> i, collection |-> call.target,
             key |-> KeyFor(UserOf[d], call.target)]>>)
    /\ calls' = [calls EXCEPT ![d] = (@ \ {call}) \cup
          {[op |-> "saved", id |-> i, entry |-> EntryOf(items'[i])]}]
    /\ UNCHANGED <<cursor, cache, folderCache, known, overtaken>>

\* The editor holds the revision it was opened with, or the one it adopted
\* from the 409 that answered its last attempt.
RequestUpdate(d, i, c, expectedRevision) ==
    /\ MayCall(d)
    /\ cache[d][i] # NoEntry
    /\ VisibleItem(UserOf[d], i)
    /\ CanTarget(d, c)
    /\ calls' = [calls EXCEPT ![d] = @ \cup
          {[op |-> "update", id |-> i, target |-> c, loaded |-> items[i].rev,
            expected |-> expectedRevision]}]
    /\ UNCHANGED <<storeVars, cursor, cache, folderCache, known, overtaken>>

CommitUpdate(d, call) ==
    /\ call.op = "update"
    /\ UpdateItem(call.id, call.expected, call.target,
                  KeyFor(UserOf[d], call.target))
    /\ calls' = [calls EXCEPT ![d] = (@ \ {call}) \cup
          {[op |-> "saved", id |-> call.id, entry |-> EntryOf(items'[call.id])]}]
    /\ UNCHANGED <<cursor, cache, folderCache, known, overtaken>>

RequestDelete(d, i) ==
    /\ MayCall(d)
    /\ cache[d][i] # NoEntry
    /\ VisibleItem(UserOf[d], i)
    /\ calls' = [calls EXCEPT ![d] = @ \cup
          {[op |-> "delete", id |-> i, loaded |-> items[i].rev]}]
    /\ UNCHANGED <<storeVars, cursor, cache, folderCache, known, overtaken>>

CommitDelete(d, call) ==
    /\ call.op = "delete"
    /\ DeleteItem(call.id)
    /\ calls' = [calls EXCEPT ![d] = (@ \ {call}) \cup
          {[op |-> "saved", id |-> call.id, entry |-> NoEntry]}]
    /\ UNCHANGED <<cursor, cache, folderCache, known, overtaken>>

\* A sync the device has merged is past the number the save was given: what it
\* brought is as new as the answer to the save, or newer.
Passed(d, rev) == rev # 0 /\ rev <= cursor[d]

\* store.upsert(record), or store.remove(id) when the row was deleted; neither
\* looks at what the cache holds by now.
ApplySave(d, call) ==
    /\ call.op = "saved"
    /\ cache' = [cache EXCEPT ![d][call.id] = call.entry]
    /\ calls' = [calls EXCEPT ![d] = @ \ {call}]
    /\ overtaken' = [overtaken EXCEPT ![d].items =
          IF Passed(d, call.entry.rev) THEN @ \cup {call.id} ELSE @ \ {call.id}]
    /\ UNCHANGED <<storeVars, cursor, folderCache, known>>

\* A call comes to nothing on the client: refused (403, 404, 409), failed, or
\* its answer lost, in which case what the server committed stands.
DropCall(d, call) ==
    /\ calls' = [calls EXCEPT ![d] = @ \ {call}]
    /\ UNCHANGED <<storeVars, cursor, cache, folderCache, known, overtaken>>

-----------------------------------------------------------------------------
OtherClients == Next /\ UNCHANGED clientVars

SyncStep(d) ==
    \/ \E full \in BOOLEAN : RequestSync(d, full)
    \/ \E call \in calls[d] : AnswerSync(d, call) \/ ApplySync(d, call)

SaveStep(d) ==
    \/ \E c \in Collections \cup {None} :
          \/ RequestCreate(d, c)
          \/ \E i \in Items : \E expectedRevision \in {cache[d][i].rev, items[i].rev} :
                RequestUpdate(d, i, c, expectedRevision)
    \/ \E i \in Items : RequestDelete(d, i)
    \/ \E call \in calls[d] :
          \/ \E i \in Items : CommitCreate(d, call, i)
          \/ CommitUpdate(d, call)
          \/ CommitDelete(d, call)
          \/ ApplySave(d, call)

SyncNext ==
    \/ OtherClients
    \/ \E d \in Devices :
          \/ SyncStep(d)
          \/ SaveStep(d)
          \/ \E call \in calls[d] : DropCall(d, call)

SyncSpec == SyncInit /\ [][SyncNext]_vars

\* The user keeps coming back to the tab, also while nothing is in flight (each
\* focus starts a resync), no call stays in flight for ever, and syncs do not
\* fail for ever.
Fairness ==
    \A d \in Devices :
        /\ SF_vars(RequestSync(d, FALSE))
        /\ WF_vars(\E call \in calls[d] : DropCall(d, call))
        /\ SF_vars(\E call \in calls[d] : AnswerSync(d, call))
        /\ SF_vars(\E call \in calls[d] : ApplySync(d, call))

FairSyncSpec == SyncSpec /\ Fairness

-----------------------------------------------------------------------------
(***************************************************************************)
(* Properties.                                                             *)
(***************************************************************************)
SentItem == [st : Lifecycle, rev : Nat, collection : Collections \cup {None}]
SentFolder == [st : Lifecycle, rev : Nat]

IsAnswer(res) ==
    /\ res.revision \in Nat
    /\ DOMAIN res.items \subseteq Items
    /\ \A i \in DOMAIN res.items : res.items[i] \in SentItem
    /\ DOMAIN res.folders \subseteq Folders
    /\ \A f \in DOMAIN res.folders : res.folders[f] \in SentFolder
    /\ res.collections \subseteq Collections

IsCall(call) ==
    \/ call.op = "asked" /\ call.full \in BOOLEAN /\ call.since \in Nat
    \/ /\ call.op = "answered" /\ call.full \in BOOLEAN /\ call.since \in Nat
       /\ IsAnswer(call.res)
    \/ call.op = "create" /\ call.target \in Collections \cup {None}
    \/ /\ call.op = "update" /\ call.id \in Items
       /\ call.target \in Collections \cup {None}
       /\ call.loaded \in Nat /\ call.expected \in Nat
    \/ call.op = "delete" /\ call.id \in Items /\ call.loaded \in Nat
    \/ call.op = "saved" /\ call.id \in Items /\ call.entry \in Entry

\* The client's state and the calls in flight have the shapes fetchInto relies
\* on: whatever was asked, an answer names known ids only.
SyncTypeOK ==
    /\ TypeOK
    /\ cursor \in [Devices -> Nat]
    /\ cache \in [Devices -> [Items -> Entry]]
    /\ folderCache \in [Devices -> [Folders -> Nat]]
    /\ known \in [Devices -> SUBSET Collections]
    /\ overtaken \in [Devices -> [items : SUBSET Items, folders : SUBSET Folders]]
    /\ DOMAIN calls = Devices
    /\ \A d \in Devices : \A call \in calls[d] : IsCall(call)

\* A row its reader has been told everything about by cursor n: u may see it,
\* and neither the row nor the membership that shows it is numbered above n.
Behind(u, i, n) == VisibleItem(u, i) /\ ~ItemChangedSince(u, i, n)
FolderBehind(u, f, n) == VisibleFolder(u, f) /\ folders[f].rev <= n

\* A row behind the cursor is in the cache as it is on the server, and no
\* tombstone behind the cursor is still shown.
ItemSound(d, i) ==
    Behind(UserOf[d], i, cursor[d]) => cache[d][i] = EntryOf(items[i])
FolderSound(d, f) ==
    FolderBehind(UserOf[d], f, cursor[d])
    => folderCache[d][f] = FolderEntryOf(folders[f])

\* SyncSince's promise: the cursor never passes a row the device was not given
\* -- also for rows that became visible through a new membership, a move or a
\* re-grant, and however calls overlap, but for the rows that an answer in the
\* wrong order has overtaken.
CursorSoundFor(d) ==
    /\ \A i \in Items \ overtaken[d].items : ItemSound(d, i)
    /\ \A f \in Folders \ overtaken[d].folders : FolderSound(d, f)
CursorSound == \A d \in Devices : CursorSoundFor(d)

\* The promise without the exception, "a write committing mid-read cannot
\* produce a cursor past a row the client never received": answers in the wrong
\* order do break it.
NoRowIsPassed ==
    \A d \in Devices :
        /\ \A i \in Items : ItemSound(d, i)
        /\ \A f \in Folders : FolderSound(d, f)

\* What an answer in flight still owes to its cursor: of the rows behind it, it
\* either carries the row as it is or was asked from a cursor past it.
AnswerSound(u, since, res) ==
    /\ res.revision <= revision
    /\ \A i \in Items : Behind(u, i, res.revision) =>
          IF i \in DOMAIN res.items
          THEN EntryOf(res.items[i]) = EntryOf(items[i])
          ELSE Behind(u, i, since)
    /\ \A f \in Folders : FolderBehind(u, f, res.revision) =>
          IF f \in DOMAIN res.folders
          THEN FolderEntryOf(res.folders[f]) = FolderEntryOf(folders[f])
          ELSE FolderBehind(u, f, since)

CallSound(d, call) ==
    /\ call.op \in {"asked", "answered"} => (call.full => call.since = 0)
    /\ call.op = "answered" => AnswerSound(UserOf[d], call.since, call.res)
    /\ call.op = "saved" /\ call.entry.rev = 0 =>
          call.entry = NoEntry /\ items[call.id].st \in {"tombstone", "gone"}

\* The inductive form of CursorSound, whatever overlaps: what is in flight never
\* contradicts a row behind the cursor it was asked from, and what may be merged
\* after a newer answer is accounted for in overtaken.
InOrderSync ==
    \A d \in Devices :
        /\ cursor[d] <= revision
        /\ \A call \in calls[d] : CallSound(d, call)
        /\ CursorSoundFor(d)

\* An update lands on the very row its access check was made on: the handler
\* loads, checks, and only then opens the transaction, and a row that changed
\* hands in between -- moved to another collection, say -- is a conflict.
UpdatesActOnTheRowChecked ==
    [][\A d \in Devices : \A call \in calls[d] :
          CommitUpdate(d, call) => items[call.id].rev = call.loaded]_vars

\* Why: no number a device holds for a row, in its cache, in an answer or in a
\* request, is ahead of the row, whatever overlaps; so a request that names the
\* row's number now was checked when the row had it.
NotAhead(n, i) == n <= revision /\ (HasRow(items[i]) => n <= items[i].rev)
CallNotAhead(call) ==
    /\ call.op = "answered" =>
          \A i \in DOMAIN call.res.items : NotAhead(call.res.items[i].rev, i)
    /\ call.op = "update" => NotAhead(call.loaded, call.id) /\ call.expected <= call.loaded
    /\ call.op = "saved" => NotAhead(call.entry.rev, call.id)
NothingAhead ==
    \A d \in Devices :
        /\ \A i \in Items : NotAhead(cache[d][i].rev, i)
        /\ \A call \in calls[d] : CallNotAhead(call)

\* Whoever is shown an item can open it: its body is under the key of the
\* collection it is in, or of its owner ("a move re-encrypts the body under
\* the destination's key in the same write").
ReadableByAudience ==
    \A i \in Items :
        items[i].st = "live"
        => items[i].key = KeyFor(items[i].owner, items[i].collection)

\* Convergence: once the writes stop, a device that keeps syncing ends up with
\* every row its user may see, as the server has it, but for the rows overtaken.
\* Incremental syncs alone get it there, whatever order grants, moves and edits
\* happened in.
InStep(d) ==
    /\ \A i \in Items \ overtaken[d].items :
          VisibleItem(UserOf[d], i) => cache[d][i] = EntryOf(items[i])
    /\ \A f \in Folders \ overtaken[d].folders :
          VisibleFolder(UserOf[d], f)
          => folderCache[d][f] = FolderEntryOf(folders[f])
Converges == \A d \in Devices : <>[]InStep(d)

\* The plan's third sync rule: "The client drops items whose collectionId is no
\* longer in the collections list."  fetchInto never does.
NothingFromLostCollections ==
    \A d \in Devices, i \in Items :
        cache[d][i].collection # None => cache[d][i].collection \in known[d]
=============================================================================
