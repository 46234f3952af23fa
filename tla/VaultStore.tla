----------------------------- MODULE VaultStore -----------------------------
(***************************************************************************)
(* The server's vault tables (internal/store): items, folders, collections *)
(* with their memberships and pending grants, and the one revision         *)
(* sequence that numbers every change a client can sync.                   *)
(*                                                                         *)
(* SQLite admits one writer at a time and every method below is one        *)
(* transaction, so each is one action.  A transaction that fails (not      *)
(* found, revision conflict, foreign key, last manager) rolls back,        *)
(* revision bump included, and is no step at all.  Who may call a method   *)
(* is decided by the HTTP handlers before the transaction starts; the      *)
(* store itself trusts its caller, and so does Next.                       *)
(*                                                                         *)
(* Blobs are opaque to the server.  All that is kept of a ciphertext is    *)
(* which key the client encrypted it under.                                *)
(***************************************************************************)
EXTENDS Naturals, Sequences

CONSTANTS
    Users,          \* account ids
    Collections,    \* collection ids
    Items,          \* item ids; NewID never repeats one
    Folders,        \* folder ids
    None,           \* SQL NULL: no collection, no owner, no key
    MaxRevision,    \* bound on the revision sequence
    MaxBatch        \* bound on one bulk insert (maxBulkItems)

ASSUME ConstantsAssumption ==
    /\ None \notin Users
    /\ None \notin Collections
    /\ MaxRevision \in Nat
    /\ MaxBatch \in Nat \ {0}

VARIABLES
    accounts,       \* users rows that exist
    collections,    \* [Collections -> [st, by]]
    memberships,    \* [Collections -> [Users -> [role, granted, by]]]
    pendingGrants,  \* [Collections -> [Users -> [role, by]]]
    items,          \* [Items -> [st, owner, collection, key, rev]]
    folders,        \* [Folders -> [st, owner, rev]]
    revision        \* revision_sequence.value

storeVars == <<accounts, collections, memberships, pendingGrants, items,
               folders, revision>>

(***************************************************************************)
(* Rows.  An id is unborn until its row is inserted and gone once the row  *)
(* is hard-deleted; in between the row is live or a tombstone.             *)
(***************************************************************************)
Lifecycle == {"unborn", "live", "tombstone", "gone"}
Keys == Users \cup Collections

ItemRow == [st : Lifecycle, owner : Users \cup {None},
            collection : Collections \cup {None}, key : Keys \cup {None},
            rev : Nat]
FolderRow == [st : Lifecycle, owner : Users \cup {None}, rev : Nat]
CollectionRow == [st : {"unborn", "live", "gone"}, by : Users \cup {None}]
Membership == [role : {"none", "member", "manager"}, granted : Nat,
               by : Users \cup {None}]
PendingGrant == [role : {"none", "member", "manager"}, by : Users \cup {None}]

NoItem(st) == [st |-> st, owner |-> None, collection |-> None, key |-> None,
               rev |-> 0]
NoFolder(st) == [st |-> st, owner |-> None, rev |-> 0]
NoMembership == [role |-> "none", granted |-> 0, by |-> None]
NoGrant == [role |-> "none", by |-> None]

HasRow(row) == row.st \in {"live", "tombstone"}
IsMember(c, u) == memberships[c][u].role # "none"
IsManager(c, u) == memberships[c][u].role = "manager"
Exists(c) == collections[c].st = "live"

Init ==
    /\ accounts = Users
    /\ collections = [c \in Collections |-> [st |-> "unborn", by |-> None]]
    /\ memberships = [c \in Collections |-> [u \in Users |-> NoMembership]]
    /\ pendingGrants = [c \in Collections |-> [u \in Users |-> NoGrant]]
    /\ items = [i \in Items |-> NoItem("unborn")]
    /\ folders = [f \in Folders |-> NoFolder("unborn")]
    /\ revision = 0

(***************************************************************************)
(* nextRevision, called n times inside one transaction.                    *)
(***************************************************************************)
NextRevision(n) ==
    /\ revision + n <= MaxRevision
    /\ revision' = revision + n

-----------------------------------------------------------------------------
(***************************************************************************)
(* Items.                                                                  *)
(***************************************************************************)

\* The rows of one insert: each names a fresh id, the collection the client
\* asked for (None for a personal item) and the key it encrypted under.
ItemInput == [id : Items, collection : Collections \cup {None}, key : Keys]

\* [bug] one revision for the whole batch.
CreateItemsOneRevision(u, batch) ==
    /\ u \in accounts
    /\ \A m, n \in DOMAIN batch : batch[m].id = batch[n].id => m = n
    /\ \A n \in DOMAIN batch :
          /\ items[batch[n].id].st = "unborn"
          /\ batch[n].collection # None => Exists(batch[n].collection)
    /\ NextRevision(1)
    /\ items' = [i \in Items |->
          IF \E n \in DOMAIN batch : batch[n].id = i
          THEN LET n == CHOOSE n \in DOMAIN batch : batch[n].id = i
               IN [st |-> "live", owner |-> u,
                   collection |-> batch[n].collection,
                   key |-> batch[n].key, rev |-> revision + 1]
          ELSE items[i]]
    /\ UNCHANGED <<accounts, collections, memberships, pendingGrants, folders>>

\* CreateItem is a batch of one; every row of a batch draws its own revision.
CreateItemsBulk(u, batch) ==
    /\ u \in accounts
    /\ \A m, n \in DOMAIN batch : batch[m].id = batch[n].id => m = n
    /\ \A n \in DOMAIN batch :
          /\ items[batch[n].id].st = "unborn"
          /\ batch[n].collection # None => Exists(batch[n].collection)
    /\ NextRevision(Len(batch))
    /\ items' = [i \in Items |->
          IF \E n \in DOMAIN batch : batch[n].id = i
          THEN LET n == CHOOSE n \in DOMAIN batch : batch[n].id = i
               IN [st |-> "live", owner |-> u,
                   collection |-> batch[n].collection,
                   key |-> batch[n].key, rev |-> revision + n]
          ELSE items[i]]
    /\ UNCHANGED <<accounts, collections, memberships, pendingGrants, folders>>

\* [bug] the WHERE clause without deleted_at IS NULL.
UpdateItemEvenDeleted(i, expectedRevision, target, key) ==
    /\ HasRow(items[i])
    /\ items[i].rev = expectedRevision
    /\ target # None => Exists(target)
    /\ NextRevision(1)
    /\ items' = [items EXCEPT ![i] =
          [st |-> "live", owner |-> @.owner,
           collection |-> IF target = None THEN @.collection ELSE target,
           key |-> key, rev |-> revision + 1]]
    /\ UNCHANGED <<accounts, collections, memberships, pendingGrants, folders>>

\* [bug] the expected revision is not compared.
UpdateItemAnyRevision(i, expectedRevision, target, key) ==
    /\ items[i].st = "live"
    /\ target # None => Exists(target)
    /\ NextRevision(1)
    /\ items' = [items EXCEPT ![i] =
          [st |-> "live", owner |-> @.owner,
           collection |-> IF target = None THEN @.collection ELSE target,
           key |-> key, rev |-> revision + 1]]
    /\ UNCHANGED <<accounts, collections, memberships, pendingGrants, folders>>

\* target None is a request that carries no collectionId, or a null one: the
\* row's collection_id is then left alone.
UpdateItem(i, expectedRevision, target, key) ==
    /\ items[i].st = "live"
    /\ items[i].rev = expectedRevision
    /\ target # None => Exists(target)
    /\ NextRevision(1)
    /\ items' = [items EXCEPT ![i] =
          [st |-> "live", owner |-> @.owner,
           collection |-> IF target = None THEN @.collection ELSE target,
           key |-> key, rev |-> revision + 1]]
    /\ UNCHANGED <<accounts, collections, memberships, pendingGrants, folders>>

\* [bug] a tombstone that keeps the revision of the row it replaces.
DeleteItemSameRevision(i) ==
    /\ items[i].st = "live"
    /\ NextRevision(1)
    /\ items' = [items EXCEPT ![i] =
          [st |-> "tombstone", owner |-> @.owner, collection |-> @.collection,
           key |-> None, rev |-> @.rev]]
    /\ UNCHANGED <<accounts, collections, memberships, pendingGrants, folders>>

\* The tombstone keeps its place in the collection and loses its contents.
DeleteItem(i) ==
    /\ items[i].st = "live"
    /\ NextRevision(1)
    /\ items' = [items EXCEPT ![i] =
          [st |-> "tombstone", owner |-> @.owner, collection |-> @.collection,
           key |-> None, rev |-> revision + 1]]
    /\ UNCHANGED <<accounts, collections, memberships, pendingGrants, folders>>

-----------------------------------------------------------------------------
(***************************************************************************)
(* Folders: personal, numbered by the same sequence.                       *)
(***************************************************************************)
CreateFolder(u, f) ==
    /\ u \in accounts
    /\ folders[f].st = "unborn"
    /\ NextRevision(1)
    /\ folders' = [folders EXCEPT ![f] =
          [st |-> "live", owner |-> u, rev |-> revision + 1]]
    /\ UNCHANGED <<accounts, collections, memberships, pendingGrants, items>>

UpdateFolder(f, expectedRevision) ==
    /\ folders[f].st = "live"
    /\ folders[f].rev = expectedRevision
    /\ NextRevision(1)
    /\ folders' = [folders EXCEPT ![f] =
          [st |-> "live", owner |-> @.owner, rev |-> revision + 1]]
    /\ UNCHANGED <<accounts, collections, memberships, pendingGrants, items>>

DeleteFolder(f) ==
    /\ folders[f].st = "live"
    /\ NextRevision(1)
    /\ folders' = [folders EXCEPT ![f] =
          [st |-> "tombstone", owner |-> @.owner, rev |-> revision + 1]]
    /\ UNCHANGED <<accounts, collections, memberships, pendingGrants, items>>

\* The retention job.  A tombstone's revision is drawn when it is deleted, so
\* "deleted before the cutoff" is "revision at most cutoff".
PurgeTombstones(cutoff) ==
    LET old(row) == row.st = "tombstone" /\ row.rev <= cutoff
    IN  /\ \/ \E i \in Items : old(items[i])
           \/ \E f \in Folders : old(folders[f])
        /\ items' = [i \in Items |->
              IF old(items[i]) THEN NoItem("gone") ELSE items[i]]
        /\ folders' = [f \in Folders |->
              IF old(folders[f]) THEN NoFolder("gone") ELSE folders[f]]
        /\ UNCHANGED <<accounts, collections, memberships, pendingGrants,
                       revision>>

-----------------------------------------------------------------------------
(***************************************************************************)
(* Collections, memberships and pending grants.                            *)
(***************************************************************************)
CreateCollection(c, u) ==
    /\ u \in accounts
    /\ collections[c].st = "unborn"
    /\ NextRevision(1)
    /\ collections' = [collections EXCEPT ![c] = [st |-> "live", by |-> u]]
    /\ memberships' = [memberships EXCEPT ![c][u] =
          [role |-> "manager", granted |-> revision + 1, by |-> u]]
    /\ UNCHANGED <<accounts, pendingGrants, items, folders>>

\* [bug] no ON DELETE CASCADE on items.collection_id.
DeleteCollectionOnly(c) ==
    /\ Exists(c)
    /\ collections' = [collections EXCEPT ![c] = [st |-> "gone", by |-> None]]
    /\ memberships' = [memberships EXCEPT ![c] =
          [u \in Users |-> NoMembership]]
    /\ pendingGrants' = [pendingGrants EXCEPT ![c] = [u \in Users |-> NoGrant]]
    /\ UNCHANGED <<accounts, items, folders, revision>>

\* ON DELETE CASCADE: memberships, grants and items go with the collection.
\* No revision is drawn and no tombstone is left.
DeleteCollection(c) ==
    /\ Exists(c)
    /\ collections' = [collections EXCEPT ![c] = [st |-> "gone", by |-> None]]
    /\ memberships' = [memberships EXCEPT ![c] =
          [u \in Users |-> NoMembership]]
    /\ pendingGrants' = [pendingGrants EXCEPT ![c] = [u \in Users |-> NoGrant]]
    /\ items' = [i \in Items |->
          IF items[i].collection = c THEN NoItem("gone") ELSE items[i]]
    /\ UNCHANGED <<accounts, folders, revision>>

\* addMemberTx: insert, or replace the sealed key, the role and the revision.
AddMember(c, u, role, by) ==
    /\ Exists(c)
    /\ u \in accounts /\ by \in accounts
    /\ NextRevision(1)
    /\ memberships' = [memberships EXCEPT ![c][u] =
          [role |-> role, granted |-> revision + 1, by |-> by]]

FulfilGrantOrAdd(c, u, role, by) ==
    /\ AddMember(c, u, role, by)
    /\ UNCHANGED <<accounts, collections, pendingGrants, items, folders>>

RemoveMember(c, u) ==
    /\ IsMember(c, u)
    /\ IsManager(c, u) => \E v \in Users \ {u} : IsManager(c, v)
    /\ memberships' = [memberships EXCEPT ![c][u] = NoMembership]
    /\ UNCHANGED <<accounts, collections, pendingGrants, items, folders,
                   revision>>

CreatePendingGrant(c, u, role, by) ==
    /\ Exists(c)
    /\ u \in accounts /\ by \in accounts
    /\ pendingGrants' = [pendingGrants EXCEPT ![c][u] =
          [role |-> role, by |-> by]]
    /\ UNCHANGED <<accounts, collections, memberships, items, folders,
                   revision>>

\* [bug] a fulfilment that does not ask for the grant.
FulfilUnasked(c, u, by) ==
    /\ AddMember(c, u, pendingGrants[c][u].role, by)
    /\ pendingGrants' = [pendingGrants EXCEPT ![c][u] = NoGrant]
    /\ UNCHANGED <<accounts, collections, items, folders>>

\* The role is the grant's, never the caller's.
FulfilGrant(c, u, by) ==
    /\ pendingGrants[c][u].role # "none"
    /\ AddMember(c, u, pendingGrants[c][u].role, by)
    /\ pendingGrants' = [pendingGrants EXCEPT ![c][u] = NoGrant]
    /\ UNCHANGED <<accounts, collections, items, folders>>

-----------------------------------------------------------------------------
(***************************************************************************)
(* What the account operations do to the vault tables.  Status, sessions,  *)
(* invites and the last-admin check are no part of this module.            *)
(***************************************************************************)

\* ResetUser keeps the collection items the user created.
ResetUser(u) ==
    /\ u \in accounts
    /\ items' = [i \in Items |->
          IF items[i].owner = u /\ items[i].collection = None
          THEN NoItem("gone") ELSE items[i]]
    /\ folders' = [f \in Folders |->
          IF folders[f].owner = u THEN NoFolder("gone") ELSE folders[f]]
    /\ memberships' = [c \in Collections |->
          [memberships[c] EXCEPT ![u] = NoMembership]]
    /\ pendingGrants' = [c \in Collections |->
          [pendingGrants[c] EXCEPT ![u] = NoGrant]]
    /\ UNCHANGED <<accounts, collections, revision>>

\* created_by, granted_by and requested_by have no ON DELETE action: a row
\* that names u and is not itself deleted with u refuses the whole statement.
Referenced(u) ==
    \E c \in Collections :
        \/ collections[c].by = u
        \/ \E v \in Users \ {u} :
              memberships[c][v].by = u \/ pendingGrants[c][v].by = u

\* The cascade takes every item u owns, the ones in collections included.
DeleteUser(u) ==
    /\ u \in accounts
    /\ ~Referenced(u)
    /\ accounts' = accounts \ {u}
    /\ items' = [i \in Items |->
          IF items[i].owner = u THEN NoItem("gone") ELSE items[i]]
    /\ folders' = [f \in Folders |->
          IF folders[f].owner = u THEN NoFolder("gone") ELSE folders[f]]
    /\ memberships' = [c \in Collections |->
          [memberships[c] EXCEPT ![u] = NoMembership]]
    /\ pendingGrants' = [c \in Collections |->
          [pendingGrants[c] EXCEPT ![u] = NoGrant]]
    /\ UNCHANGED <<collections, revision>>

-----------------------------------------------------------------------------
(***************************************************************************)
(* SyncSince: one read transaction, so the cursor and the rows belong to   *)
(* the same state.                                                         *)
(***************************************************************************)
VisibleItem(u, i) ==
    /\ HasRow(items[i])
    /\ IF items[i].collection = None
       THEN items[i].owner = u
       ELSE IsMember(items[i].collection, u)

\* [bug] the plain filter on the row's own revision.
ItemRevisedSince(u, i, since) == items[i].rev > since

\* The cursor filter: the row changed, or the membership that shows it is new.
ItemChangedSince(u, i, since) ==
    \/ items[i].rev > since
    \/ /\ items[i].collection # None
       /\ IsMember(items[i].collection, u)
       /\ memberships[items[i].collection][u].granted > since

VisibleFolder(u, f) == HasRow(folders[f]) /\ folders[f].owner = u

SyncItems(u, since) ==
    {i \in Items : VisibleItem(u, i) /\ ItemChangedSince(u, i, since)}
SyncFolders(u, since) ==
    {f \in Folders : VisibleFolder(u, f) /\ folders[f].rev > since}

SyncSince(u, since) ==
    [revision    |-> revision,
     items       |-> [i \in SyncItems(u, since) |->
                        [st |-> items[i].st, rev |-> items[i].rev,
                         collection |-> items[i].collection]],
     folders     |-> [f \in SyncFolders(u, since) |->
                        [st |-> folders[f].st, rev |-> folders[f].rev]],
     collections |-> {c \in Collections : IsMember(c, u)}]

-----------------------------------------------------------------------------
(***************************************************************************)
(* The key a client encrypts a body under: its target's (parentKeyFor).    *)
(***************************************************************************)
KeyFor(u, c) == IF c = None THEN u ELSE c

Batches(u) ==
    UNION {[1..n -> {in \in ItemInput : in.key = KeyFor(u, in.collection)}] :
              n \in 1..MaxBatch}

ItemStep ==
    \/ \E u \in Users : \E batch \in Batches(u) : CreateItemsBulk(u, batch)
    \/ \E i \in Items, u \in Users, target \in Collections \cup {None} :
          UpdateItem(i, items[i].rev, target, KeyFor(u, target))
    \/ \E i \in Items : DeleteItem(i)

FolderStep ==
    \/ \E u \in Users, f \in Folders : CreateFolder(u, f)
    \/ \E f \in Folders : UpdateFolder(f, folders[f].rev)
    \/ \E f \in Folders : DeleteFolder(f)

CollectionStep ==
    \E c \in Collections, u \in Users :
        \/ CreateCollection(c, u)
        \/ DeleteCollection(c)
        \/ RemoveMember(c, u)
        \/ \E by \in Users :
              \/ FulfilGrant(c, u, by)
              \/ \E role \in {"member", "manager"} :
                    \/ FulfilGrantOrAdd(c, u, role, by)
                    \/ CreatePendingGrant(c, u, role, by)

AccountStep == \E u \in Users : ResetUser(u) \/ DeleteUser(u)

Next ==
    \/ ItemStep
    \/ FolderStep
    \/ CollectionStep
    \/ AccountStep
    \/ \E cutoff \in 1..MaxRevision : PurgeTombstones(cutoff)

Spec == Init /\ [][Next]_storeVars

-----------------------------------------------------------------------------
(***************************************************************************)
(* Properties.                                                             *)
(***************************************************************************)

\* Every table holds rows of its schema, and "no row" has one form only: a
\* membership that draws a revision confers a role (addMemberTx, FulfilGrant).
TypeOK ==
    /\ accounts \in SUBSET Users
    /\ collections \in [Collections -> CollectionRow]
    /\ memberships \in [Collections -> [Users -> Membership]]
    /\ \A c \in Collections, u \in Users :
          ~IsMember(c, u) => memberships[c][u] = NoMembership
    /\ pendingGrants \in [Collections -> [Users -> PendingGrant]]
    /\ \A c \in Collections, u \in Users :
          pendingGrants[c][u].role = "none" => pendingGrants[c][u] = NoGrant
    /\ items \in [Items -> ItemRow]
    /\ \A i \in Items : ~HasRow(items[i]) => items[i] = NoItem(items[i].st)
    /\ folders \in [Folders -> FolderRow]
    /\ \A f \in Folders :
          ~HasRow(folders[f]) => folders[f] = NoFolder(folders[f].st)
    /\ revision \in Nat

\* The sequence numbers changes one to one: every row and every membership
\* carries a revision already issued, and no two of them share one, whatever
\* table they are in.  SyncSince compares all of them with one cursor.
OwnRevision ==
    /\ \A i \in Items : HasRow(items[i]) => items[i].rev \in 1..revision
    /\ \A f \in Folders : HasRow(folders[f]) => folders[f].rev \in 1..revision
    /\ \A c \in Collections, u \in Users :
          IsMember(c, u) => memberships[c][u].granted \in 1..revision
    /\ \A i, j \in Items :
          HasRow(items[i]) /\ HasRow(items[j]) /\ items[i].rev = items[j].rev
          => i = j
    /\ \A f, g \in Folders :
          HasRow(folders[f]) /\ HasRow(folders[g])
          /\ folders[f].rev = folders[g].rev => f = g
    /\ \A c, e \in Collections : \A u, v \in Users :
          IsMember(c, u) /\ IsMember(e, v)
          /\ memberships[c][u].granted = memberships[e][v].granted
          => c = e /\ u = v
    /\ \A i \in Items, f \in Folders :
          HasRow(items[i]) /\ HasRow(folders[f]) => items[i].rev # folders[f].rev
    /\ \A i \in Items, c \in Collections, u \in Users :
          HasRow(items[i]) /\ IsMember(c, u)
          => items[i].rev # memberships[c][u].granted
    /\ \A f \in Folders, c \in Collections, u \in Users :
          HasRow(folders[f]) /\ IsMember(c, u)
          => folders[f].rev # memberships[c][u].granted

\* The foreign keys: after any mix of cascades, resets and deletions no item,
\* folder, membership or grant names a user or a collection that is not there.
ReferencesResolve ==
    /\ \A i \in Items : HasRow(items[i]) =>
          /\ items[i].owner \in accounts
          /\ items[i].collection # None => Exists(items[i].collection)
    /\ \A f \in Folders : HasRow(folders[f]) => folders[f].owner \in accounts
    /\ \A c \in Collections : Exists(c) => collections[c].by \in accounts
    /\ \A c \in Collections, u \in Users :
          /\ IsMember(c, u) =>
                /\ Exists(c)
                /\ u \in accounts /\ memberships[c][u].by \in accounts
          /\ pendingGrants[c][u].role # "none" =>
                /\ Exists(c)
                /\ u \in accounts /\ pendingGrants[c][u].by \in accounts

\* What an incremental sync rests on: no step leaves a row or a membership
\* different from what it was without giving it a revision above every cursor
\* handed out so far, unless the row is no longer there at all.
ChangeIsNumbered ==
    /\ revision' >= revision
    /\ \A i \in Items :
          items'[i] # items[i] /\ HasRow(items'[i]) => items'[i].rev > revision
    /\ \A f \in Folders :
          folders'[f] # folders[f] /\ HasRow(folders'[f])
          => folders'[f].rev > revision
    /\ \A c \in Collections, u \in Users :
          /\ memberships'[c][u] # memberships[c][u]
          /\ memberships'[c][u].role # "none"
          => memberships'[c][u].granted > revision
ChangesAreNumbered == [][ChangeIsNumbered]_storeVars

\* A delete is final: a tombstone never becomes live again and a removed row's
\* id is never used again, so no client can bring an item back by writing to it.
DeleteIsFinal ==
    /\ \A i \in Items :
          /\ items[i].st = "tombstone" => items'[i].st \in {"tombstone", "gone"}
          /\ items[i].st = "gone" => items'[i].st = "gone"
    /\ \A f \in Folders :
          /\ folders[f].st = "tombstone"
             => folders'[f].st \in {"tombstone", "gone"}
          /\ folders[f].st = "gone" => folders'[f].st = "gone"
DeletesAreFinal == [][DeleteIsFinal]_storeVars
=============================================================================
