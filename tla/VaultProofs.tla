----------------------------- MODULE VaultProofs -----------------------------
(***************************************************************************)
(* Proofs about the vault, for any sets of devices, users, collections,    *)
(* items and folders and any bounds.  First the store by itself            *)
(* (VaultStore), then the devices that share it (VaultSync): every step of *)
(* a device is a step of the store, and a device, whatever calls of it     *)
(* overlap, never loses a row behind its cursor but to an answer that      *)
(* comes in the wrong order.                                               *)
(***************************************************************************)
EXTENDS VaultSync, TLAPS

\* A bulk insert is a non-empty sequence of inputs, each encrypted under the
\* key of its own target (handleBulkItems, parentKeyFor).
LEMMA BatchFacts ==
    ASSUME NEW u \in Users, NEW batch \in Batches(u)
    PROVE  /\ Len(batch) \in Nat \ {0}
           /\ DOMAIN batch = 1..Len(batch)
           /\ \A n \in DOMAIN batch :
                /\ batch[n] \in ItemInput
                /\ batch[n].key = KeyFor(u, batch[n].collection)
<1>1. PICK n \in 1..MaxBatch :
        batch \in [1..n -> {in \in ItemInput : in.key = KeyFor(u, in.collection)}]
  BY DEF Batches
<1>2. n \in Nat \ {0}
  BY ConstantsAssumption
<1>3. batch \in Seq(ItemInput) /\ Len(batch) = n /\ DOMAIN batch = 1..n
  BY <1>1, <1>2
<1>. QED  BY <1>1, <1>2, <1>3

\* What a bulk insert does to the items table, without its CHOOSE: fresh ids
\* become live rows of the caller, each with a revision of its own.
LEMMA CreateItemsEffect ==
    ASSUME TypeOK, NEW u \in Users, NEW batch \in Batches(u),
           CreateItemsBulk(u, batch)
    PROVE  /\ UNCHANGED <<accounts, collections, memberships, pendingGrants, folders>>
           /\ revision' \in Nat /\ revision' > revision
           /\ items' \in [Items -> ItemRow]
           /\ u \in accounts
           /\ \A i \in Items :
                 \/ items'[i] = items[i]
                 \/ /\ items[i].st = "unborn"
                    /\ items'[i].st = "live" /\ items'[i].owner = u
                    /\ items'[i].collection # None => Exists(items'[i].collection)
                    /\ items'[i].rev > revision /\ items'[i].rev <= revision'
           /\ \A i, j \in Items :
                 items'[i].rev = items'[j].rev /\ items'[i].rev > revision
                 /\ items[i].rev <= revision /\ items[j].rev <= revision
                 => i = j
<1>. DEFINE Chosen(i) == CHOOSE n \in DOMAIN batch : batch[n].id = i
            Named(i) == \E n \in DOMAIN batch : batch[n].id = i
<1>1. /\ UNCHANGED <<accounts, collections, memberships, pendingGrants, folders>>
      /\ u \in accounts
      /\ \A n \in DOMAIN batch :
            /\ items[batch[n].id].st = "unborn"
            /\ batch[n].collection # None => Exists(batch[n].collection)
      /\ items' = [i \in Items |-> items'[i]]
      /\ \A i \in Items : ~Named(i) => items'[i] = items[i]
      /\ \A i \in Items : Named(i) =>
            items'[i] = [st |-> "live", owner |-> u,
                         collection |-> batch[Chosen(i)].collection,
                         key |-> batch[Chosen(i)].key,
                         rev |-> revision + Chosen(i)]
  BY DEF CreateItemsBulk
<1>2. revision \in Nat /\ revision' = revision + Len(batch)
  BY DEF CreateItemsBulk, NextRevision, TypeOK
<1>3. revision' \in Nat /\ revision' > revision
  BY <1>2, BatchFacts
<1>4. \A i \in Items : Named(i) =>
        /\ Chosen(i) \in DOMAIN batch
        /\ batch[Chosen(i)].id = i
  OBVIOUS
<1>. HIDE DEF Chosen, Named
<1>5. ASSUME NEW i \in Items, Named(i)
      PROVE  /\ items'[i].rev = revision + Chosen(i)
             /\ items'[i].rev > revision /\ items'[i].rev <= revision'
             /\ items[i].st = "unborn" /\ items'[i].st = "live"
             /\ items'[i].owner = u
             /\ items'[i].collection # None => Exists(items'[i].collection)
             /\ items'[i] \in ItemRow
  <2>1. /\ Chosen(i) \in 1..Len(batch)
        /\ Len(batch) \in Nat
        /\ batch[Chosen(i)] \in ItemInput
        /\ batch[Chosen(i)].id = i
    BY <1>4, <1>5, BatchFacts
  <2>2. /\ revision + Chosen(i) \in Nat
        /\ revision + Chosen(i) > revision /\ revision + Chosen(i) <= revision'
    BY <2>1, <1>2
  <2>3. /\ batch[Chosen(i)].collection \in Collections \cup {None}
        /\ batch[Chosen(i)].key \in Keys
    BY <2>1 DEF ItemInput
  <2>4. items'[i] = [st |-> "live", owner |-> u,
                     collection |-> batch[Chosen(i)].collection,
                     key |-> batch[Chosen(i)].key, rev |-> revision + Chosen(i)]
    BY <1>1, <1>5
  <2>5. /\ items[i].st = "unborn"
        /\ batch[Chosen(i)].collection # None => Exists(batch[Chosen(i)].collection)
    BY <1>1, <1>4, <1>5
  <2>. QED  BY <2>2, <2>3, <2>4, <2>5 DEF ItemRow, Lifecycle
<1>6. \A i \in Items : items'[i] \in ItemRow
  BY <1>1, <1>5 DEF TypeOK
<1>7. ASSUME NEW i \in Items, NEW j \in Items,
             items'[i].rev = items'[j].rev, items'[i].rev > revision,
             items[i].rev <= revision, items[j].rev <= revision
      PROVE  i = j
  <2>1. Named(i) /\ Named(j)
    <3>1. items[i].rev \in Nat /\ items[j].rev \in Nat
      BY DEF TypeOK, ItemRow
    <3>. QED  BY <1>1, <1>2, <1>7, <3>1
  <2>2. Chosen(i) \in Nat /\ Chosen(j) \in Nat
    BY <2>1, <1>4, BatchFacts
  <2>3. Chosen(i) = Chosen(j)
    BY <2>1, <2>2, <1>2, <1>5, <1>7
  <2>. QED  BY <2>1, <2>3, <1>4
<1>. QED  BY <1>1, <1>3, <1>5, <1>6, <1>7

\* The freshly migrated tables are well-formed.
LEMMA TypeInit == Init => TypeOK
  BY DEF Init, TypeOK, NoItem, NoFolder, NoMembership, NoGrant, HasRow,
         IsMember, ItemRow, FolderRow, CollectionRow, Membership, PendingGrant,
         Lifecycle

\* Every transaction keeps every table well-formed.
LEMMA TypeStep == TypeOK /\ [Next]_storeVars => TypeOK'
<1>. SUFFICES ASSUME TypeOK, [Next]_storeVars PROVE TypeOK'
  OBVIOUS
<1>. USE DEF TypeOK, NoItem, NoFolder, NoMembership, NoGrant, HasRow, IsMember,
             ItemRow, FolderRow, CollectionRow, Membership, PendingGrant,
             Lifecycle, NextRevision
<1>1. ASSUME NEW u \in Users, NEW batch \in Batches(u), CreateItemsBulk(u, batch)
      PROVE  TypeOK'
  BY <1>1, CreateItemsEffect
<1>2. ASSUME NEW i \in Items, NEW u \in Users,
             NEW target \in Collections \cup {None},
             UpdateItem(i, items[i].rev, target, KeyFor(u, target))
      PROVE  TypeOK'
  <2>1. KeyFor(u, target) \in Keys
    BY DEF KeyFor, Keys
  <2>. HIDE DEF KeyFor
  <2>. QED  BY <1>2, <2>1 DEF UpdateItem
<1>3. ASSUME NEW i \in Items, DeleteItem(i) PROVE TypeOK'
  BY <1>3 DEF DeleteItem
<1>4. ASSUME NEW u \in Users, NEW f \in Folders, CreateFolder(u, f) PROVE TypeOK'
  BY <1>4 DEF CreateFolder
<1>5. ASSUME NEW f \in Folders, UpdateFolder(f, folders[f].rev) PROVE TypeOK'
  BY <1>5 DEF UpdateFolder
<1>6. ASSUME NEW f \in Folders, DeleteFolder(f) PROVE TypeOK'
  BY <1>6 DEF DeleteFolder
<1>7. ASSUME NEW c \in Collections, NEW u \in Users, CreateCollection(c, u)
      PROVE  TypeOK'
  BY <1>7 DEF CreateCollection
<1>8. ASSUME NEW c \in Collections, DeleteCollection(c) PROVE TypeOK'
  BY <1>8 DEF DeleteCollection
<1>9. ASSUME NEW c \in Collections, NEW u \in Users, RemoveMember(c, u)
      PROVE  TypeOK'
  BY <1>9 DEF RemoveMember
<1>10. ASSUME NEW c \in Collections, NEW u \in Users, NEW by \in Users,
              FulfilGrant(c, u, by)
       PROVE  TypeOK'
  BY <1>10 DEF FulfilGrant, AddMember
<1>11. ASSUME NEW c \in Collections, NEW u \in Users, NEW by \in Users,
              NEW role \in {"member", "manager"},
              FulfilGrantOrAdd(c, u, role, by)
       PROVE  TypeOK'
  BY <1>11 DEF FulfilGrantOrAdd, AddMember
<1>12. ASSUME NEW c \in Collections, NEW u \in Users, NEW by \in Users,
              NEW role \in {"member", "manager"},
              CreatePendingGrant(c, u, role, by)
       PROVE  TypeOK'
  BY <1>12 DEF CreatePendingGrant
<1>13. ASSUME NEW u \in Users, ResetUser(u) PROVE TypeOK'
  BY <1>13 DEF ResetUser
<1>14. ASSUME NEW u \in Users, DeleteUser(u) PROVE TypeOK'
  BY <1>14 DEF DeleteUser
<1>15. ASSUME NEW cutoff \in 1..MaxRevision, PurgeTombstones(cutoff) PROVE TypeOK'
  BY <1>15 DEF PurgeTombstones
<1>16. CASE UNCHANGED storeVars
  BY <1>16 DEF storeVars
<1>. HIDE DEF TypeOK
<1>. QED
  BY <1>1, <1>2, <1>3, <1>4, <1>5, <1>6, <1>7, <1>8, <1>9, <1>10, <1>11, <1>12,
     <1>13, <1>14, <1>15, <1>16
  DEF Next, ItemStep, FolderStep, CollectionStep, AccountStep

\* Every table holds rows of its schema after any sequence of transactions of
\* internal/store.
THEOREM TypeCorrect == Spec => []TypeOK
  BY TypeInit, TypeStep, PTL DEF Spec

\* A transaction draws its numbers above every number in use (nextRevision),
\* and rows it does not touch keep theirs.
LEMMA OwnRevisionStep ==
    TypeOK /\ TypeOK' /\ OwnRevision /\ [Next]_storeVars => OwnRevision'
<1>. SUFFICES ASSUME TypeOK, TypeOK', OwnRevision, [Next]_storeVars
              PROVE  OwnRevision'
  OBVIOUS
<1>. USE DEF OwnRevision, NoItem, NoFolder, NoMembership, NoGrant, HasRow,
             IsMember, NextRevision, TypeOK, ItemRow, FolderRow, Membership
<1>1. ASSUME NEW u \in Users, NEW batch \in Batches(u), CreateItemsBulk(u, batch)
      PROVE  OwnRevision'
  <2>. HIDE DEF TypeOK, OwnRevision
  <2>1. \A i \in Items : items[i].rev \in Nat /\ items[i].rev <= revision
    BY DEF OwnRevision, TypeOK
  <2>2. /\ UNCHANGED <<memberships, folders>>
        /\ revision \in Nat /\ revision' \in Nat /\ revision' > revision
        /\ \A i \in Items : items'[i] \in ItemRow
        /\ \A i \in Items :
              items'[i] = items[i] \/ items'[i].rev \in (revision + 1)..revision'
        /\ \A i, j \in Items :
              items'[i].rev = items'[j].rev /\ items'[i].rev > revision => i = j
    BY <1>1, <2>1, CreateItemsEffect DEF TypeOK
  <2>3. \A i \in Items : HasRow(items'[i]) => items'[i].rev \in 1..revision'
    BY <2>2 DEF OwnRevision
  <2>4. \A f \in Folders : HasRow(folders[f]) => folders[f].rev \in 1..revision'
    BY <2>2 DEF OwnRevision, TypeOK
  <2>5. \A c \in Collections, u1 \in Users :
           IsMember(c, u1) => memberships[c][u1].granted \in 1..revision'
    BY <2>2 DEF OwnRevision, TypeOK
  <2>6. \A i, j \in Items :
           HasRow(items'[i]) /\ HasRow(items'[j]) /\ items'[i].rev = items'[j].rev
           => i = j
    BY <2>1, <2>2 DEF OwnRevision
  <2>7. \A i \in Items, f \in Folders :
           HasRow(items'[i]) /\ HasRow(folders[f]) => items'[i].rev # folders[f].rev
    <3>1. \A f \in Folders :
             HasRow(folders[f]) => folders[f].rev \in Nat /\ folders[f].rev <= revision
      BY <2>2 DEF OwnRevision
    <3>. QED  BY <2>2, <3>1 DEF OwnRevision
  <2>8. \A i \in Items, c \in Collections, u1 \in Users :
           HasRow(items'[i]) /\ IsMember(c, u1)
           => items'[i].rev # memberships[c][u1].granted
    <3>1. \A c \in Collections, u1 \in Users :
             IsMember(c, u1) => /\ memberships[c][u1].granted \in Nat
                                /\ memberships[c][u1].granted <= revision
      BY <2>2 DEF OwnRevision
    <3>. QED  BY <2>2, <3>1 DEF OwnRevision
  <2>. QED  BY <2>2, <2>3, <2>4, <2>5, <2>6, <2>7, <2>8 DEF OwnRevision
<1>2. ASSUME NEW i \in Items, NEW u \in Users,
             NEW target \in Collections \cup {None},
             UpdateItem(i, items[i].rev, target, KeyFor(u, target))
      PROVE  OwnRevision'
  BY <1>2 DEF UpdateItem
<1>3. ASSUME NEW i \in Items, DeleteItem(i)
      PROVE  OwnRevision'
  BY <1>3 DEF DeleteItem
<1>4. ASSUME NEW u \in Users, NEW f \in Folders, CreateFolder(u, f)
      PROVE  OwnRevision'
  BY <1>4 DEF CreateFolder
<1>5. ASSUME NEW f \in Folders, UpdateFolder(f, folders[f].rev)
      PROVE  OwnRevision'
  BY <1>5 DEF UpdateFolder
<1>6. ASSUME NEW f \in Folders, DeleteFolder(f)
      PROVE  OwnRevision'
  BY <1>6 DEF DeleteFolder
<1>7. ASSUME NEW c \in Collections, NEW u \in Users, CreateCollection(c, u)
      PROVE  OwnRevision'
  BY <1>7 DEF CreateCollection
<1>8. ASSUME NEW c \in Collections, DeleteCollection(c)
      PROVE  OwnRevision'
  BY <1>8 DEF DeleteCollection
<1>9. ASSUME NEW c \in Collections, NEW u \in Users, RemoveMember(c, u)
      PROVE  OwnRevision'
  BY <1>9 DEF RemoveMember
<1>10. ASSUME NEW c \in Collections, NEW u \in Users, NEW by \in Users,
             FulfilGrant(c, u, by)
      PROVE  OwnRevision'
  BY <1>10 DEF FulfilGrant, AddMember
<1>11. ASSUME NEW c \in Collections, NEW u \in Users, NEW by \in Users,
             NEW role \in {"member", "manager"},
             FulfilGrantOrAdd(c, u, role, by)
      PROVE  OwnRevision'
  BY <1>11 DEF FulfilGrantOrAdd, AddMember
<1>12. ASSUME NEW c \in Collections, NEW u \in Users, NEW by \in Users,
             NEW role \in {"member", "manager"},
             CreatePendingGrant(c, u, role, by)
      PROVE  OwnRevision'
  BY <1>12 DEF CreatePendingGrant
<1>13. ASSUME NEW u \in Users, ResetUser(u)
      PROVE  OwnRevision'
  BY <1>13 DEF ResetUser
<1>14. ASSUME NEW u \in Users, DeleteUser(u)
      PROVE  OwnRevision'
  BY <1>14 DEF DeleteUser
<1>15. ASSUME NEW cutoff \in 1..MaxRevision, PurgeTombstones(cutoff)
      PROVE  OwnRevision'
  BY <1>15 DEF PurgeTombstones
<1>16. CASE UNCHANGED storeVars
  BY <1>16 DEF storeVars
<1>. HIDE DEF OwnRevision, TypeOK
<1>. QED
  BY <1>1, <1>2, <1>3, <1>4, <1>5, <1>6, <1>7, <1>8, <1>9, <1>10, <1>11, <1>12, <1>13, <1>14, <1>15, <1>16
  DEF Next, ItemStep, FolderStep, CollectionStep, AccountStep

\* No two rows or memberships ever share a revision, bulk inserts included, so
\* one cursor orders every change a sync can report.
THEOREM RevisionsUnique == Spec => []OwnRevision
<1>1. Init => OwnRevision
  BY DEF Init, OwnRevision, NoItem, NoFolder, NoMembership, HasRow, IsMember
<1>. QED  BY <1>1, TypeCorrect, OwnRevisionStep, PTL DEF Spec

-----------------------------------------------------------------------------
\* Every insert names rows that exist, and every delete takes with it, or is
\* refused by, the rows that name what it deletes.
LEMMA ReferencesStep ==
    TypeOK /\ ReferencesResolve /\ [Next]_storeVars => ReferencesResolve'
<1>. SUFFICES ASSUME TypeOK, ReferencesResolve, [Next]_storeVars
              PROVE  ReferencesResolve'
  OBVIOUS
<1>. USE ConstantsAssumption
     DEF ReferencesResolve, NoItem, NoFolder, NoMembership, NoGrant, HasRow,
         IsMember, IsManager, Exists, TypeOK, ItemRow, FolderRow,
         CollectionRow, Membership, PendingGrant
<1>1. ASSUME NEW u \in Users, NEW batch \in Batches(u), CreateItemsBulk(u, batch)
      PROVE  ReferencesResolve'
  BY <1>1, CreateItemsEffect
<1>2. ASSUME NEW i \in Items, NEW u \in Users,
             NEW target \in Collections \cup {None},
             UpdateItem(i, items[i].rev, target, KeyFor(u, target))
      PROVE  ReferencesResolve'
  BY <1>2 DEF UpdateItem
<1>3. ASSUME NEW i \in Items, DeleteItem(i)
      PROVE  ReferencesResolve'
  BY <1>3 DEF DeleteItem
<1>4. ASSUME NEW u \in Users, NEW f \in Folders, CreateFolder(u, f)
      PROVE  ReferencesResolve'
  BY <1>4 DEF CreateFolder
<1>5. ASSUME NEW f \in Folders, UpdateFolder(f, folders[f].rev)
      PROVE  ReferencesResolve'
  BY <1>5 DEF UpdateFolder
<1>6. ASSUME NEW f \in Folders, DeleteFolder(f)
      PROVE  ReferencesResolve'
  BY <1>6 DEF DeleteFolder
<1>7. ASSUME NEW c \in Collections, NEW u \in Users, CreateCollection(c, u)
      PROVE  ReferencesResolve'
  BY <1>7 DEF CreateCollection
<1>8. ASSUME NEW c \in Collections, DeleteCollection(c)
      PROVE  ReferencesResolve'
  BY <1>8 DEF DeleteCollection
<1>9. ASSUME NEW c \in Collections, NEW u \in Users, RemoveMember(c, u)
      PROVE  ReferencesResolve'
  BY <1>9 DEF RemoveMember
<1>10. ASSUME NEW c \in Collections, NEW u \in Users, NEW by \in Users,
             FulfilGrant(c, u, by)
      PROVE  ReferencesResolve'
  BY <1>10 DEF FulfilGrant, AddMember
<1>11. ASSUME NEW c \in Collections, NEW u \in Users, NEW by \in Users,
             NEW role \in {"member", "manager"},
             FulfilGrantOrAdd(c, u, role, by)
      PROVE  ReferencesResolve'
  BY <1>11 DEF FulfilGrantOrAdd, AddMember
<1>12. ASSUME NEW c \in Collections, NEW u \in Users, NEW by \in Users,
             NEW role \in {"member", "manager"},
             CreatePendingGrant(c, u, role, by)
      PROVE  ReferencesResolve'
  BY <1>12 DEF CreatePendingGrant
<1>13. ASSUME NEW u \in Users, ResetUser(u)
      PROVE  ReferencesResolve'
  BY <1>13 DEF ResetUser
<1>14. ASSUME NEW u \in Users, DeleteUser(u)
      PROVE  ReferencesResolve'
  BY <1>14 DEF DeleteUser, Referenced
<1>15. ASSUME NEW cutoff \in 1..MaxRevision, PurgeTombstones(cutoff)
      PROVE  ReferencesResolve'
  BY <1>15 DEF PurgeTombstones
<1>16. CASE UNCHANGED storeVars
  BY <1>16 DEF storeVars
<1>. HIDE DEF ReferencesResolve, TypeOK
<1>. QED
  BY <1>1, <1>2, <1>3, <1>4, <1>5, <1>6, <1>7, <1>8, <1>9, <1>10, <1>11, <1>12, <1>13, <1>14, <1>15, <1>16
  DEF Next, ItemStep, FolderStep, CollectionStep, AccountStep

\* No cascade, reset or deletion leaves a row that names a missing user or
\* collection.
THEOREM ForeignKeysHold == Spec => []ReferencesResolve
<1>1. Init => ReferencesResolve
  BY DEF Init, ReferencesResolve, NoItem, NoFolder, NoMembership, NoGrant,
         HasRow, IsMember, Exists
<1>. QED  BY <1>1, TypeCorrect, ReferencesStep, PTL DEF Spec

-----------------------------------------------------------------------------
\* Each transaction that leaves a row changed has numbered it anew.
LEMMA NumberedStep == TypeOK /\ [Next]_storeVars => ChangeIsNumbered
<1>. SUFFICES ASSUME TypeOK, [Next]_storeVars PROVE ChangeIsNumbered
  OBVIOUS
<1>. USE DEF ChangeIsNumbered, NoItem, NoFolder, NoMembership, NoGrant, HasRow,
             NextRevision, TypeOK
<1>1. ASSUME NEW u \in Users, NEW batch \in Batches(u), CreateItemsBulk(u, batch)
      PROVE  ChangeIsNumbered
  BY <1>1, CreateItemsEffect
<1>2. ASSUME NEW i \in Items, NEW u \in Users,
             NEW target \in Collections \cup {None},
             UpdateItem(i, items[i].rev, target, KeyFor(u, target))
      PROVE  ChangeIsNumbered
  BY <1>2 DEF UpdateItem
<1>3. ASSUME NEW i \in Items, DeleteItem(i)
      PROVE  ChangeIsNumbered
  BY <1>3 DEF DeleteItem
<1>4. ASSUME NEW u \in Users, NEW f \in Folders, CreateFolder(u, f)
      PROVE  ChangeIsNumbered
  BY <1>4 DEF CreateFolder
<1>5. ASSUME NEW f \in Folders, UpdateFolder(f, folders[f].rev)
      PROVE  ChangeIsNumbered
  BY <1>5 DEF UpdateFolder
<1>6. ASSUME NEW f \in Folders, DeleteFolder(f)
      PROVE  ChangeIsNumbered
  BY <1>6 DEF DeleteFolder
<1>7. ASSUME NEW c \in Collections, NEW u \in Users, CreateCollection(c, u)
      PROVE  ChangeIsNumbered
  BY <1>7 DEF CreateCollection
<1>8. ASSUME NEW c \in Collections, DeleteCollection(c)
      PROVE  ChangeIsNumbered
  BY <1>8 DEF DeleteCollection
<1>9. ASSUME NEW c \in Collections, NEW u \in Users, RemoveMember(c, u)
      PROVE  ChangeIsNumbered
  BY <1>9 DEF RemoveMember
<1>10. ASSUME NEW c \in Collections, NEW u \in Users, NEW by \in Users,
             FulfilGrant(c, u, by)
      PROVE  ChangeIsNumbered
  BY <1>10 DEF FulfilGrant, AddMember
<1>11. ASSUME NEW c \in Collections, NEW u \in Users, NEW by \in Users,
             NEW role \in {"member", "manager"},
             FulfilGrantOrAdd(c, u, role, by)
      PROVE  ChangeIsNumbered
  BY <1>11 DEF FulfilGrantOrAdd, AddMember
<1>12. ASSUME NEW c \in Collections, NEW u \in Users, NEW by \in Users,
             NEW role \in {"member", "manager"},
             CreatePendingGrant(c, u, role, by)
      PROVE  ChangeIsNumbered
  BY <1>12 DEF CreatePendingGrant
<1>13. ASSUME NEW u \in Users, ResetUser(u)
      PROVE  ChangeIsNumbered
  BY <1>13 DEF ResetUser
<1>14. ASSUME NEW u \in Users, DeleteUser(u)
      PROVE  ChangeIsNumbered
  BY <1>14 DEF DeleteUser
<1>15. ASSUME NEW cutoff \in 1..MaxRevision, PurgeTombstones(cutoff)
      PROVE  ChangeIsNumbered
  BY <1>15 DEF PurgeTombstones
<1>16. CASE UNCHANGED storeVars
  BY <1>16 DEF storeVars
<1>. HIDE DEF ChangeIsNumbered, TypeOK
<1>. QED
  BY <1>1, <1>2, <1>3, <1>4, <1>5, <1>6, <1>7, <1>8, <1>9, <1>10, <1>11, <1>12, <1>13, <1>14, <1>15, <1>16
  DEF Next, ItemStep, FolderStep, CollectionStep, AccountStep

\* No change to a row that stays escapes the revision sequence, so none escapes
\* SyncSince's filter.
THEOREM NumbersCoverChanges == Spec => ChangesAreNumbered
  BY TypeCorrect, NumberedStep, PTL DEF Spec, ChangesAreNumbered

-----------------------------------------------------------------------------
\* Only a live row is written, and only an id never used is inserted; the
\* foreign keys keep a cascade from reaching a row that is not there.
LEMMA FinalStep ==
    TypeOK /\ ReferencesResolve /\ [Next]_storeVars => DeleteIsFinal
<1>. SUFFICES ASSUME TypeOK, ReferencesResolve, [Next]_storeVars
              PROVE  DeleteIsFinal
  OBVIOUS
<1>. USE ConstantsAssumption DEF DeleteIsFinal, NoItem, NoFolder, HasRow, TypeOK
<1>1. ASSUME NEW u \in Users, NEW batch \in Batches(u), CreateItemsBulk(u, batch)
      PROVE  DeleteIsFinal
  BY <1>1, CreateItemsEffect
<1>2. ASSUME NEW i \in Items, NEW u \in Users,
             NEW target \in Collections \cup {None},
             UpdateItem(i, items[i].rev, target, KeyFor(u, target))
      PROVE  DeleteIsFinal
  BY <1>2 DEF UpdateItem
<1>3. ASSUME NEW i \in Items, DeleteItem(i)
      PROVE  DeleteIsFinal
  BY <1>3 DEF DeleteItem
<1>4. ASSUME NEW u \in Users, NEW f \in Folders, CreateFolder(u, f)
      PROVE  DeleteIsFinal
  BY <1>4 DEF CreateFolder
<1>5. ASSUME NEW f \in Folders, UpdateFolder(f, folders[f].rev)
      PROVE  DeleteIsFinal
  BY <1>5 DEF UpdateFolder
<1>6. ASSUME NEW f \in Folders, DeleteFolder(f)
      PROVE  DeleteIsFinal
  BY <1>6 DEF DeleteFolder
<1>7. ASSUME NEW c \in Collections, NEW u \in Users, CreateCollection(c, u)
      PROVE  DeleteIsFinal
  BY <1>7 DEF CreateCollection
<1>8. ASSUME NEW c \in Collections, DeleteCollection(c)
      PROVE  DeleteIsFinal
  BY <1>8 DEF DeleteCollection
<1>9. ASSUME NEW c \in Collections, NEW u \in Users, RemoveMember(c, u)
      PROVE  DeleteIsFinal
  BY <1>9 DEF RemoveMember
<1>10. ASSUME NEW c \in Collections, NEW u \in Users, NEW by \in Users,
             FulfilGrant(c, u, by)
      PROVE  DeleteIsFinal
  BY <1>10 DEF FulfilGrant, AddMember
<1>11. ASSUME NEW c \in Collections, NEW u \in Users, NEW by \in Users,
             NEW role \in {"member", "manager"},
             FulfilGrantOrAdd(c, u, role, by)
      PROVE  DeleteIsFinal
  BY <1>11 DEF FulfilGrantOrAdd, AddMember
<1>12. ASSUME NEW c \in Collections, NEW u \in Users, NEW by \in Users,
             NEW role \in {"member", "manager"},
             CreatePendingGrant(c, u, role, by)
      PROVE  DeleteIsFinal
  BY <1>12 DEF CreatePendingGrant
<1>13. ASSUME NEW u \in Users, ResetUser(u)
      PROVE  DeleteIsFinal
  BY <1>13 DEF ResetUser
<1>14. ASSUME NEW u \in Users, DeleteUser(u)
      PROVE  DeleteIsFinal
  BY <1>14 DEF DeleteUser
<1>15. ASSUME NEW cutoff \in 1..MaxRevision, PurgeTombstones(cutoff)
      PROVE  DeleteIsFinal
  BY <1>15 DEF PurgeTombstones
<1>16. CASE UNCHANGED storeVars
  BY <1>16 DEF storeVars
<1>. HIDE DEF DeleteIsFinal, TypeOK
<1>. QED
  BY <1>1, <1>2, <1>3, <1>4, <1>5, <1>6, <1>7, <1>8, <1>9, <1>10, <1>11, <1>12, <1>13, <1>14, <1>15, <1>16
  DEF Next, ItemStep, FolderStep, CollectionStep, AccountStep

\* A tombstone is never revived and a purged id never reused, whatever the
\* clients send.
THEOREM DeletesStand == Spec => DeletesAreFinal
  BY TypeCorrect, ForeignKeysHold, FinalStep, PTL DEF Spec, DeletesAreFinal

-----------------------------------------------------------------------------
(***************************************************************************)
(* The devices.                                                            *)
(***************************************************************************)

\* A device that creates an item inserts a batch of one.
LEMMA SingletonBatch ==
    ASSUME NEW u \in Users, NEW i \in Items, NEW c \in Collections \cup {None}
    PROVE  <<[id |-> i, collection |-> c, key |-> KeyFor(u, c)]>> \in Batches(u)
<1>. DEFINE in == [id |-> i, collection |-> c, key |-> KeyFor(u, c)]
            S == {r \in ItemInput : r.key = KeyFor(u, r.collection)}
<1>1. in \in S
  BY DEF ItemInput, KeyFor, Keys
<1>2. <<in>> \in [1..1 -> S]
  BY <1>1
<1>3. 1 \in 1..MaxBatch
  BY ConstantsAssumption
<1>. QED  BY <1>2, <1>3 DEF Batches

\* The store's tables change only by the store's own transactions.
LEMMA StoreStep == SyncTypeOK /\ [SyncNext]_vars => [Next]_storeVars
<1>. SUFFICES ASSUME SyncTypeOK, [SyncNext]_vars PROVE [Next]_storeVars
  OBVIOUS
<1>1. CASE OtherClients
  BY <1>1 DEF OtherClients
<1>2. ASSUME NEW d \in Devices, SyncStep(d) PROVE UNCHANGED storeVars
  BY <1>2 DEF SyncStep, RequestSync, AnswerSync, ApplySync
<1>3. ASSUME NEW d \in Devices, SaveStep(d) PROVE [Next]_storeVars
  <2>0. UserOf[d] \in Users
    BY DevicesAssumption
  <2>1. ASSUME NEW call \in calls[d], NEW i \in Items, CommitCreate(d, call, i)
        PROVE  Next
    <3>1. call.target \in Collections \cup {None}
      BY <2>1 DEF SyncTypeOK, IsCall, CommitCreate
    <3>. DEFINE batch == <<[id |-> i, collection |-> call.target,
                            key |-> KeyFor(UserOf[d], call.target)]>>
    <3>2. batch \in Batches(UserOf[d]) /\ CreateItemsBulk(UserOf[d], batch)
      BY <2>0, <2>1, <3>1, SingletonBatch DEF CommitCreate
    <3>. QED  BY <2>0, <3>2 DEF Next, ItemStep
  <2>2. ASSUME NEW call \in calls[d], CommitUpdate(d, call) PROVE Next
    <3>1. call.target \in Collections \cup {None} /\ call.id \in Items
      BY <2>2 DEF SyncTypeOK, IsCall, CommitUpdate
    <3>2. UpdateItem(call.id, items[call.id].rev, call.target,
                     KeyFor(UserOf[d], call.target))
      BY <2>2 DEF CommitUpdate, UpdateItem
    <3>. QED  BY <2>0, <3>1, <3>2 DEF Next, ItemStep
  <2>3. ASSUME NEW call \in calls[d], CommitDelete(d, call) PROVE Next
    <3>1. call.id \in Items
      BY <2>3 DEF SyncTypeOK, IsCall, CommitDelete
    <3>. QED  BY <2>3, <3>1 DEF Next, ItemStep, CommitDelete
  <2>. QED
    BY <1>3, <2>1, <2>2, <2>3
    DEF SaveStep, RequestCreate, RequestUpdate, RequestDelete, ApplySave
<1>4. ASSUME NEW d \in Devices, NEW call \in calls[d], DropCall(d, call)
      PROVE  UNCHANGED storeVars
  BY <1>4 DEF DropCall
<1>5. CASE UNCHANGED vars
  BY <1>5 DEF vars
<1>. QED  BY <1>1, <1>2, <1>3, <1>4, <1>5 DEF SyncNext

-----------------------------------------------------------------------------
\* An answer names rows by the ids of the tables it was read from.
LEMMA AnswerTyped ==
    ASSUME TypeOK, NEW u \in Users, NEW since \in Nat
    PROVE  IsAnswer(SyncSince(u, since))
  BY DEF TypeOK, IsAnswer, SyncSince, SyncItems, SyncFolders, SentItem,
         SentFolder, ItemRow, FolderRow

\* What the client keeps of a well-formed row is a well-formed cache entry.
LEMMA EntryTyped ==
    ASSUME NEW row, row.rev \in Nat, row.collection \in Collections \cup {None}
    PROVE  EntryOf(row) \in Entry
  BY DEF EntryOf, Entry, NoEntry

\* An unlocked tab starts with an empty store (EMPTY) and nothing in flight.
LEMMA SyncTypeInit == SyncInit => SyncTypeOK
  BY TypeInit
  DEF SyncInit, SyncTypeOK, EmptyCache, EmptyFolderCache, NoEntry, Entry, NoRows

\* Every step of fetchInto, of a save and of the server keeps the shapes.
LEMMA SyncTypeStep == SyncTypeOK /\ [SyncNext]_vars => SyncTypeOK'
<1>. SUFFICES ASSUME SyncTypeOK, [SyncNext]_vars PROVE SyncTypeOK'
  OBVIOUS
<1>0. TypeOK /\ TypeOK'
  BY StoreStep, TypeStep DEF SyncTypeOK
<1>. DEFINE ClientOK ==
       /\ cursor \in [Devices -> Nat]
       /\ cache \in [Devices -> [Items -> Entry]]
       /\ folderCache \in [Devices -> [Folders -> Nat]]
       /\ known \in [Devices -> SUBSET Collections]
       /\ overtaken \in [Devices -> [items : SUBSET Items, folders : SUBSET Folders]]
       /\ DOMAIN calls = Devices
       /\ \A d \in Devices : \A call \in calls[d] : IsCall(call)
<1>1. ClientOK
  BY DEF SyncTypeOK
<1>. SUFFICES ClientOK'
  BY <1>0 DEF SyncTypeOK
<1>2. CASE UNCHANGED clientVars
  BY <1>1, <1>2 DEF clientVars
<1>3. ASSUME NEW d \in Devices, NEW full \in BOOLEAN, RequestSync(d, full)
      PROVE  ClientOK'
  BY <1>1, <1>3 DEF RequestSync, IsCall
<1>4. ASSUME NEW d \in Devices, NEW call \in calls[d], AnswerSync(d, call)
      PROVE  ClientOK'
  <2>1. call.full \in BOOLEAN /\ call.since \in Nat
    BY <1>1, <1>4 DEF AnswerSync, IsCall
  <2>2. IsAnswer(SyncSince(UserOf[d], call.since))
    BY <1>0, <2>1, AnswerTyped, DevicesAssumption
  <2>3. IsCall([op |-> "answered", full |-> call.full, since |-> call.since,
                res |-> SyncSince(UserOf[d], call.since)])
    BY <2>1, <2>2 DEF IsCall
  <2>. QED  BY <1>1, <1>4, <2>3 DEF AnswerSync
<1>5. ASSUME NEW d \in Devices, NEW call \in calls[d], ApplySync(d, call)
      PROVE  ClientOK'
  <2>1. IsAnswer(call.res)
    BY <1>1, <1>5 DEF ApplySync, IsCall
  <2>2. ASSUME NEW existing \in [Items -> Entry]
        PROVE  Merged(existing, call.res.items) \in [Items -> Entry]
    BY <2>1, <2>2, EntryTyped DEF IsAnswer, SentItem, Merged
  <2>3. ASSUME NEW existing \in [Folders -> Nat]
        PROVE  MergedFolders(existing, call.res.folders) \in [Folders -> Nat]
    BY <2>1, <2>3 DEF IsAnswer, SentFolder, MergedFolders, FolderEntryOf
  <2>4. EmptyCache \in [Items -> Entry] /\ EmptyFolderCache \in [Folders -> Nat]
    BY DEF EmptyCache, EmptyFolderCache, NoEntry, Entry
  <2>5. /\ call.res.revision \in Nat
        /\ call.res.collections \in SUBSET Collections
    BY <2>1 DEF IsAnswer
  <2>6. \A e \in Devices : calls'[e] \subseteq calls[e]
    BY <1>1, <1>5 DEF ApplySync
  <2>7. UNCHANGED storeVars /\ DOMAIN calls' = Devices
    BY <1>1, <1>5 DEF ApplySync
  <2>8. cache' \in [Devices -> [Items -> Entry]]
    BY <1>1, <1>5, <2>2, <2>4 DEF ApplySync
  <2>9. folderCache' \in [Devices -> [Folders -> Nat]]
    BY <1>1, <1>5, <2>3, <2>4 DEF ApplySync
  <2>10. cursor' \in [Devices -> Nat] /\ known' \in [Devices -> SUBSET Collections]
    BY <1>1, <1>5, <2>5 DEF ApplySync
  <2>11. overtaken' \in [Devices -> [items : SUBSET Items, folders : SUBSET Folders]]
    <3>1. StillOvertaken(d, call) \in [items : SUBSET Items, folders : SUBSET Folders]
      BY <1>1 DEF StillOvertaken, NoRows, AllRows
    <3>. QED  BY <1>1, <1>5, <3>1 DEF ApplySync
  <2>. QED  BY <1>1, <2>6, <2>7, <2>8, <2>9, <2>10, <2>11
<1>6. ASSUME NEW d \in Devices, NEW c \in Collections \cup {None},
             RequestCreate(d, c)
      PROVE  ClientOK'
  BY <1>1, <1>6 DEF RequestCreate, IsCall
<1>7. ASSUME NEW d \in Devices, NEW i \in Items, NEW c \in Collections \cup {None},
             NEW n \in {cache[d][i].rev, items[i].rev}, RequestUpdate(d, i, c, n)
      PROVE  ClientOK'
  <2>1. items[i].rev \in Nat /\ cache[d][i].rev \in Nat
    BY <1>0, <1>1 DEF TypeOK, ItemRow, Entry
  <2>2. IsCall([op |-> "update", id |-> i, target |-> c, loaded |-> items[i].rev,
                expected |-> n])
    BY <2>1 DEF IsCall
  <2>. QED  BY <1>1, <1>7, <2>2 DEF RequestUpdate
<1>8. ASSUME NEW d \in Devices, NEW i \in Items, RequestDelete(d, i)
      PROVE  ClientOK'
  <2>1. items[i].rev \in Nat
    BY <1>0 DEF TypeOK, ItemRow
  <2>. QED  BY <1>1, <1>8, <2>1 DEF RequestDelete, IsCall
<1>9. ASSUME NEW i \in Items PROVE EntryOf(items'[i]) \in Entry
  BY <1>0, EntryTyped DEF TypeOK, ItemRow
<1>10. ASSUME NEW d \in Devices, NEW call \in calls[d], NEW i \in Items,
              CommitCreate(d, call, i)
       PROVE  ClientOK'
  BY <1>1, <1>9, <1>10 DEF CommitCreate, IsCall
<1>11. ASSUME NEW d \in Devices, NEW call \in calls[d], CommitUpdate(d, call)
       PROVE  ClientOK'
  <2>1. call.id \in Items
    BY <1>1, <1>11 DEF CommitUpdate, IsCall
  <2>. QED  BY <1>1, <1>9, <1>11, <2>1 DEF CommitUpdate, IsCall
<1>12. ASSUME NEW d \in Devices, NEW call \in calls[d], CommitDelete(d, call)
       PROVE  ClientOK'
  <2>1. call.id \in Items
    BY <1>1, <1>12 DEF CommitDelete, IsCall
  <2>. QED  BY <1>1, <1>12, <2>1 DEF CommitDelete, IsCall, NoEntry, Entry
<1>13. ASSUME NEW d \in Devices, NEW call \in calls[d], ApplySave(d, call)
       PROVE  ClientOK'
  <2>1. call.id \in Items /\ call.entry \in Entry
    BY <1>1, <1>13 DEF ApplySave, IsCall
  <2>. QED  BY <1>1, <1>13, <2>1 DEF ApplySave
<1>14. ASSUME NEW d \in Devices, NEW call \in calls[d], DropCall(d, call)
       PROVE  ClientOK'
  BY <1>1, <1>14 DEF DropCall
<1>15. CASE UNCHANGED vars
  BY <1>2, <1>15 DEF vars
<1>. HIDE DEF ClientOK
<1>. QED
  BY <1>2, <1>3, <1>4, <1>5, <1>6, <1>7, <1>8, <1>10, <1>11, <1>12, <1>13, <1>14,
     <1>15
  DEF SyncNext, OtherClients, SyncStep, SaveStep

\* Cache, cursor and calls in flight keep their shapes, whatever overlaps and
\* whatever the other clients do.
THEOREM SyncTypeCorrect == SyncSpec => []SyncTypeOK
  BY SyncTypeInit, SyncTypeStep, PTL DEF SyncSpec

\* The composition implements its store: whatever the devices do, what happens
\* to the tables is a behaviour of VaultStore.
THEOREM SyncImplementsStore == SyncSpec => Spec
<1>1. SyncInit => Init
  BY DEF SyncInit
<1>. QED  BY <1>1, SyncTypeCorrect, StoreStep, PTL DEF SyncSpec, Spec

-----------------------------------------------------------------------------
\* A number that is not ahead of its row stays so: the row keeps its number or
\* gets one above every number issued (nextRevision).
LEMMA NotAheadStable ==
    ASSUME TypeOK, TypeOK', ChangeIsNumbered, NEW n \in Nat, NEW i \in Items, NotAhead(n, i)
    PROVE  NotAhead(n, i)'
<1>1. /\ revision \in Nat /\ revision' \in Nat /\ items[i].rev \in Nat /\ items'[i].rev \in Nat
      /\ revision' >= revision
  BY DEF TypeOK, ItemRow, ChangeIsNumbered
<1>2. CASE items'[i] = items[i]
  BY <1>1, <1>2 DEF NotAhead
<1>3. CASE items'[i] # items[i]
  BY <1>1, <1>3 DEF NotAhead, ChangeIsNumbered
<1>. QED  BY <1>2, <1>3

\* A call in flight keeps what it holds while the store moves on.
LEMMA CallNotAheadStable ==
    ASSUME TypeOK, TypeOK', ChangeIsNumbered, NEW call, IsCall(call), CallNotAhead(call)
    PROVE  CallNotAhead(call)'
<1>1. ASSUME call.op = "answered", NEW i \in DOMAIN call.res.items
      PROVE  NotAhead(call.res.items[i].rev, i)'
  <2>1. i \in Items /\ call.res.items[i].rev \in Nat
    BY <1>1 DEF IsCall, IsAnswer, SentItem
  <2>. QED  BY <1>1, <2>1, NotAheadStable DEF CallNotAhead
<1>2. ASSUME call.op = "update" PROVE NotAhead(call.loaded, call.id)'
  <2>1. call.id \in Items /\ call.loaded \in Nat
    BY <1>2 DEF IsCall
  <2>. QED  BY <1>2, <2>1, NotAheadStable DEF CallNotAhead
<1>3. ASSUME call.op = "saved" PROVE NotAhead(call.entry.rev, call.id)'
  <2>1. call.id \in Items /\ call.entry.rev \in Nat
    BY <1>3 DEF IsCall, Entry
  <2>. QED  BY <1>3, <2>1, NotAheadStable DEF CallNotAhead
<1>. QED  BY <1>1, <1>2, <1>3 DEF CallNotAhead

\* What is read from a row is not ahead of it, live or deleted.
LEMMA ReadNotAhead ==
    ASSUME TypeOK, OwnRevision, NEW i \in Items
    PROVE  /\ NotAhead(items[i].rev, i) /\ NotAhead(EntryOf(items[i]).rev, i)
           /\ NotAhead(0, i)
<1>1. items[i].rev \in Nat /\ revision \in Nat /\ items[i].rev <= revision
  BY DEF TypeOK, ItemRow, OwnRevision, NoItem
<1>2. EntryOf(items[i]).rev \in {0, items[i].rev}
  BY DEF EntryOf, NoEntry
<1>. QED  BY <1>1, <1>2 DEF NotAhead

\* Every request, answer, merge and save keeps NothingAhead, overlapping or not.
LEMMA NothingAheadStep ==
    ASSUME SyncTypeOK, SyncTypeOK', OwnRevision, OwnRevision', ChangeIsNumbered,
           NothingAhead, [SyncNext]_vars
    PROVE  NothingAhead'
<1>0. /\ TypeOK /\ TypeOK' /\ DOMAIN calls = Devices
      /\ cache \in [Devices -> [Items -> Entry]]
  BY DEF SyncTypeOK
<1>. SUFFICES ASSUME NEW e \in Devices
              PROVE  /\ \A i \in Items : NotAhead(cache[e][i].rev, i)'
                     /\ \A call \in calls'[e] : CallNotAhead(call)'
  BY DEF NothingAhead
<1>1. \A i \in Items : NotAhead(cache[e][i].rev, i) /\ cache[e][i].rev \in Nat
  BY <1>0 DEF NothingAhead, Entry
<1>2. \A call \in calls[e] : CallNotAhead(call)'
  BY <1>0, CallNotAheadStable DEF NothingAhead, SyncTypeOK
<1>3. ASSUME cache'[e] = cache[e] PROVE \A i \in Items : NotAhead(cache[e][i].rev, i)'
  BY <1>0, <1>1, <1>3, NotAheadStable
<1>. DEFINE Goal == /\ \A i \in Items : NotAhead(cache[e][i].rev, i)'
                    /\ \A call \in calls'[e] : CallNotAhead(call)'
\* A step that leaves the cache and adds at most one call to those in flight.
<1>4. ASSUME cache'[e] = cache[e], NEW x, calls'[e] \subseteq calls[e] \cup {x},
             CallNotAhead(x)'
      PROVE  Goal
  BY <1>2, <1>3, <1>4
<1>5. ASSUME cache'[e] = cache[e], calls'[e] \subseteq calls[e] PROVE Goal
  BY <1>2, <1>3, <1>5
<1>. SUFFICES Goal
  OBVIOUS
<1>. HIDE DEF Goal
<1>6. ASSUME NEW d \in Devices, NEW full \in BOOLEAN, RequestSync(d, full) PROVE Goal
  <2>1. PICK x : x = [op |-> "asked", full |-> full, since |-> IF full THEN 0 ELSE cursor[d]]
    OBVIOUS
  <2>2. cache'[e] = cache[e] /\ calls'[e] \subseteq calls[e] \cup {x}
    BY <1>0, <1>6, <2>1 DEF RequestSync
  <2>3. CallNotAhead(x)'
    BY <2>1 DEF CallNotAhead
  <2>. QED  BY <1>4, <2>2, <2>3
<1>7. ASSUME NEW d \in Devices, NEW call \in calls[d], AnswerSync(d, call) PROVE Goal
  <2>1. PICK x : x = [op |-> "answered", full |-> call.full, since |-> call.since,
                      res |-> SyncSince(UserOf[d], call.since)]
    OBVIOUS
  <2>2. /\ cache'[e] = cache[e] /\ calls'[e] \subseteq calls[e] \cup {x}
        /\ items' = items /\ revision' = revision
    BY <1>0, <1>7, <2>1 DEF AnswerSync, storeVars
  <2>3. \A i \in DOMAIN x.res.items : i \in Items /\ x.res.items[i].rev = items[i].rev
    BY <2>1 DEF SyncSince, SyncItems
  <2>4. \A i \in DOMAIN x.res.items : NotAhead(x.res.items[i].rev, i)'
    BY <1>0, <2>2, <2>3, ReadNotAhead DEF NotAhead
  <2>5. x.op = "answered"
    BY <2>1
  <2>6. CallNotAhead(x)'
    BY <2>4, <2>5 DEF CallNotAhead
  <2>. QED  BY <1>4, <2>2, <2>6
<1>8. ASSUME NEW d \in Devices, NEW call \in calls[d], ApplySync(d, call) PROVE Goal
  <2>1. calls'[e] \subseteq calls[e] /\ items' = items /\ revision' = revision
    BY <1>0, <1>8 DEF ApplySync, storeVars
  <2>2. CASE d # e
    <3>1. cache'[e] = cache[e]
      BY <1>0, <1>8, <2>2 DEF ApplySync
    <3>. QED  BY <1>5, <2>1, <3>1
  <2>3. CASE d = e
    <3>1. \A i \in Items :
             cache'[e][i] = IF i \in DOMAIN call.res.items
                            THEN EntryOf(call.res.items[i])
                            ELSE IF call.full THEN NoEntry ELSE cache[e][i]
      BY <1>0, <1>8, <2>3 DEF ApplySync, Merged, EmptyCache
    <3>2. CallNotAhead(call) /\ call.op = "answered"
      BY <1>8 DEF NothingAhead, ApplySync
    <3>3. ASSUME NEW i \in Items PROVE NotAhead(cache'[e][i].rev, i)
      <4>1. /\ NotAhead(0, i) /\ NotAhead(cache[e][i].rev, i)
            /\ i \in DOMAIN call.res.items => NotAhead(call.res.items[i].rev, i)
        BY <1>0, <1>1, <3>2, ReadNotAhead DEF CallNotAhead
      <4>2. \A row : EntryOf(row).rev \in {0, row.rev}
        BY DEF EntryOf, NoEntry
      <4>3. NoEntry.rev = 0
        BY DEF NoEntry
      <4>4. \/ cache'[e][i].rev = 0
            \/ cache'[e][i].rev = cache[e][i].rev
            \/ i \in DOMAIN call.res.items /\ cache'[e][i].rev = call.res.items[i].rev
        BY <3>1, <4>2, <4>3
      <4>. QED  BY <4>1, <4>4
    <3>4. \A i \in Items : NotAhead(cache[e][i].rev, i)'
      BY <2>1, <3>3 DEF NotAhead
    <3>. QED  BY <1>2, <2>1, <3>4 DEF Goal
  <2>. QED  BY <2>2, <2>3
<1>9. ASSUME NEW d \in Devices, NEW c \in Collections \cup {None}, RequestCreate(d, c)
      PROVE  Goal
  <2>1. PICK x : x = [op |-> "create", target |-> c]
    OBVIOUS
  <2>2. cache'[e] = cache[e] /\ calls'[e] \subseteq calls[e] \cup {x}
    BY <1>0, <1>9, <2>1 DEF RequestCreate
  <2>3. CallNotAhead(x)'
    BY <2>1 DEF CallNotAhead
  <2>. QED  BY <1>4, <2>2, <2>3
<1>10. ASSUME NEW d \in Devices, NEW i \in Items, NEW c \in Collections \cup {None},
              NEW n \in {cache[d][i].rev, items[i].rev}, RequestUpdate(d, i, c, n)
       PROVE  Goal
  <2>1. PICK x : x = [op |-> "update", id |-> i, target |-> c, loaded |-> items[i].rev,
                      expected |-> n]
    OBVIOUS
  <2>2. /\ cache'[e] = cache[e] /\ calls'[e] \subseteq calls[e] \cup {x}
        /\ items' = items /\ revision' = revision /\ HasRow(items[i])
    BY <1>0, <1>10, <2>1 DEF RequestUpdate, storeVars, VisibleItem
  <2>3. n <= items[i].rev
    <3>1. items[i].rev \in Nat /\ NotAhead(cache[d][i].rev, i)
      BY <1>0 DEF TypeOK, ItemRow, NothingAhead
    <3>. QED  BY <2>2, <3>1 DEF NotAhead
  <2>4. x.op = "update" /\ x.id = i /\ x.loaded = items[i].rev /\ x.expected = n
    BY <2>1
  <2>5. NotAhead(x.loaded, x.id)'
    BY <1>0, <2>2, <2>4, ReadNotAhead DEF NotAhead
  <2>6. CallNotAhead(x)'
    BY <2>3, <2>4, <2>5 DEF CallNotAhead
  <2>. QED  BY <1>4, <2>2, <2>6
<1>11. ASSUME NEW d \in Devices, NEW i \in Items, RequestDelete(d, i) PROVE Goal
  <2>1. PICK x : x = [op |-> "delete", id |-> i, loaded |-> items[i].rev]
    OBVIOUS
  <2>2. cache'[e] = cache[e] /\ calls'[e] \subseteq calls[e] \cup {x}
    BY <1>0, <1>11, <2>1 DEF RequestDelete
  <2>3. CallNotAhead(x)'
    BY <2>1 DEF CallNotAhead
  <2>. QED  BY <1>4, <2>2, <2>3
\* What is answered to a save was read in the transaction that wrote it.
<1>12. ASSUME NEW d \in Devices, NEW call \in calls[d], NEW i \in Items, NEW x,
              x.op = "saved", x.id = i, x.entry.rev \in {0, EntryOf(items'[i]).rev},
              calls' = [calls EXCEPT ![d] = (@ \ {call}) \cup {x}], UNCHANGED cache
       PROVE  Goal
  <2>1. cache'[e] = cache[e] /\ calls'[e] \subseteq calls[e] \cup {x}
    BY <1>0, <1>12
  <2>2. NotAhead(0, i)' /\ NotAhead(EntryOf(items[i]).rev, i)'
    <3>1. items'[i].rev \in Nat /\ revision' \in Nat /\ items'[i].rev <= revision'
      BY <1>0 DEF TypeOK, ItemRow, OwnRevision, NoItem
    <3>2. EntryOf(items'[i]).rev \in {0, items'[i].rev}
      BY DEF EntryOf, NoEntry
    <3>. QED  BY <3>1, <3>2 DEF NotAhead
  <2>3. CallNotAhead(x)'
    BY <1>12, <2>2 DEF CallNotAhead
  <2>. QED  BY <1>4, <2>1, <2>3
<1>13. ASSUME NEW d \in Devices, NEW call \in calls[d], NEW i \in Items,
              CommitCreate(d, call, i)
       PROVE  Goal
  <2>1. PICK x : x = [op |-> "saved", id |-> i, entry |-> EntryOf(items'[i])]
    OBVIOUS
  <2>2. x.op = "saved" /\ x.id = i /\ x.entry.rev \in {0, EntryOf(items'[i]).rev}
    BY <2>1
  <2>3. calls' = [calls EXCEPT ![d] = (@ \ {call}) \cup {x}] /\ UNCHANGED cache
    BY <1>13, <2>1 DEF CommitCreate
  <2>. QED  BY <1>12, <2>2, <2>3
<1>14. ASSUME NEW d \in Devices, NEW call \in calls[d], CommitUpdate(d, call) PROVE Goal
  <2>0. call.id \in Items
    BY <1>14 DEF SyncTypeOK, IsCall, CommitUpdate
  <2>1. PICK x : x = [op |-> "saved", id |-> call.id, entry |-> EntryOf(items'[call.id])]
    OBVIOUS
  <2>2. x.op = "saved" /\ x.id = call.id /\ x.entry.rev \in {0, EntryOf(items'[call.id]).rev}
    BY <2>1
  <2>3. calls' = [calls EXCEPT ![d] = (@ \ {call}) \cup {x}] /\ UNCHANGED cache
    BY <1>14, <2>1 DEF CommitUpdate
  <2>. QED  BY <1>12, <2>0, <2>2, <2>3
<1>15. ASSUME NEW d \in Devices, NEW call \in calls[d], CommitDelete(d, call) PROVE Goal
  <2>0. call.id \in Items
    BY <1>15 DEF SyncTypeOK, IsCall, CommitDelete
  <2>1. PICK x : x = [op |-> "saved", id |-> call.id, entry |-> NoEntry]
    OBVIOUS
  <2>2. x.op = "saved" /\ x.id = call.id /\ x.entry.rev \in {0, EntryOf(items'[call.id]).rev}
    BY <2>1 DEF NoEntry
  <2>3. calls' = [calls EXCEPT ![d] = (@ \ {call}) \cup {x}] /\ UNCHANGED cache
    BY <1>15, <2>1 DEF CommitDelete
  <2>. QED  BY <1>12, <2>0, <2>2, <2>3
<1>16. ASSUME NEW d \in Devices, NEW call \in calls[d], ApplySave(d, call) PROVE Goal
  <2>1. /\ calls'[e] \subseteq calls[e] /\ items' = items /\ revision' = revision
        /\ CallNotAhead(call) /\ call.op = "saved" /\ call.id \in Items
    BY <1>0, <1>16 DEF ApplySave, storeVars, NothingAhead, SyncTypeOK, IsCall
  <2>2. \A i \in Items : cache'[e][i] \in {cache[e][i], IF i = call.id THEN call.entry
                                                                     ELSE cache[e][i]}
    BY <1>0, <1>16, <2>1 DEF ApplySave
  <2>3. \A i \in Items : NotAhead(cache'[e][i].rev, i)
    BY <1>1, <2>1, <2>2 DEF CallNotAhead
  <2>4. \A i \in Items : NotAhead(cache[e][i].rev, i)'
    BY <2>1, <2>3 DEF NotAhead
  <2>. QED  BY <1>2, <2>1, <2>4 DEF Goal
<1>17. ASSUME NEW d \in Devices, NEW call \in calls[d], DropCall(d, call) PROVE Goal
  BY <1>0, <1>5, <1>17 DEF DropCall
<1>18. CASE UNCHANGED clientVars
  BY <1>5, <1>18 DEF clientVars
<1>19. CASE UNCHANGED vars
  BY <1>18, <1>19 DEF vars
<1>. QED
  BY <1>6, <1>7, <1>8, <1>9, <1>10, <1>11, <1>13, <1>14, <1>15, <1>16, <1>17, <1>18, <1>19
  DEF SyncNext, OtherClients, SyncStep, SaveStep

\* No number a device holds for a row is ever ahead of the row.
LEMMA NeverAhead == SyncSpec => []NothingAhead
<1>1. SyncInit => NothingAhead
  BY DEF SyncInit, Init, NothingAhead, NotAhead, EmptyCache, NoEntry, NoItem, HasRow
<1>2. SyncTypeOK /\ SyncTypeOK' /\ OwnRevision /\ OwnRevision' /\ NothingAhead
      /\ [SyncNext]_vars => NothingAhead'
  BY NothingAheadStep, StoreStep, NumberedStep DEF SyncTypeOK
<1>. QED
  BY <1>1, <1>2, SyncTypeCorrect, SyncImplementsStore, RevisionsUnique, PTL DEF SyncSpec

\* An update commits only on the row its access check was made on, however the
\* devices' calls overlap: handleUpdateItem loads and checks outside the store's
\* transaction, and the revision it sends along makes any row that changed in
\* between a conflict.
THEOREM UpdatesHitTheCheckedRow == SyncSpec => UpdatesActOnTheRowChecked
<1>1. ASSUME SyncTypeOK, NothingAhead, NEW d \in Devices, NEW call \in calls[d],
             CommitUpdate(d, call)
      PROVE  items[call.id].rev = call.loaded
  <2>1. /\ call.op = "update" /\ items[call.id].st = "live"
        /\ items[call.id].rev = call.expected
    BY <1>1 DEF CommitUpdate, UpdateItem
  <2>2. call.id \in Items /\ call.loaded \in Nat /\ call.expected \in Nat
    BY <1>1, <2>1 DEF SyncTypeOK, IsCall
  <2>3. NotAhead(call.loaded, call.id) /\ call.expected <= call.loaded
    BY <1>1, <2>1 DEF NothingAhead, CallNotAhead
  <2>. QED  BY <2>1, <2>2, <2>3 DEF NotAhead, HasRow
<1>2. SyncTypeOK /\ NothingAhead /\ [SyncNext]_vars
      => [\A d \in Devices : \A call \in calls[d] :
            CommitUpdate(d, call) => items[call.id].rev = call.loaded]_vars
  BY <1>1
<1>. QED
  BY <1>2, SyncTypeCorrect, NeverAhead, PTL DEF SyncSpec, UpdatesActOnTheRowChecked
-----------------------------------------------------------------------------
\* The heart of incremental sync.  A row that is behind a cursor already handed
\* out is not touched by any step that leaves it behind that cursor.
LEMMA BehindStable ==
    ASSUME TypeOK, ChangeIsNumbered, NEW u \in Users, NEW n \in Nat, n <= revision,
           NEW i \in Items, TypeOK', Behind(u, i, n)'
    PROVE  /\ items'[i] = items[i]
           /\ \A m \in Nat : Behind(u, i, m)' <=> Behind(u, i, m)
<1>1. items'[i] = items[i]
  BY DEF ChangeIsNumbered, Behind, VisibleItem, ItemChangedSince, HasRow, TypeOK,
         ItemRow
<1>2. CASE items[i].collection = None
  BY <1>1, <1>2 DEF Behind, VisibleItem, ItemChangedSince, HasRow
<1>3. CASE items[i].collection # None
  <2>. DEFINE c == items[i].collection
  <2>1. c \in Collections
    BY <1>3 DEF TypeOK, ItemRow
  <2>2. memberships'[c][u] = memberships[c][u]
    <3>1. /\ memberships'[c][u].role # "none"
          /\ ~(memberships'[c][u].granted > n)
      BY <1>1, <1>3 DEF Behind, VisibleItem, ItemChangedSince, IsMember
    <3>2. memberships'[c][u].granted \in Nat /\ revision \in Nat
      BY <2>1 DEF TypeOK, Membership
    <3>3. ~(memberships'[c][u].granted > revision)
      BY <3>1, <3>2
    <3>. QED  BY <2>1, <3>1, <3>3 DEF ChangeIsNumbered
  <2>. QED
    BY <1>1, <1>3, <2>2 DEF Behind, VisibleItem, ItemChangedSince, HasRow, IsMember
<1>. QED  BY <1>1, <1>2, <1>3

\* The same for folders, which only their owner sees.
LEMMA FolderBehindStable ==
    ASSUME TypeOK, ChangeIsNumbered, NEW u \in Users, NEW n \in Nat, n <= revision,
           NEW f \in Folders, TypeOK', FolderBehind(u, f, n)'
    PROVE  /\ folders'[f] = folders[f]
           /\ \A m \in Nat : FolderBehind(u, f, m)' <=> FolderBehind(u, f, m)
<1>1. folders'[f] = folders[f]
  BY DEF ChangeIsNumbered, FolderBehind, VisibleFolder, HasRow, TypeOK, FolderRow
<1>2. folders[f].rev \in Nat
  BY DEF TypeOK, FolderRow
<1>. QED  BY <1>1, <1>2 DEF FolderBehind, VisibleFolder, HasRow

\* The answer of a snapshot is sound for the snapshot's cursor.
LEMMA SnapshotSound ==
    ASSUME TypeOK, NEW u \in Users, NEW since \in Nat
    PROVE  AnswerSound(u, since, SyncSince(u, since))
<1>. DEFINE res == SyncSince(u, since)
<1>1. /\ res.revision = revision
      /\ DOMAIN res.items = SyncItems(u, since)
      /\ \A i \in SyncItems(u, since) :
            /\ res.items[i].st = items[i].st /\ res.items[i].rev = items[i].rev
            /\ res.items[i].collection = items[i].collection
      /\ DOMAIN res.folders = SyncFolders(u, since)
      /\ \A f \in SyncFolders(u, since) :
            /\ res.folders[f].st = folders[f].st
            /\ res.folders[f].rev = folders[f].rev
  BY DEF SyncSince
<1>. HIDE DEF res
<1>2. ASSUME NEW i \in Items, Behind(u, i, revision)
      PROVE  IF i \in DOMAIN res.items
             THEN EntryOf(res.items[i]) = EntryOf(items[i])
             ELSE Behind(u, i, since)
  <2>1. CASE i \in SyncItems(u, since)
    BY <1>1, <2>1 DEF EntryOf
  <2>2. CASE i \notin SyncItems(u, since)
    BY <1>1, <1>2, <2>2 DEF SyncItems, Behind
  <2>. QED  BY <2>1, <2>2
<1>3. ASSUME NEW f \in Folders, FolderBehind(u, f, revision)
      PROVE  IF f \in DOMAIN res.folders
             THEN FolderEntryOf(res.folders[f]) = FolderEntryOf(folders[f])
             ELSE FolderBehind(u, f, since)
  <2>1. CASE f \in SyncFolders(u, since)
    BY <1>1, <2>1 DEF FolderEntryOf
  <2>2. CASE f \notin SyncFolders(u, since)
    <3>1. folders[f].rev \in Nat
      BY DEF TypeOK, FolderRow
    <3>. QED  BY <1>1, <1>3, <2>2, <3>1 DEF SyncFolders, FolderBehind
  <2>. QED  BY <2>1, <2>2
<1>4. revision <= revision
  BY DEF TypeOK
<1>. QED  BY <1>1, <1>2, <1>3, <1>4 DEF AnswerSound, res

-----------------------------------------------------------------------------
\* A call in flight stays sound whatever the store does meanwhile, and whatever
\* else its device does.
LEMMA CallStable ==
    ASSUME TypeOK, TypeOK', ChangeIsNumbered, DeleteIsFinal, NEW d \in Devices, NEW call,
           IsCall(call), CallSound(d, call)
    PROVE  CallSound(d, call)'
<1>0. UserOf[d] \in Users /\ revision \in Nat /\ revision' \in Nat /\ revision' >= revision
  BY DevicesAssumption DEF TypeOK, ChangeIsNumbered
<1>1. ASSUME call.op \in {"asked", "answered"}, call.full PROVE call.since = 0
  BY <1>1 DEF CallSound
<1>2. ASSUME call.op = "answered"
      PROVE  AnswerSound(UserOf[d], call.since, call.res)'
  <2>. DEFINE u == UserOf[d]
              n == call.res.revision
              m == call.since
  <2>1. AnswerSound(u, m, call.res)
    BY <1>2 DEF CallSound
  <2>2. n \in Nat /\ m \in Nat /\ n <= revision
    BY <1>2, <2>1 DEF IsCall, IsAnswer, AnswerSound
  <2>3. n <= revision'
    BY <1>0, <2>2
  <2>4. ASSUME NEW i \in Items, Behind(u, i, n)'
        PROVE  IF i \in DOMAIN call.res.items
               THEN EntryOf(call.res.items[i]) = EntryOf(items'[i])
               ELSE Behind(u, i, m)'
    <3>1. items'[i] = items[i] /\ (Behind(u, i, n)' <=> Behind(u, i, n))
          /\ (Behind(u, i, m)' <=> Behind(u, i, m))
      BY <1>0, <2>2, <2>4, BehindStable
    <3>. QED  BY <2>1, <2>4, <3>1 DEF AnswerSound
  <2>5. ASSUME NEW f \in Folders, FolderBehind(u, f, n)'
        PROVE  IF f \in DOMAIN call.res.folders
               THEN FolderEntryOf(call.res.folders[f]) = FolderEntryOf(folders'[f])
               ELSE FolderBehind(u, f, m)'
    <3>1. folders'[f] = folders[f] /\ (FolderBehind(u, f, n)' <=> FolderBehind(u, f, n))
          /\ (FolderBehind(u, f, m)' <=> FolderBehind(u, f, m))
      BY <1>0, <2>2, <2>5, FolderBehindStable
    <3>. QED  BY <2>1, <2>5, <3>1 DEF AnswerSound
  <2>. QED  BY <2>3, <2>4, <2>5 DEF AnswerSound
<1>3. ASSUME call.op = "saved", call.entry.rev = 0
      PROVE  call.entry = NoEntry /\ items'[call.id].st \in {"tombstone", "gone"}
  <2>1. call.id \in Items
    BY <1>3 DEF IsCall
  <2>. QED  BY <1>3, <2>1 DEF CallSound, DeleteIsFinal
<1>. QED  BY <1>1, <1>2, <1>3 DEF CallSound

\* A device that merges nothing stays sound while the store moves on.
LEMMA IdleStable ==
    ASSUME TypeOK, TypeOK', ChangeIsNumbered, NEW d \in Devices,
           cursor[d] \in Nat, cursor[d] <= revision, cursor'[d] = cursor[d],
           cache'[d] = cache[d], folderCache'[d] = folderCache[d],
           overtaken'[d] = overtaken[d], CursorSoundFor(d)
    PROVE  cursor'[d] <= revision' /\ CursorSoundFor(d)'
<1>0. UserOf[d] \in Users /\ revision \in Nat /\ revision' \in Nat /\ revision' >= revision
  BY DevicesAssumption DEF TypeOK, ChangeIsNumbered
<1>1. ASSUME NEW i \in Items \ overtaken[d].items, Behind(UserOf[d], i, cursor[d])'
      PROVE  cache'[d][i] = EntryOf(items'[i])
  <2>1. items'[i] = items[i] /\ Behind(UserOf[d], i, cursor[d])
    BY <1>0, <1>1, BehindStable
  <2>. QED  BY <2>1 DEF CursorSoundFor, ItemSound
<1>2. ASSUME NEW f \in Folders \ overtaken[d].folders, FolderBehind(UserOf[d], f, cursor[d])'
      PROVE  folderCache'[d][f] = FolderEntryOf(folders'[f])
  <2>1. folders'[f] = folders[f] /\ FolderBehind(UserOf[d], f, cursor[d])
    BY <1>0, <1>2, FolderBehindStable
  <2>. QED  BY <2>1 DEF CursorSoundFor, FolderSound
<1>3. cursor'[d] <= revision'
  BY <1>0
<1>. QED  BY <1>1, <1>2, <1>3 DEF CursorSoundFor, ItemSound, FolderSound

\* What is behind a cursor is behind a later one.
LEMMA BehindLater ==
    ASSUME TypeOK, NEW u \in Users, NEW m \in Nat, NEW n \in Nat, m <= n
    PROVE  /\ \A i \in Items : Behind(u, i, m) => Behind(u, i, n)
           /\ \A f \in Folders : FolderBehind(u, f, m) => FolderBehind(u, f, n)
<1>1. ASSUME NEW i \in Items, Behind(u, i, m) PROVE Behind(u, i, n)
  <2>1. items[i].rev \in Nat
    BY DEF TypeOK, ItemRow
  <2>2. items[i].collection # None => /\ items[i].collection \in Collections
                                      /\ memberships[items[i].collection][u].granted \in Nat
    BY DEF TypeOK, ItemRow, Membership
  <2>. QED  BY <1>1, <2>1, <2>2 DEF Behind, ItemChangedSince
<1>2. ASSUME NEW f \in Folders, FolderBehind(u, f, m) PROVE FolderBehind(u, f, n)
  <2>1. folders[f].rev \in Nat
    BY DEF TypeOK, FolderRow
  <2>. QED  BY <1>2, <2>1 DEF FolderBehind
<1>. QED  BY <1>1, <1>2

-----------------------------------------------------------------------------
\* InOrderSync is inductive: one step per request, commit, answer and merge.
LEMMA InOrderStep ==
    ASSUME SyncTypeOK, SyncTypeOK', OwnRevision, ChangeIsNumbered, DeleteIsFinal,
           NothingAhead, InOrderSync, [SyncNext]_vars
    PROVE  InOrderSync'
<1>0. /\ TypeOK /\ TypeOK'
      /\ DOMAIN calls = Devices
      /\ \A d \in Devices :
            /\ UserOf[d] \in Users
            /\ cursor[d] \in Nat /\ cursor[d] <= revision
            /\ CursorSoundFor(d)
            /\ \A call \in calls[d] : IsCall(call) /\ CallSound(d, call)
  BY DevicesAssumption DEF SyncTypeOK, InOrderSync
<1>. DEFINE Sound(d) ==
       /\ cursor[d] <= revision
       /\ \A call \in calls[d] : CallSound(d, call)
       /\ CursorSoundFor(d)
<1>. SUFFICES ASSUME NEW e \in Devices PROVE Sound(e)'
  BY DEF InOrderSync
<1>. DEFINE Kept == /\ cursor'[e] = cursor[e] /\ cache'[e] = cache[e]
                    /\ folderCache'[e] = folderCache[e] /\ overtaken'[e] = overtaken[e]
<1>1. \A call \in calls[e] : CallSound(e, call)'
  BY <1>0, CallStable
<1>2. ASSUME Kept, calls'[e] \subseteq calls[e] PROVE Sound(e)'
  BY <1>0, <1>1, <1>2, IdleStable
\* What is added to the calls in flight, of this device or of another.
<1>3. ASSUME NEW d \in Devices, NEW call, NEW x, CallSound(d, x)',
             calls' = [calls EXCEPT ![d] = (@ \ {call}) \cup {x}],
             UNCHANGED <<cursor, cache, folderCache, known, overtaken>>
      PROVE  Sound(e)'
  <2>1. Kept
    BY <1>3
  <2>2. calls'[e] \subseteq calls[e] \/ (d = e /\ calls'[e] \subseteq calls[e] \cup {x})
    BY <1>0, <1>3
  <2>. QED  BY <1>0, <1>1, <1>3, <2>1, <2>2, IdleStable
<1>4. ASSUME NEW d \in Devices, NEW x, CallSound(d, x)',
             calls' = [calls EXCEPT ![d] = @ \cup {x}],
             UNCHANGED <<cursor, cache, folderCache, known, overtaken>>
      PROVE  Sound(e)'
  <2>1. Kept
    BY <1>4
  <2>2. calls'[e] \subseteq calls[e] \/ (d = e /\ calls'[e] \subseteq calls[e] \cup {x})
    BY <1>0, <1>4
  <2>. QED  BY <1>0, <1>1, <1>4, <2>1, <2>2, IdleStable
<1>5. ASSUME NEW d \in Devices, NEW full \in BOOLEAN, RequestSync(d, full)
      PROVE  Sound(e)'
  <2>1. PICK x : x = [op |-> "asked", full |-> full, since |-> IF full THEN 0 ELSE cursor[d]]
    OBVIOUS
  <2>2. CallSound(d, x)'
    BY <2>1 DEF CallSound
  <2>. QED  BY <1>4, <1>5, <2>1, <2>2 DEF RequestSync
<1>6. ASSUME NEW d \in Devices, NEW call \in calls[d], AnswerSync(d, call)
      PROVE  Sound(e)'
  <2>1. PICK x : x = [op |-> "answered", full |-> call.full, since |-> call.since,
                      res |-> SyncSince(UserOf[d], call.since)]
    OBVIOUS
  <2>2. call.full \in BOOLEAN /\ call.since \in Nat /\ (call.full => call.since = 0)
    BY <1>0, <1>6 DEF AnswerSync, IsCall, CallSound
  <2>3. CallSound(d, x)
    <3>1. AnswerSound(UserOf[d], x.since, x.res)
      BY <1>0, <2>1, <2>2, SnapshotSound
    <3>. QED  BY <2>1, <2>2, <3>1 DEF CallSound
  <2>4. IsCall(x)
    BY <1>0, <2>1, <2>2, AnswerTyped DEF IsCall
  <2>5. CallSound(d, x)'
    BY <1>0, <2>3, <2>4, CallStable
  <2>. QED  BY <1>3, <1>6, <2>1, <2>5 DEF AnswerSync
<1>7. ASSUME NEW d \in Devices, NEW call \in calls[d], ApplySync(d, call)
      PROVE  Sound(e)'
  <2>1. CASE d # e
    <3>1. Kept /\ calls'[e] = calls[e]
      BY <1>0, <1>7, <2>1 DEF ApplySync, SyncTypeOK
    <3>. QED  BY <1>2, <3>1
  <2>2. CASE d = e
    <3>. DEFINE u == UserOf[e]
                n == call.res.revision
    <3>1. /\ AnswerSound(u, call.since, call.res) /\ IsAnswer(call.res)
          /\ call.since \in Nat /\ call.full \in BOOLEAN /\ (call.full => call.since = 0)
      BY <1>0, <1>7, <2>2 DEF ApplySync, CallSound, IsCall
    <3>2. /\ calls'[e] \subseteq calls[e]
          /\ cursor'[e] = n
          /\ overtaken'[e] = StillOvertaken(e, call)
          /\ UNCHANGED storeVars
      BY <1>0, <1>7, <2>2 DEF ApplySync, SyncTypeOK
    <3>3. \A i \in Items :
             cache'[e][i] = IF i \in DOMAIN call.res.items
                            THEN EntryOf(call.res.items[i])
                            ELSE IF call.full THEN NoEntry ELSE cache[e][i]
      BY <1>7, <2>2 DEF ApplySync, Merged, EmptyCache, SyncTypeOK
    <3>4. \A f \in Folders :
             folderCache'[e][f] = IF f \in DOMAIN call.res.folders
                                  THEN FolderEntryOf(call.res.folders[f])
                                  ELSE IF call.full THEN 0 ELSE folderCache[e][f]
      BY <1>7, <2>2 DEF ApplySync, MergedFolders, EmptyFolderCache, SyncTypeOK
    <3>5. ASSUME NEW i \in Items \ overtaken'[e].items, Behind(u, i, n)
          PROVE  cache'[e][i] = EntryOf(items[i])
      <4>1. CASE i \in DOMAIN call.res.items
        BY <3>1, <3>3, <3>5, <4>1 DEF AnswerSound
      <4>2. CASE i \notin DOMAIN call.res.items
        <5>1. Behind(u, i, call.since)
          BY <3>1, <3>5, <4>2 DEF AnswerSound
        <5>2. call.since # 0
          BY <5>1 DEF Behind, VisibleItem, ItemChangedSince, OwnRevision
        <5>3. ~call.full
          BY <3>1, <5>2
        <5>4. call.since <= cursor[e] /\ i \notin overtaken[e].items
          BY <1>0, <3>1, <3>2, <3>5, <4>2, <5>3 DEF StillOvertaken, AllRows
        <5>5. Behind(u, i, cursor[e])
          BY <1>0, <3>1, <5>1, <5>4, BehindLater
        <5>. QED  BY <1>0, <3>3, <4>2, <5>3, <5>4, <5>5 DEF CursorSoundFor, ItemSound
      <4>. QED  BY <4>1, <4>2
    <3>6. ASSUME NEW f \in Folders \ overtaken'[e].folders, FolderBehind(u, f, n)
          PROVE  folderCache'[e][f] = FolderEntryOf(folders[f])
      <4>1. CASE f \in DOMAIN call.res.folders
        BY <3>1, <3>4, <3>6, <4>1 DEF AnswerSound
      <4>2. CASE f \notin DOMAIN call.res.folders
        <5>1. FolderBehind(u, f, call.since)
          BY <3>1, <3>6, <4>2 DEF AnswerSound
        <5>2. call.since # 0
          BY <5>1 DEF FolderBehind, VisibleFolder, OwnRevision
        <5>3. ~call.full
          BY <3>1, <5>2
        <5>4. call.since <= cursor[e] /\ f \notin overtaken[e].folders
          BY <1>0, <3>1, <3>2, <3>6, <4>2, <5>3 DEF StillOvertaken, AllRows
        <5>5. FolderBehind(u, f, cursor[e])
          BY <1>0, <3>1, <5>1, <5>4, BehindLater
        <5>. QED  BY <1>0, <3>4, <4>2, <5>3, <5>4, <5>5 DEF CursorSoundFor, FolderSound
      <4>. QED  BY <4>1, <4>2
    <3>7. \A i \in Items : Behind(u, i, cursor[e])' <=> Behind(u, i, n)
      BY <3>2 DEF storeVars, Behind, VisibleItem, ItemChangedSince, IsMember
    <3>8. \A f \in Folders : FolderBehind(u, f, cursor[e])' <=> FolderBehind(u, f, n)
      BY <3>2 DEF storeVars, FolderBehind, VisibleFolder
    <3>9. items' = items /\ folders' = folders /\ revision' = revision
      BY <3>2 DEF storeVars
    <3>10. CursorSoundFor(e)'
      BY <3>5, <3>6, <3>7, <3>8, <3>9 DEF CursorSoundFor, ItemSound, FolderSound
    <3>11. n <= revision
      BY <3>1 DEF AnswerSound
    <3>. QED  BY <1>1, <3>2, <3>9, <3>10, <3>11
  <2>. QED  BY <2>1, <2>2
\* A request that has not been committed claims nothing.
<1>8. ASSUME NEW x, x.op \in {"create", "update", "delete"}, NEW d \in Devices
      PROVE  CallSound(d, x)'
  BY <1>8 DEF CallSound
<1>9. ASSUME NEW d \in Devices, NEW c \in Collections \cup {None}, RequestCreate(d, c)
      PROVE  Sound(e)'
  <2>1. PICK x : x = [op |-> "create", target |-> c]
    OBVIOUS
  <2>2. CallSound(d, x)'
    BY <1>8, <2>1
  <2>. QED  BY <1>4, <1>9, <2>1, <2>2 DEF RequestCreate
<1>10. ASSUME NEW d \in Devices, NEW i \in Items, NEW c \in Collections \cup {None},
              NEW n \in {cache[d][i].rev, items[i].rev}, RequestUpdate(d, i, c, n)
       PROVE  Sound(e)'
  <2>1. PICK x : x = [op |-> "update", id |-> i, target |-> c,
                      loaded |-> items[i].rev, expected |-> n]
    OBVIOUS
  <2>2. CallSound(d, x)'
    BY <1>8, <2>1
  <2>. QED  BY <1>4, <1>10, <2>1, <2>2 DEF RequestUpdate
<1>11. ASSUME NEW d \in Devices, NEW i \in Items, RequestDelete(d, i)
       PROVE  Sound(e)'
  <2>1. PICK x : x = [op |-> "delete", id |-> i, loaded |-> items[i].rev]
    OBVIOUS
  <2>2. CallSound(d, x)'
    BY <1>8, <2>1
  <2>. QED  BY <1>4, <1>11, <2>1, <2>2 DEF RequestDelete
\* An answer without a row is to a delete, and deletes are final.
<1>12. ASSUME NEW d \in Devices, NEW i \in Items,
              NEW x, x = [op |-> "saved", id |-> i, entry |-> EntryOf(items'[i])],
              items'[i].st = "live", items'[i].rev # 0
       PROVE  CallSound(d, x)'
  BY <1>12 DEF CallSound, EntryOf
<1>13. ASSUME NEW d \in Devices, NEW call \in calls[d], NEW i \in Items,
              CommitCreate(d, call, i)
       PROVE  Sound(e)'
  <2>1. PICK x : x = [op |-> "saved", id |-> i, entry |-> EntryOf(items'[i])]
    OBVIOUS
  <2>2. items'[i].st = "live" /\ items'[i].rev # 0
    <3>. DEFINE c == call.target
    <3>1. c \in Collections \cup {None}
      BY <1>0, <1>13 DEF CommitCreate, IsCall
    <3>. DEFINE batch == <<[id |-> i, collection |-> c, key |-> KeyFor(UserOf[d], c)]>>
    <3>2. batch \in Batches(UserOf[d])
      BY <1>0, <3>1, SingletonBatch
    <3>3. CreateItemsBulk(UserOf[d], batch)
      BY <1>13 DEF CommitCreate
    <3>4. 1 \in DOMAIN batch /\ batch[1].id = i
      OBVIOUS
    <3>. HIDE DEF batch
    <3>5. items[i].st = "unborn" /\ items'[i].st = "live"
      BY <3>3, <3>4 DEF CreateItemsBulk
    <3>6. items'[i].rev > revision
      BY <1>0, <3>2, <3>3, <3>5, CreateItemsEffect
    <3>. QED  BY <1>0, <3>5, <3>6 DEF TypeOK
  <2>3. CallSound(d, x)'
    BY <1>12, <2>1, <2>2
  <2>. QED  BY <1>3, <1>13, <2>1, <2>3 DEF CommitCreate
<1>14. ASSUME NEW d \in Devices, NEW call \in calls[d], CommitUpdate(d, call)
       PROVE  Sound(e)'
  <2>1. PICK x : x = [op |-> "saved", id |-> call.id, entry |-> EntryOf(items'[call.id])]
    OBVIOUS
  <2>2. call.id \in Items
    BY <1>0, <1>14 DEF CommitUpdate, IsCall
  <2>3. items'[call.id].st = "live" /\ items'[call.id].rev # 0
    BY <1>0, <1>14, <2>2 DEF CommitUpdate, UpdateItem, TypeOK, NextRevision
  <2>4. CallSound(d, x)'
    BY <1>12, <2>1, <2>2, <2>3
  <2>. QED  BY <1>3, <1>14, <2>1, <2>4 DEF CommitUpdate
<1>15. ASSUME NEW d \in Devices, NEW call \in calls[d], CommitDelete(d, call)
       PROVE  Sound(e)'
  <2>1. PICK x : x = [op |-> "saved", id |-> call.id, entry |-> NoEntry]
    OBVIOUS
  <2>2. call.id \in Items
    BY <1>0, <1>15 DEF CommitDelete, IsCall
  <2>3. items'[call.id].st = "tombstone"
    BY <1>0, <1>15, <2>2 DEF CommitDelete, DeleteItem, TypeOK
  <2>4. CallSound(d, x)'
    BY <2>1, <2>3 DEF CallSound
  <2>. QED  BY <1>3, <1>15, <2>1, <2>4 DEF CommitDelete
<1>16. ASSUME NEW d \in Devices, NEW call \in calls[d], ApplySave(d, call)
       PROVE  Sound(e)'
  <2>1. CASE d # e
    <3>1. Kept /\ calls'[e] = calls[e]
      BY <1>0, <1>16, <2>1 DEF ApplySave, SyncTypeOK
    <3>. QED  BY <1>2, <3>1
  <2>2. CASE d = e
    <3>. DEFINE u == UserOf[e]
    <3>1. /\ call.op = "saved" /\ call.id \in Items /\ call.entry.rev \in Nat
          /\ calls'[e] \subseteq calls[e]
          /\ UNCHANGED <<storeVars, cursor, folderCache>>
      BY <1>0, <1>16, <2>2 DEF ApplySave, IsCall, Entry
    <3>2. /\ cache'[e][call.id] = call.entry
          /\ \A i \in Items \ {call.id} : cache'[e][i] = cache[e][i]
      BY <1>16, <2>2, <3>1 DEF ApplySave, SyncTypeOK
    <3>3. /\ overtaken'[e].folders = overtaken[e].folders
          /\ overtaken'[e].items = IF Passed(e, call.entry.rev)
                                   THEN overtaken[e].items \cup {call.id}
                                   ELSE overtaken[e].items \ {call.id}
      BY <1>16, <2>2 DEF ApplySave, SyncTypeOK
    <3>4. ASSUME NEW i \in Items \ overtaken'[e].items, Behind(u, i, cursor[e])
          PROVE  cache'[e][i] = EntryOf(items[i])
      <4>1. CASE i # call.id
        BY <1>0, <3>2, <3>3, <3>4, <4>1 DEF CursorSoundFor, ItemSound
      <4>2. CASE i = call.id
        <5>1. ~Passed(e, call.entry.rev)
          BY <3>3, <3>4, <4>2
        <5>2. NotAhead(call.entry.rev, call.id)
          BY <2>2, <3>1 DEF NothingAhead, CallNotAhead
        <5>3. HasRow(items[i]) /\ ~(items[i].rev > cursor[e]) /\ items[i].rev \in Nat
          BY <1>0, <3>4 DEF Behind, VisibleItem, ItemChangedSince, TypeOK, ItemRow
        <5>4. call.entry.rev = 0
          BY <1>0, <3>1, <4>2, <5>1, <5>2, <5>3 DEF Passed, NotAhead
        <5>5. call.entry = NoEntry /\ items[i].st # "live"
          BY <1>0, <2>2, <3>1, <4>2, <5>4 DEF CallSound
        <5>. QED  BY <3>2, <4>2, <5>5 DEF EntryOf
      <4>. QED  BY <4>1, <4>2
    <3>5. \A i \in Items : Behind(u, i, cursor[e])' <=> Behind(u, i, cursor[e])
      BY <3>1 DEF storeVars, Behind, VisibleItem, ItemChangedSince, IsMember
    <3>6. \A f \in Folders :
             FolderBehind(u, f, cursor[e])' <=> FolderBehind(u, f, cursor[e])
      BY <3>1 DEF storeVars, FolderBehind, VisibleFolder
    <3>7. items' = items /\ folders' = folders /\ revision' = revision
      BY <3>1 DEF storeVars
    <3>8. CursorSoundFor(e)'
      BY <1>0, <3>1, <3>3, <3>4, <3>5, <3>6, <3>7 DEF CursorSoundFor, ItemSound, FolderSound
    <3>. QED  BY <1>0, <1>1, <3>1, <3>7, <3>8
  <2>. QED  BY <2>1, <2>2
<1>17. ASSUME NEW d \in Devices, NEW call \in calls[d], DropCall(d, call)
       PROVE  Sound(e)'
  <2>1. Kept /\ calls'[e] \subseteq calls[e]
    BY <1>0, <1>17 DEF DropCall
  <2>. QED  BY <1>2, <2>1
<1>18. CASE UNCHANGED clientVars
  BY <1>2, <1>18 DEF clientVars
<1>19. CASE UNCHANGED vars
  BY <1>18, <1>19 DEF vars
<1>. HIDE DEF Sound
<1>. QED
  BY <1>5, <1>6, <1>7, <1>9, <1>10, <1>11, <1>13, <1>14, <1>15, <1>16, <1>17, <1>18, <1>19
  DEF SyncNext, OtherClients, SyncStep, SaveStep

\* What is in flight never contradicts a row behind the cursor it was asked from,
\* however many calls of a device overlap and whatever the other clients commit
\* between the request, the page and its merge (VaultStore.sync, save).
THEOREM OverlappingCallsStaySound == SyncSpec => []InOrderSync
<1>1. SyncInit => InOrderSync
  BY DEF SyncInit, Init, InOrderSync, CursorSoundFor, ItemSound, FolderSound, Behind,
         FolderBehind, VisibleItem, VisibleFolder, HasRow, NoItem, NoFolder
<1>2. SyncTypeOK /\ SyncTypeOK' /\ OwnRevision /\ ReferencesResolve /\ NothingAhead
      /\ InOrderSync /\ [SyncNext]_vars => InOrderSync'
  BY InOrderStep, StoreStep, NumberedStep, FinalStep DEF SyncTypeOK
<1>. QED
  BY <1>1, <1>2, SyncTypeCorrect, SyncImplementsStore, RevisionsUnique, ForeignKeysHold,
     NeverAhead, PTL
  DEF SyncSpec

\* No device's cursor ever passes a row the device was not given (SyncSince's
\* promise), for any number of devices, users, items and revisions and however
\* many calls a device has in flight.  The rows excepted are those of an answer
\* that came in the wrong order: NoRowIsPassed fails of them.
THEOREM CursorNeverPassesARow == SyncSpec => []CursorSound
<1>1. InOrderSync => CursorSound
  BY DEF InOrderSync, CursorSound
<1>. QED
  BY <1>1, OverlappingCallsStaySound, PTL
=============================================================================
