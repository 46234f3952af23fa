---------------------------- MODULE ImportProofs -----------------------------
(***************************************************************************)
(* uploadItems keeps the promise of ImportPromise and never sends a        *)
(* request the server must refuse for its size, for every file, every      *)
(* limit and every budget; and the import screen uploads what its preview  *)
(* listed and accounts for every row, for every file and every set of      *)
(* formats, whatever other devices add meanwhile.                          *)
(***************************************************************************)
EXTENDS ImportFlow, FiniteSetTheorems, WellFoundedInduction, TLAPS

-----------------------------------------------------------------------------
(***************************************************************************)
(* The upload.                                                             *)
(***************************************************************************)
\* An upload that has not begun has nothing anywhere.
LEMMA UploadInvInit == UploadInit => UploadInv
  BY UploadAssumption
  DEF UploadInit, UploadInv, UploadTypeOK, Over

\* Each step of uploadItems, of the server and of the network keeps UploadInv.
LEMMA UploadInvStep == UploadInv /\ [UploadNext]_uploadVars => UploadInv'
<1>. SUFFICES ASSUME UploadInv, [UploadNext]_uploadVars PROVE UploadInv'
  OBVIOUS
<1>. USE UploadAssumption
<1>1. CASE UNCHANGED uploadVars
  BY <1>1 DEF UploadInv, UploadTypeOK, uploadVars, Over, Reported, Promise!Truthful
<1>2. ASSUME NEW entries \in Seq(Nat), NEW keyHeld \in BOOLEAN, StartUpload(entries, keyHeld)
      PROVE  UploadInv'
  BY <1>2 DEF StartUpload, UploadInv, UploadTypeOK, Over
<1>3. CASE ReturnEarly
  BY <1>3 DEF ReturnEarly, UploadInv, UploadTypeOK, Over, Reported, Promise!Truthful
<1>4. CASE EncryptItem
  <2>1. items[NextItem] \in Nat
    BY <1>4 DEF EncryptItem, NextItem, UploadInv, UploadTypeOK
  <2>2. CASE ChunkIsFull(items[NextItem])
    BY <1>4, <2>2 DEF EncryptItem, ChunkIsFull, UploadInv, UploadTypeOK, Over
  <2>3. CASE ~ChunkIsFull(items[NextItem])
    <3>. DEFINE bytes == items[NextItem]
    <3>1. /\ chunk' = chunk + 1 /\ chunkBytes' = chunkBytes + bytes
          /\ chunk + uploaded + 1 <= Len(items)
          /\ UNCHANGED <<items, uploaded, landed, inDoubt, phase>> /\ phase = "encrypting"
          /\ bytes \in Nat
      BY <1>4, <2>1, <2>3 DEF EncryptItem, NextItem, UploadInv, UploadTypeOK
    <3>2. ~(chunk > 0 /\ (chunk >= MaxItemsPerRequest \/ chunkBytes + bytes > BodyBudget))
      BY <2>3 DEF ChunkIsFull
    <3>. HIDE DEF bytes
    <3>. QED
      BY <3>1, <3>2 DEF UploadInv, UploadTypeOK, Over
  <2>. QED
    BY <2>2, <2>3
<1>5. CASE SendLast
  BY <1>5 DEF SendLast, NextItem, UploadInv, UploadTypeOK, Over, Reported, Promise!Truthful
<1>6. CASE ServerStores
  BY <1>6 DEF ServerStores, UploadInv, UploadTypeOK, Over
<1>7. CASE Confirmed
  BY <1>7 DEF Confirmed, UploadInv, UploadTypeOK, Over
<1>8. CASE Refused
  BY <1>8 DEF Refused, UploadInv, UploadTypeOK, Over, Reported, Promise!Truthful
<1>9. CASE Malformed
  BY <1>9 DEF Malformed, UploadInv, UploadTypeOK, Over, Reported, Promise!Truthful
<1>10. CASE Lost
  BY <1>10 DEF Lost, UploadInv, UploadTypeOK, Over, Reported, Promise!Truthful
<1>. QED
  BY <1>1, <1>2, <1>3, <1>4, <1>5, <1>6, <1>7, <1>8, <1>9, <1>10 DEF UploadNext, UploadStep

\* Where every item is, at every step of an upload.
LEMMA UploadInvHolds == UploadSpec => []UploadInv
  BY UploadInvInit, UploadInvStep, PTL DEF UploadSpec

\* No chunk exceeds the row limit or, unless it is a single item, the budget of
\* the request body: the limits of uploadItems and the server's fit together.
THEOREM RequestsFit == UploadSpec => []ChunksFit
<1>1. UploadInv => ChunksFit
  BY UploadAssumption DEF UploadInv, UploadTypeOK, ChunksFit, Acceptable
<1>. QED
  BY <1>1, UploadInvHolds, PTL

\* Whatever the network loses, the report of uploadItems brackets what is in the
\* vault, a complete one means everything is, and one about an answer that could
\* not be read is short of the vault by one request at most.
THEOREM UploadKeepsItsPromise == UploadSpec => KeepsItsPromise
<1>1. UploadInit => Promise!Init
  BY DEF UploadInit, Promise!Init, Promise!Waiting, Reported, Over
<1>2. UploadInv /\ UploadInv' /\ [UploadNext]_uploadVars => [Promise!Next]_(Promise!vars)
  <2>. SUFFICES ASSUME UploadInv, UploadInv', [UploadNext]_uploadVars
                PROVE  [Promise!Next]_(Promise!vars)
    OBVIOUS
  <2>1. CASE UNCHANGED uploadVars
    BY <2>1 DEF uploadVars, Promise!vars, Reported
  <2>2. ASSUME NEW entries \in Seq(Nat), NEW keyHeld \in BOOLEAN,
               StartUpload(entries, keyHeld)
        PROVE  Promise!Begin
    BY <2>2 DEF StartUpload, Promise!Begin, Promise!Running, Reported, Over
  <2>3. CASE ReturnEarly
    <3>1. Promise!Finish
      BY <2>3 DEF ReturnEarly, Promise!Finish, Promise!Running, Promise!Truthful,
                  Reported, Over, UploadInv, UploadTypeOK
    <3>. QED  BY <3>1 DEF Promise!Next
  <2>4. CASE EncryptItem
    BY <2>4 DEF EncryptItem, Promise!vars, Reported, Over
  <2>5. CASE SendLast
    <3>1. CASE chunk > 0
      BY <2>5, <3>1 DEF SendLast, Promise!vars, Reported, Over
    <3>2. CASE ~(chunk > 0)
      <4>1. Promise!Finish
        BY <2>5, <3>2 DEF SendLast, NextItem, Promise!Finish, Promise!Running,
                          Promise!Truthful, Reported, Over, UploadInv, UploadTypeOK
      <4>. QED  BY <4>1 DEF Promise!Next
    <3>. QED  BY <3>1, <3>2
  <2>6. CASE ServerStores
    <3>1. Promise!Land
      BY <2>6 DEF ServerStores, Promise!Land, Promise!Running, Reported, Over,
                  UploadInv, UploadTypeOK
    <3>. QED  BY <3>1 DEF Promise!Next
  <2>7. CASE Confirmed
    BY <2>7 DEF Confirmed, Promise!vars, Reported, Over
  <2>8. CASE Refused
    <3>1. Promise!Finish
      BY <2>8 DEF Refused, Promise!Finish, Promise!Running, Promise!Truthful,
                  Reported, Over, UploadInv, UploadTypeOK
    <3>. QED  BY <3>1 DEF Promise!Next
  <2>9. CASE Malformed
    <3>1. Promise!Finish
      BY <2>9 DEF Malformed, Promise!Finish, Promise!Running, Promise!Truthful,
                  Reported, Over, UploadInv, UploadTypeOK
    <3>. QED  BY <3>1 DEF Promise!Next
  <2>10. CASE Lost
    <3>1. Promise!Finish
      BY <2>10 DEF Lost, Promise!Finish, Promise!Running, Promise!Truthful,
                  Reported, Over, UploadInv, UploadTypeOK
    <3>. QED  BY <3>1 DEF Promise!Next
  <2>. QED
    BY <2>1, <2>2, <2>3, <2>4, <2>5, <2>6, <2>7, <2>8, <2>9, <2>10
    DEF UploadNext, UploadStep, Promise!Next
<1>. QED
  BY <1>1, <1>2, UploadInvHolds, PTL DEF UploadSpec, KeepsItsPromise, Promise!Spec

-----------------------------------------------------------------------------
(***************************************************************************)
(* The rows that are kept.                                                 *)
(***************************************************************************)

\* A set of naturals with something in it has a least element: what the proofs
\* about the order of the rows rest on.
LEMMA LeastNatural ==
    ASSUME NEW T \in SUBSET Nat, T # {}
    PROVE  \E x \in T : \A y \in T : x <= y
<1>. DEFINE R == {ss \in Nat \X Nat : ss[1] < ss[2]}
<1>1. IsWellFoundedOn(R, Nat)
  BY NatLessThanWellFounded DEF OpToRel
<1>2. PICK x \in T : \A y \in T : ~(<<y, x>> \in R)
  <2>. HIDE DEF R
  <2>. QED  BY <1>1, WFMin
<1>3. ASSUME NEW y \in T PROVE x <= y
  <2>1. ~(<<y, x>> \in R) /\ x \in Nat /\ y \in Nat
    BY <1>2
  <2>. QED  BY <2>1
<1>. QED  BY <1>3

\* The rows up to any place, leaving some out, are finitely many.
LEMMA UpToFinite ==
    ASSUME NEW n \in Nat, NEW S \in SUBSET (1 .. n), NEW i
    PROVE  /\ IsFiniteSet({j \in S : j <= i}) /\ Cardinality({j \in S : j <= i}) \in Nat
           /\ IsFiniteSet(S) /\ Cardinality(S) \in Nat
<1>1. IsFiniteSet(1 .. n)
  BY FS_Interval
<1>2. {j \in S : j <= i} \subseteq 1 .. n /\ S \subseteq 1 .. n
  OBVIOUS
<1>3. IsFiniteSet({j \in S : j <= i}) /\ IsFiniteSet(S)
  BY <1>1, <1>2, FS_Subset
<1>. QED  BY <1>3, FS_CardinalityType

\* For every count up to the size of a set of row numbers there is the row at
\* which the count is reached: filter() has an n-th result for each n.
LEMMA NthExists ==
    ASSUME NEW n \in Nat, NEW S \in SUBSET (1 .. n), NEW k \in 1 .. Cardinality(S)
    PROVE  \E i \in S : Cardinality({j \in S : j <= i}) = k
<1>. DEFINE UpTo(i) == {j \in S : j <= i}
            Reached == {i \in Nat : k <= Cardinality(UpTo(i))}
<1>1. UpTo(n) = S /\ UpTo(0) = {}
  <2>1. \A j \in S : j \in Nat /\ j >= 1 /\ j <= n
    OBVIOUS
  <2>2. UpTo(n) = S
    BY <2>1
  <2>3. UpTo(0) = {}
    <3>1. \A j \in S : ~(j <= 0)
      BY <2>1
    <3>. QED  BY <3>1
  <2>. QED  BY <2>2, <2>3
<1>2. k \in Nat /\ k > 0 /\ k <= Cardinality(S)
  BY UpToFinite
<1>3. n \in Reached
  BY <1>1, <1>2
<1>4. PICK i \in Reached : \A m \in Reached : i <= m
  <2>. HIDE DEF Reached
  <2>1. Reached \in SUBSET Nat /\ Reached # {}
    BY <1>3 DEF Reached
  <2>. QED  BY <2>1, LeastNatural
<1>5. i \in Nat /\ k <= Cardinality(UpTo(i))
  BY <1>4
<1>6. i # 0
  <2>1. Cardinality({}) = 0
    BY FS_EmptySet
  <2>. QED  BY <1>1, <1>2, <1>5, <2>1
<1>7. Cardinality(UpTo(i - 1)) < k
  <2>1. i - 1 \in Nat /\ i - 1 \notin Reached
    <3>1. i - 1 \in Nat /\ ~(i <= i - 1)
      BY <1>5, <1>6
    <3>. HIDE DEF Reached
    <3>. QED  BY <1>4, <3>1
  <2>2. Cardinality(UpTo(i - 1)) \in Nat
    BY UpToFinite
  <2>. QED  BY <1>2, <2>1, <2>2
<1>8. i \in S
  <2>. SUFFICES ASSUME i \notin S PROVE FALSE
    OBVIOUS
  <2>1. UpTo(i) = UpTo(i - 1)
    <3>1. \A j \in S : j <= i <=> j <= i - 1
      BY <1>5, <1>6
    <3>. QED  BY <3>1
  <2>2. Cardinality(UpTo(i - 1)) \in Nat
    BY UpToFinite
  <2>. QED  BY <1>2, <1>5, <1>7, <2>1, <2>2
<1>9. Cardinality(UpTo(i)) = Cardinality(UpTo(i - 1)) + 1
  <2>1. UpTo(i) = UpTo(i - 1) \cup {i} /\ i \notin UpTo(i - 1)
    <3>1. /\ \A j \in S : j <= i <=> j <= i - 1 \/ j = i
          /\ ~(i <= i - 1)
      BY <1>5, <1>6
    <3>. QED  BY <1>8, <3>1
  <2>2. IsFiniteSet(UpTo(i - 1))
    BY UpToFinite
  <2>. QED
    <3>. HIDE DEF UpTo
    <3>. QED  BY <2>1, <2>2, FS_AddElement
<1>10. Cardinality(UpTo(i)) = k
  <2>1. Cardinality(UpTo(i - 1)) \in Nat
    BY UpToFinite
  <2>. QED  BY <1>2, <1>5, <1>7, <1>9, <2>1
<1>. QED  BY <1>8, <1>10

\* The rows of a reading that are kept are a list again, of as many rows as were
\* not left out, each with an entry of some length.
LEMMA KeptType ==
    ASSUME NEW contents, IsReading(contents), NEW without
    PROVE  LET kept == Kept(contents.rows, without)
               left == DOMAIN contents.rows \ without
           IN  /\ Cardinality(left) \in Nat
               /\ DOMAIN kept = 1 .. Cardinality(left)
               /\ \A k \in 1 .. Cardinality(left) : kept[k].bytes \in Nat
               /\ Len(kept) = Cardinality(left)
               /\ Len(contents.rows) \in Nat
<1>. DEFINE rows == contents.rows
            left == DOMAIN rows \ without
            nth(k) == CHOOSE i \in left : Cardinality({j \in left : j <= i}) = k
            kept == [k \in 1 .. Cardinality(left) |-> rows[nth(k)]]
            n == Len(rows)
<1>1. n \in Nat /\ DOMAIN rows = 1 .. n
  BY DEF IsReading
<1>2. left \in SUBSET (1 .. n)
  BY <1>1
<1>3. Cardinality(left) \in Nat
  <2>. HIDE DEF left, n
  <2>. QED  BY <1>1, <1>2, UpToFinite
<1>4. ASSUME NEW k \in 1 .. Cardinality(left)
      PROVE  nth(k) \in left
  <2>. HIDE DEF left, n
  <2>1. \E i \in left : Cardinality({j \in left : j <= i}) = k
    BY <1>1, <1>2, NthExists
  <2>. QED  BY <2>1
<1>5. ASSUME NEW k \in 1 .. Cardinality(left)
      PROVE  kept[k].bytes \in Nat
  <2>1. kept[k] = rows[nth(k)]
    OBVIOUS
  <2>2. nth(k) \in DOMAIN rows
    BY <1>4
  <2>. QED  BY <2>1, <2>2 DEF IsReading
<1>6. kept = Kept(rows, without)
  BY DEF Kept
<1>7. Len(kept) = Cardinality(left)
  <2>. HIDE DEF nth, left
  <2>. QED  BY <1>3
<1>. QED
  <2>. HIDE DEF kept, left, n
  <2>1. DOMAIN kept = 1 .. Cardinality(left)
    BY DEF kept
  <2>. QED  BY <1>1, <1>3, <1>5, <1>6, <1>7, <2>1 DEF left, n

\* The entries of the rows kept are what uploadItems takes.
LEMMA EntriesType ==
    ASSUME NEW contents, IsReading(contents), NEW without
    PROVE  LET kept == Kept(contents.rows, without)
           IN  Entries(kept) \in Seq(Nat) /\ Len(Entries(kept)) = Len(kept)
                /\ Len(kept) \in Nat
<1>. DEFINE kept == Kept(contents.rows, without)
            m == Cardinality(DOMAIN contents.rows \ without)
<1>1. /\ m \in Nat /\ DOMAIN kept = 1 .. m /\ Len(kept) = m
      /\ \A k \in 1 .. m : kept[k].bytes \in Nat
  BY KeptType
<1>. HIDE DEF kept, m
<1>2. Entries(kept) = [k \in 1 .. m |-> kept[k].bytes]
  BY <1>1 DEF Entries
<1>. QED  BY <1>1, <1>2 DEF kept

-----------------------------------------------------------------------------
(***************************************************************************)
(* The screen, whoever uses it.                                            *)
(***************************************************************************)

\* What the import screen does to an upload is a step of uploadItems.
LEMMA ScreenDrivesUpload == ScreenInv /\ [Next]_vars => [UploadNext]_uploadVars
<1>. SUFFICES ASSUME ScreenInv, [Next]_vars PROVE [UploadNext]_uploadVars
  OBVIOUS
<1>1. CASE ImportRead
  <2>1. import.file \in Files /\ import.format \in Formats
    BY <1>1 DEF ImportRead, ScreenInv
  <2>2. Entries(KeptOfImport) \in Seq(Nat)
    BY <2>1, FlowAssumption, EntriesType DEF KeptOfImport
  <2>. QED  BY <1>1, <2>2 DEF ImportRead, UploadNext
<1>2. CASE Upload
  BY <1>2 DEF Upload, UploadNext
<1>3. CASE ~ImportRead /\ ~Upload
  BY <1>3 DEF Next, Answer, vars, ChooseFile, InspectFile, StartOver, Reset, RunPreview,
              Back, AskToConfirm, RunImport, ChooseFormat, ChooseTarget, Toggle,
              ImportAnother, VaultGrows, Inspected, Previewed, ReadFails, ImportReadFails,
              Imported, uploadVars
<1>. QED  BY <1>1, <1>2, <1>3

\* Each handler of the screen, and each answer, leaves ScreenInv true.
LEMMA ScreenInvStep == ScreenInv /\ [Next]_vars => ScreenInv'
<1>. SUFFICES ASSUME ScreenInv, [Next]_vars PROVE ScreenInv'
  OBVIOUS
<1>0. UploadInv' /\ UploadTypeOK'
  BY ScreenDrivesUpload, UploadInvStep DEF ScreenInv, UploadInv
<1>. USE FlowAssumption, <1>0 DEF ScreenInv, TypeOK
<1>1. CASE UNCHANGED vars
  BY <1>1 DEF vars, flowVars
<1>2. ASSUME NEW f \in Files, ChooseFile(f) PROVE ScreenInv'
  BY <1>2 DEF ChooseFile, Touch
<1>3. CASE InspectFile
  BY <1>3 DEF InspectFile
<1>4. CASE StartOver \/ ImportAnother
  BY <1>4 DEF StartOver, ImportAnother, Reset, NoPreview, Touch
<1>5. CASE RunPreview
  <2>1. TypeOK' /\ touched' \in BOOLEAN
    BY <1>5 DEF RunPreview
  <2>2. reads' = reads \cup {[kind |-> "preview", file |-> file, format |-> format]}
        /\ file \in Files /\ format \in Formats /\ UNCHANGED import
    BY <1>5 DEF RunPreview
  <2>. QED  BY <2>1, <2>2
<1>6. CASE Back \/ AskToConfirm
  BY <1>6 DEF Back, AskToConfirm
<1>7. CASE RunImport
  BY <1>7 DEF RunImport
<1>8. ASSUME NEW fmt \in Formats, ChooseFormat(fmt) PROVE ScreenInv'
  BY <1>8 DEF ChooseFormat, Touch
<1>9. ASSUME NEW c \in Collections \cup {Personal}, ChooseTarget(c) PROVE ScreenInv'
  BY <1>9 DEF ChooseTarget
<1>10. ASSUME NEW group \in preview.groups, Toggle(group) PROVE ScreenInv'
  BY <1>10 DEF Toggle
<1>11. ASSUME NEW login \in Additions, VaultGrows(login) PROVE ScreenInv'
  BY <1>11 DEF VaultGrows
<1>12. ASSUME NEW read \in reads, Inspected(read) PROVE ScreenInv'
  BY <1>12 DEF Inspected
<1>13. ASSUME NEW read \in reads, Previewed(read) PROVE ScreenInv'
  <2>. DEFINE groups == FindDuplicates(Contents(read.file, read.format).rows, vault)
  <2>1. /\ preview'.groups = groups
        /\ skip' = {g.key : g \in {g \in groups : g.existing # {}}}
    BY <1>13 DEF Previewed
  <2>2. skip' \subseteq {g.key : g \in preview'.groups}
    <3>. HIDE DEF groups
    <3>. QED  BY <2>1
  <2>. QED  BY <1>13, <2>2 DEF Previewed
<1>14. ASSUME NEW read \in reads, ReadFails(read) PROVE ScreenInv'
  BY <1>14 DEF ReadFails
<1>15. CASE ImportRead
  BY <1>15 DEF ImportRead
<1>16. CASE ImportReadFails
  BY <1>16 DEF ImportReadFails, NoImport
<1>17. CASE Upload
  BY <1>17 DEF Upload, flowVars
<1>18. CASE Imported
  BY <1>18 DEF Imported, NoImport
<1>. QED
  BY <1>1, <1>2, <1>3, <1>4, <1>5, <1>6, <1>7, <1>8, <1>9, <1>10, <1>11, <1>12, <1>13,
     <1>14, <1>15, <1>16, <1>17, <1>18
  DEF Next, Answer

\* The screen as it is first shown.
LEMMA ScreenInvInit == Init => ScreenInv
<1>. SUFFICES ASSUME Init PROVE ScreenInv
  OBVIOUS
<1>1. UploadInv /\ UploadTypeOK
  BY UploadInvInit DEF Init, UploadInv
<1>. QED
  BY <1>1, FlowAssumption DEF Init, ScreenInv, TypeOK, NoPreview, NoImport

\* However hastily the screen is used, it reads only files under formats it has.
LEMMA ScreenInvHolds == Spec => []ScreenInv
  BY ScreenInvInit, ScreenInvStep, PTL DEF Spec

\* An import driven from the screen is an upload: it begins with one and every
\* click, answer and failure is a step of uploadItems or none.
THEOREM ScreenImplementsUpload == Spec => UploadSpec
<1>1. Init => UploadInit
  BY DEF Init
<1>. QED
  BY <1>1, ScreenDrivesUpload, ScreenInvHolds, PTL DEF Spec, UploadSpec

\* So no request the screen causes exceeds what the server takes,
THEOREM ScreenRequestsFit == Spec => []ChunksFit
  BY ScreenImplementsUpload, RequestsFit, PTL

\* and what the completion screen is told brackets what is in the vault, to one
\* request when an answer could not be read.
THEOREM ScreenKeepsItsPromise == Spec => KeepsItsPromise
  BY ScreenImplementsUpload, UploadKeepsItsPromise, PTL

\* Whoever is at the screen, it holds what its components expect, and only groups
\* of the preview that is shown are chosen to be skipped: a preview replaces both.
THEOREM ScreenStaysWellFormed == Spec => []TypeOK
<1>1. ScreenInv => TypeOK
  BY DEF ScreenInv
<1>. QED  BY <1>1, ScreenInvHolds, PTL

-----------------------------------------------------------------------------
(***************************************************************************)
(* What is previewed and what is imported.                                 *)
(***************************************************************************)

\* A row in a group of duplicates has a web address to be found by.
LEMMA GroupedRowsHaveKeys ==
    ASSUME NEW rows, NEW existing, NEW group \in FindDuplicates(rows, existing),
           NEW i \in group.rows
    PROVE  KeyOf(rows[i]) # None
<1>. DEFINE keys == {KeyOf(rows[j]) : j \in DOMAIN rows} \ {None}
            rowsOf(key) == {j \in DOMAIN rows : KeyOf(rows[j]) = key}
            heldOf(key) == {e \in existing : KeyOf(e) = key}
            chosen == {k \in keys : Cardinality(rowsOf(k)) > 1 \/ heldOf(k) # {}}
<1>1. FindDuplicates(rows, existing)
        = {[key |-> key, rows |-> rowsOf(key), existing |-> heldOf(key)] : key \in chosen}
  BY DEF FindDuplicates
<1>2. PICK key \in chosen : group.rows = rowsOf(key)
  <2>. HIDE DEF rowsOf, heldOf, chosen
  <2>. QED  BY <1>1
<1>3. key # None
  OBVIOUS
<1>. QED  BY <1>2, <1>3

\* A note, or a login without a web address, is not looked for among duplicates.
LEMMA UncheckedRowsHaveNoKey ==
    ASSUME NEW row, row.type = "note" \/ row.urls = <<>>
    PROVE  KeyOf(row) = None
  BY DEF KeyOf

\* Each handler and each answer leaves PreviewInv true, in whatever order.
LEMMA PreviewInvStep == PreviewInv /\ [Next]_vars => PreviewInv'
<1>. SUFFICES ASSUME PreviewInv, [Next]_vars PROVE PreviewInv'
  OBVIOUS
<1>0. ScreenInv /\ ScreenInv'
  BY ScreenInvStep DEF PreviewInv
<1>. USE <1>0 DEF PreviewInv
<1>1. CASE UNCHANGED vars
  BY <1>1 DEF vars, flowVars, uploadVars, OneAtATime, PreviewIsOfTheFile, ImportIsOfThePreview,
              ImportsWhatWasPreviewed, KeptOfImport, EveryRowAccountedFor, UncheckedRowsKept
<1>. DEFINE P == /\ PreviewIsOfTheFile' /\ ImportIsOfThePreview'
                 /\ EveryRowAccountedFor' /\ UncheckedRowsKept'
<1>2. ASSUME UNCHANGED <<import, items>>, step' # "done", step' # "preview",
             preview' = preview \/ preview' = NoPreview, import.stage = "none"
      PROVE  P
  BY <1>2 DEF PreviewIsOfTheFile, ImportIsOfThePreview, ImportsWhatWasPreviewed, KeptOfImport,
              EveryRowAccountedFor, UncheckedRowsKept, NoPreview
<1>3. ASSUME UNCHANGED <<step, file, format, preview, import, items, completed>>,
             UNCHANGED touched \/ (step = "map" /\ import.stage = "none")
      PROVE  P
  BY <1>3 DEF PreviewIsOfTheFile, ImportIsOfThePreview, ImportsWhatWasPreviewed, KeptOfImport,
              EveryRowAccountedFor, UncheckedRowsKept
<1>4. ASSUME NEW f \in Files, ChooseFile(f) PROVE PreviewInv'
  <2>1. P
    BY <1>2, <1>4 DEF ChooseFile, OneAtATime, uploadVars
  <2>2. OneAtATime'
    BY <1>4 DEF ChooseFile, Touch, PreviewUnderWay, OneAtATime, ScreenInv, TypeOK
  <2>. QED  BY <2>1, <2>2
<1>5. CASE InspectFile
  <2>1. P
    BY <1>3, <1>5 DEF InspectFile, uploadVars
  <2>2. OneAtATime'
    BY <1>5 DEF InspectFile, OneAtATime
  <2>. QED  BY <2>1, <2>2
<1>6. CASE StartOver \/ ImportAnother
  <2>1. P
    BY <1>2, <1>6 DEF StartOver, ImportAnother, Reset, OneAtATime, uploadVars
  <2>2. OneAtATime'
    BY <1>6 DEF StartOver, ImportAnother, Reset, Touch, PreviewUnderWay, OneAtATime, ScreenInv, TypeOK
  <2>. QED  BY <2>1, <2>2
<1>7. CASE RunPreview
  <2>1. P
    BY <1>3, <1>7 DEF RunPreview, OneAtATime, uploadVars
  <2>2. OneAtATime'
    BY <1>7 DEF RunPreview, OneAtATime
  <2>. QED  BY <2>1, <2>2
<1>8. CASE Back
  <2>1. P
    BY <1>2, <1>8 DEF Back, OneAtATime, uploadVars
  <2>2. OneAtATime'
    BY <1>8 DEF Back, OneAtATime
  <2>. QED  BY <2>1, <2>2
<1>9. CASE AskToConfirm
  <2>1. P
    BY <1>3, <1>9 DEF AskToConfirm, uploadVars
  <2>2. OneAtATime'
    BY <1>9 DEF AskToConfirm, OneAtATime
  <2>. QED  BY <2>1, <2>2
<1>10. CASE RunImport
  <2>1. /\ step' = "preview" /\ UNCHANGED <<file, format, preview, reads, completed, items, touched>>
        /\ confirming' = FALSE /\ busy' = TRUE /\ confirming /\ step = "preview"
        /\ import'.stage = "reading" /\ import'.file = file /\ import'.format = format
        /\ import'.skipRows = SkipRows /\ import'.promised = Kept(preview.rows, SkipRows)
        /\ import'.errors = preview.errors /\ import'.total = Len(preview.rows)
    BY <1>10 DEF RunImport, uploadVars
  <2>2. ~touched => /\ preview.rows = Contents(file, format).rows
                    /\ preview.errors = Contents(file, format).errors
    BY <2>1 DEF PreviewIsOfTheFile
  <2>3. OneAtATime'
    BY <2>1 DEF OneAtATime
  <2>4. PreviewIsOfTheFile'
    BY <2>1 DEF PreviewIsOfTheFile
  <2>5. ImportIsOfThePreview'
    BY <2>1, <2>2 DEF ImportIsOfThePreview, ImportsWhatWasPreviewed, KeptOfImport
  <2>6. EveryRowAccountedFor'
    BY <2>1 DEF EveryRowAccountedFor
  <2>7. UncheckedRowsKept'
    <3>1. \A i \in SkipRows : KeyOf(preview.rows[i]) # None
      BY DEF SkipRows, PreviewIsOfTheFile
    <3>2. \A i \in SkipRows : ~(preview.rows[i].type = "note" \/ preview.rows[i].urls = <<>>)
      BY <3>1, UncheckedRowsHaveNoKey
    <3>. QED  BY <2>1, <2>2, <3>2 DEF UncheckedRowsKept
  <2>. QED  BY <2>3, <2>4, <2>5, <2>6, <2>7
<1>11. ASSUME NEW fmt \in Formats, ChooseFormat(fmt) PROVE PreviewInv'
  <2>1. P
    BY <1>2, <1>11 DEF ChooseFormat, OneAtATime, uploadVars
  <2>2. OneAtATime'
    BY <1>11 DEF ChooseFormat, Touch, PreviewUnderWay, OneAtATime, ScreenInv, TypeOK
  <2>. QED  BY <2>1, <2>2
<1>12. ASSUME NEW c \in Collections \cup {Personal}, ChooseTarget(c) PROVE PreviewInv'
  <2>1. P
    BY <1>3, <1>12 DEF ChooseTarget, uploadVars
  <2>2. OneAtATime'
    BY <1>12 DEF ChooseTarget, OneAtATime
  <2>. QED  BY <2>1, <2>2
<1>13. ASSUME NEW group \in preview.groups, Toggle(group) PROVE PreviewInv'
  <2>1. P
    BY <1>3, <1>13 DEF Toggle, uploadVars
  <2>2. OneAtATime'
    BY <1>13 DEF Toggle, OneAtATime
  <2>. QED  BY <2>1, <2>2
<1>14. ASSUME NEW login \in Additions, VaultGrows(login) PROVE PreviewInv'
  <2>1. P
    BY <1>3, <1>14 DEF VaultGrows, uploadVars
  <2>2. OneAtATime'
    BY <1>14 DEF VaultGrows, OneAtATime
  <2>. QED  BY <2>1, <2>2
<1>15. ASSUME NEW read \in reads, Inspected(read) PROVE PreviewInv'
  <2>1. P
    BY <1>2, <1>15 DEF Inspected, OneAtATime, uploadVars
  <2>2. OneAtATime'
    BY <1>15 DEF Inspected, OneAtATime
  <2>. QED  BY <2>1, <2>2
<1>16. ASSUME NEW read \in reads, Previewed(read) PROVE PreviewInv'
  <2>. DEFINE contents == Contents(read.file, read.format)
  <2>1. /\ ~touched => read.file = file /\ read.format = format
        /\ import.stage = "none" /\ reads' = {} /\ busy' = FALSE
    BY <1>16 DEF Previewed, OneAtATime
  <2>2. /\ preview'.rows = contents.rows /\ preview'.errors = contents.errors
        /\ preview'.groups = FindDuplicates(contents.rows, vault)
        /\ step' = "preview" /\ UNCHANGED <<file, format, confirming, import, completed, items, touched>>
    BY <1>16 DEF Previewed, uploadVars
  <2>. HIDE DEF contents
  <2>3. OneAtATime'
    BY <2>1, <2>2 DEF OneAtATime
  <2>4. PreviewIsOfTheFile'
    BY <2>1, <2>2, GroupedRowsHaveKeys DEF PreviewIsOfTheFile, contents
  <2>5. ImportIsOfThePreview' /\ EveryRowAccountedFor' /\ UncheckedRowsKept'
    BY <2>1, <2>2 DEF ImportIsOfThePreview, ImportsWhatWasPreviewed, EveryRowAccountedFor,
                      UncheckedRowsKept
  <2>. QED  BY <2>3, <2>4, <2>5
<1>17. ASSUME NEW read \in reads, ReadFails(read) PROVE PreviewInv'
  <2>1. P
    BY <1>3, <1>17 DEF ReadFails, uploadVars
  <2>2. OneAtATime'
    BY <1>17 DEF ReadFails, OneAtATime
  <2>. QED  BY <2>1, <2>2
<1>18. CASE ImportRead
  <2>1. /\ import.stage = "reading" /\ import'.stage = "uploading"
        /\ items' = Entries(KeptOfImport)
        /\ import' = [import EXCEPT !.stage = "uploading"]
        /\ UNCHANGED <<step, file, format, preview, confirming, busy, reads, completed, touched>>
    BY <1>18 DEF ImportRead, StartUpload, ScreenInv, TypeOK
  <2>2. /\ import'.file = import.file /\ import'.format = import.format
        /\ import'.skipRows = import.skipRows /\ import'.promised = import.promised
        /\ import'.errors = import.errors /\ import'.total = import.total
    BY <2>1 DEF ScreenInv
  <2>3. OneAtATime' /\ PreviewIsOfTheFile' /\ EveryRowAccountedFor'
    BY <2>1 DEF OneAtATime, PreviewIsOfTheFile, EveryRowAccountedFor
  <2>4. ImportIsOfThePreview'
    BY <2>1, <2>2 DEF ImportIsOfThePreview, ImportsWhatWasPreviewed, KeptOfImport
  <2>5. UncheckedRowsKept'
    BY <2>1, <2>2 DEF UncheckedRowsKept
  <2>. QED  BY <2>3, <2>4, <2>5
<1>19. CASE ImportReadFails
  BY <1>19 DEF ImportReadFails, NoImport, uploadVars, OneAtATime, PreviewIsOfTheFile,
               ImportIsOfThePreview, ImportsWhatWasPreviewed, EveryRowAccountedFor,
               UncheckedRowsKept
<1>20. CASE Upload
  <2>1. UNCHANGED <<flowVars, items>>
    BY <1>20 DEF Upload, UploadStep, ReturnEarly, EncryptItem, SendLast, ServerStores,
                 Confirmed, Refused, Malformed, Lost
  <2>2. P
    BY <1>3, <2>1 DEF flowVars
  <2>3. OneAtATime'
    BY <2>1 DEF flowVars, OneAtATime
  <2>. QED  BY <2>2, <2>3
<1>21. CASE Imported
  <2>. DEFINE contents == Contents(import.file, import.format)
  <2>1. /\ import.stage = "uploading" /\ import' = NoImport
        /\ step' = "done" /\ busy' = FALSE /\ UNCHANGED <<preview, confirming, reads, touched>>
        /\ completed'.total = Len(items) /\ completed'.errors = import.errors
        /\ completed'.skipped = import.total - Len(import.promised)
        /\ completed'.of = contents
    BY <1>21 DEF Imported
  <2>2. IsReading(contents)
    BY <2>1, FlowAssumption DEF ScreenInv
  <2>3. /\ ~touched => import.total = Len(contents.rows) /\ import.errors = contents.errors
        /\ ~touched => Len(items) = Len(import.promised) /\ Len(import.promised) \in Nat
    BY <2>1, <2>2, EntriesType
    DEF ImportIsOfThePreview, ImportsWhatWasPreviewed, KeptOfImport
  <2>4. Len(contents.rows) \in Nat /\ contents.errors \in Nat
    BY <2>2, KeptType DEF IsReading
  <2>. HIDE DEF contents
  <2>5. EveryRowAccountedFor'
    BY <2>1, <2>3, <2>4 DEF EveryRowAccountedFor
  <2>6. OneAtATime' /\ PreviewIsOfTheFile' /\ ImportIsOfThePreview' /\ UncheckedRowsKept'
    BY <2>1 DEF OneAtATime, PreviewIsOfTheFile, ImportIsOfThePreview, UncheckedRowsKept,
                ImportsWhatWasPreviewed, NoImport
  <2>. QED  BY <2>5, <2>6
<1>. QED
  BY <1>1, <1>4, <1>5, <1>6, <1>7, <1>8, <1>9, <1>10, <1>11, <1>12, <1>13, <1>14, <1>15,
     <1>16, <1>17, <1>18, <1>19, <1>20, <1>21
  DEF Next, Answer

\* The whole invariant of the screen.
LEMMA PreviewInvHolds == Spec => []PreviewInv
<1>1. Init => PreviewInv
  BY ScreenInvInit
  DEF Init, PreviewInv, OneAtATime, PreviewIsOfTheFile, ImportIsOfThePreview, NoPreview,
      NoImport, ImportsWhatWasPreviewed, EveryRowAccountedFor, UncheckedRowsKept
<1>. QED  BY <1>1, PreviewInvStep, PTL DEF Spec

\* What is uploaded is what the preview listed and the user confirmed, although
\* runImport parses the file a second time: unless the file or the format was
\* changed while that preview was being read.
THEOREM UploadsWhatWasPreviewed == Spec => []ImportsWhatWasPreviewed
<1>1. PreviewInv => ImportsWhatWasPreviewed
  BY DEF PreviewInv, ImportIsOfThePreview
<1>. QED  BY <1>1, PreviewInvHolds, PTL

\* Every row of the file is imported, skipped by choice or reported when the
\* import is over, and a row that is not checked for duplicates is never skipped.
THEOREM ScreenAccountsForEveryRow == Spec => []FlowInv
<1>1. PreviewInv => FlowInv
  BY DEF PreviewInv, ScreenInv, FlowInv
<1>. QED  BY <1>1, PreviewInvHolds, PTL
=============================================================================
