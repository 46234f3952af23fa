-------------------------- MODULE ItemEditingProofs --------------------------
(***************************************************************************)
(* Proofs about the Vault tab, for any items, folders, collections and     *)
(* bounds, and for a user who never waits for an answer: what is sent for  *)
(* an item was typed in its editor, no readable version is replaced that   *)
(* the user was not shown, what was typed is lost only in the ways that    *)
(* are listed, and each item is under one folder.                          *)
(***************************************************************************)
EXTENDS ItemEditing, FiniteSetTheorems, TLAPS

\* What the editor, its form and a call are made of.
Ids == Items \cup {NewItem, NoItem}
Edits == [id : Ids, rev : Nat, text : Texts]
Forms == [item : Ids, text : Texts, busy : BOOLEAN, dirty : BOOLEAN]
Places == [coll : Collections \cup {Personal}, folder : Folders \cup {NoFolder}]
Calls == [n : Nat, op : {"save", "delete"} \cup FolderOps, id : Ids, from : Edits, text : Texts,
          coll : Collections \cup {Personal}, folder : Folders \cup {NoFolder},
          at : {"sent", "done", "conflict"}, row : Rows, mine : BOOLEAN, waits : BOOLEAN,
          typed : BOOLEAN, displaced : BOOLEAN]

\* The invariant, by the part of the state it is about.  A text is of the item it
\* is stored or edited under; a form is of what is edited, unless displaced.
RowsInv ==
    /\ item \in [Items -> Rows] /\ known \in [Items -> Rows]
    /\ folder \in [Folders -> {"unused", "live", "deleted"}] /\ folders \subseteq Folders
    /\ \A i \in Items : /\ item[i].rev > 0 => item[i].text.in = i
                        /\ known[i].rev > 0 => known[i].text.in = i
ScreenInv ==
    /\ tab \in BOOLEAN /\ notice \in BOOLEAN /\ displaced \in BOOLEAN
    /\ editing \in Edits /\ conflict \in Texts /\ picked \in Places
    /\ IF editing.id = NoItem THEN editing = NotEditing ELSE editing.text.in = editing.id
    /\ form \in Forms
    /\ IF tab /\ ~notice /\ editing # NotEditing
       THEN /\ form.item # NoItem /\ form.text.in = form.item
            /\ displaced \/ form.item = editing.id
       ELSE form = NoForm
CountInv == ops \in Nat /\ texts \in 0 .. MaxTexts /\ updates \in 0 .. MaxUpdates
CallInv(call) ==
    /\ call \in Calls
    /\ call.op \in {"save", "delete"} =>
          /\ call.from.id # NoItem /\ call.from.text.in = call.from.id
          /\ call.op = "delete" \/ call.at # "sent" => call.id \in Items
          /\ call.op = "save" /\ call.at = "done" => call.row.text.in = call.id
          /\ call.at # "done" => call.id = call.from.id
    /\ call.op = "save" /\ ~call.displaced => call.text.in = call.from.id
    /\ call.at = "conflict" => call.op = "save"
CallsInv == \A call \in calls : CallInv(call)
\* A call whose form is still there was made with the text the form holds, unless
\* the user has typed on.
OwnInv == \A call \in calls : call.mine => form # NoForm /\ (call.typed \/ call.text = form.text)
VaultTabInv == RowsInv /\ ScreenInv /\ CountInv /\ CallsInv /\ OwnInv

\* What the tab holds when nothing is open.
LEMMA Blanks ==
    /\ NoText \in Texts /\ NoText.in = NoItem
    /\ Absent \in Rows /\ Absent.rev = 0 /\ Tombstone \in Rows /\ Tombstone.rev = 0
    /\ NotEditing \in Edits /\ NotEditing.id = NoItem
    /\ Blank \in Edits /\ Blank.id = NewItem /\ Blank.text.in = NewItem
    /\ NoForm \in Forms /\ NoForm.item = NoItem /\ ~NoForm.dirty /\ ~NoForm.busy
    /\ NoForm.text = NoText /\ Unpicked \in Places
<1>1. 0 \in 0 .. MaxTexts + MaxUpdates + 1 /\ 1 \in 0 .. MaxTexts + MaxUpdates + 1
  BY EditingAssumption
<1>2. NoText \in Texts /\ NoText.in = NoItem
  BY <1>1 DEF NoText, Texts
<1>3. Absent \in Rows /\ Absent.rev = 0
  BY <1>2 DEF Absent, Rows
<1>4. Tombstone \in Rows /\ Tombstone.rev = 0
  <2>1. [in |-> NoItem, v |-> 1] \in Texts
    BY <1>1 DEF Texts
  <2>. QED  BY <1>3, <2>1 DEF Tombstone, Absent, Rows
<1>5. NotEditing \in Edits /\ NotEditing.id = NoItem
  BY <1>2 DEF NotEditing, Edits, Ids
<1>6. Blank \in Edits /\ Blank.id = NewItem /\ Blank.text.in = NewItem
  <2>1. [in |-> NewItem, v |-> 0] \in Texts
    BY <1>1 DEF Texts
  <2>. QED  BY <2>1 DEF Blank, Edits, Ids
<1>7. /\ NoForm \in Forms /\ NoForm.item = NoItem /\ ~NoForm.dirty /\ ~NoForm.busy
      /\ NoForm.text = NoText /\ Unpicked \in Places
  BY <1>2 DEF NoForm, Forms, Ids, Unpicked, Places
<1>. QED  BY <1>2, <1>3, <1>4, <1>5, <1>6, <1>7

\* A new form of what is edited.
LEMMA MountFacts ==
    ASSUME NEW e \in Edits, e.id # NoItem
    PROVE  /\ Mount(e) \in Forms /\ Mount(e).item = e.id /\ Mount(e).text = e.text
           /\ Mount(e) # NoForm /\ e # NotEditing
  BY Blanks DEF Mount, Edits, Forms

\* A form is mounted exactly when something is edited on the tab that is shown.
LEMMA FormIsShown ==
    ASSUME ScreenInv
    PROVE  form # NoForm <=> tab /\ ~notice /\ editing # NotEditing
  BY Blanks DEF ScreenInv

\* Calls that stay as they are, of a form that keeps its text.
LEMMA CallsKept ==
    ASSUME CallsInv, OwnInv, calls' \subseteq calls,
           form # NoForm => form' # NoForm /\ form'.text = form.text
    PROVE  CallsInv' /\ OwnInv'
<1>1. CallsInv'
  BY DEF CallsInv, CallInv
<1>2. OwnInv'
  BY DEF OwnInv
<1>. QED  BY <1>1, <1>2

\* A form that is unmounted leaves its calls to themselves.
LEMMA CallsUnmounted ==
    ASSUME CallsInv, NEW C, \A c \in C : CallInv(c), calls' = Unmounted(C)
    PROVE  CallsInv' /\ OwnInv'
<1>1. ASSUME NEW call \in calls' PROVE CallInv(call)' /\ ~call.mine
  <2>1. PICK c \in C : call = [c EXCEPT !.mine = FALSE, !.typed = FALSE]
    BY DEF Unmounted
  <2>2. CallInv(c) /\ c \in Calls
    BY DEF CallInv
  <2>3. /\ call \in Calls /\ call.op = c.op /\ call.id = c.id /\ call.from = c.from
        /\ call.text = c.text /\ call.at = c.at /\ call.row = c.row
        /\ call.displaced = c.displaced /\ ~call.mine
    BY <2>1, <2>2 DEF Calls
  <2>. QED  BY <2>2, <2>3 DEF CallInv
<1>. QED  BY <1>1 DEF CallsInv, OwnInv

\* One call more, or one in the place of another.
LEMMA OneMore ==
    ASSUME CallsInv, OwnInv, NEW new, CallInv(new), calls' \subseteq calls \cup {new},
           form # NoForm => form' # NoForm /\ form'.text = form.text,
           new.mine => form' # NoForm /\ (new.typed \/ new.text = form'.text)
    PROVE  CallsInv' /\ OwnInv'
<1>1. CallsInv'
  BY DEF CallsInv, CallInv
<1>2. OwnInv'
  BY DEF OwnInv
<1>. QED  BY <1>1, <1>2

\* The rows that one write makes.
LEMMA RowStored ==
    ASSUME RowsInv, NEW i \in Items, NEW row \in Rows, row.rev > 0 => row.text.in = i,
           \/ item' = [item EXCEPT ![i] = row] /\ UNCHANGED known
           \/ known' = [known EXCEPT ![i] = row] /\ UNCHANGED item,
           UNCHANGED <<folder, folders>>
    PROVE  RowsInv'
<1>1. item' \in [Items -> Rows] /\ known' \in [Items -> Rows]
  BY DEF RowsInv
<1>2. \A j \in Items : /\ item'[j].rev > 0 => item'[j].text.in = j
                       /\ known'[j].rev > 0 => known'[j].text.in = j
  BY DEF RowsInv
<1>. QED  BY <1>1, <1>2 DEF RowsInv

\* What a save stores is a row of the item it is stored under.
LEMMA RowFacts ==
    ASSUME NEW call \in Calls, NEW i \in Items, NEW rev \in Nat
    PROVE  /\ Row(call, i, rev) \in Rows /\ Row(call, i, rev).text.in = i
           /\ Row(call, i, rev).rev = rev /\ Row(call, i, rev).read
<1>. DEFINE text == [call.text EXCEPT !.in = i]
<1>1. text \in Texts /\ text.in = i
  BY DEF Calls, Texts
<1>2. call.coll \in Collections \cup {Personal} /\ call.folder \in Folders \cup {NoFolder}
  BY DEF Calls
<1>. HIDE DEF text
<1>3. Row(call, i, rev) = [rev |-> rev, text |-> text, coll |-> call.coll, folder |-> call.folder,
                           read |-> TRUE]
  BY DEF Row, text
<1>. QED  BY <1>1, <1>2, <1>3 DEF Rows

\* A row with another text, at its next revision.
LEMMA RowRewritten ==
    ASSUME NEW r \in Rows, NEW t \in Texts, NEW b \in BOOLEAN
    PROVE  /\ [r EXCEPT !.rev = @ + 1, !.read = b, !.text = t] \in Rows
           /\ [r EXCEPT !.rev = @ + 1, !.read = b, !.text = t].text = t
           /\ [r EXCEPT !.rev = @ + 1, !.read = b, !.text = t].rev = r.rev + 1
<1>1. r.rev \in Nat /\ r.rev + 1 \in Nat
  BY DEF Rows
<1>2. ASSUME NEW n \in Nat
      PROVE  /\ [r EXCEPT !.rev = n, !.read = b, !.text = t] \in Rows
             /\ [r EXCEPT !.rev = n, !.read = b, !.text = t].text = t
             /\ [r EXCEPT !.rev = n, !.read = b, !.text = t].rev = n
  BY DEF Rows
<1>. QED  BY <1>1, <1>2

\* A call is made of what the screen holds.
LEMMA NewCall ==
    ASSUME RowsInv, ScreenInv, CountInv, NEW op \in {"save", "delete"}, NEW i \in Ids
    PROVE  /\ Call(op, i) \in Calls /\ Call(op, i).op = op /\ Call(op, i).id = i
           /\ Call(op, i).from = editing /\ Call(op, i).text = form.text
           /\ Call(op, i).at = "sent" /\ Call(op, i).displaced = displaced
<1>1. ops + 1 \in Nat /\ form.text \in Texts /\ editing \in Edits /\ Absent \in Rows
      /\ displaced \in BOOLEAN
  BY Blanks DEF CountInv, ScreenInv, Forms
<1>2. /\ picked.coll \in Collections \cup {Personal}
      /\ FolderToSave \in Folders \cup {NoFolder}
  BY DEF ScreenInv, RowsInv, FolderToSave, Places
<1>. QED  BY <1>1, <1>2 DEF Call, Calls

-----------------------------------------------------------------------------
(***************************************************************************)
(* The list, the editor, and another device.                               *)
(***************************************************************************)

\* The other device writes; the user opens, types in, files and leaves items.
LEMMA EditorSteps ==
    ASSUME VaultTabInv,
           \/ \E i \in Items :
                 \/ SelectItem(i) \/ SelectUnreadable(i)
                 \/ \E b \in BOOLEAN : OtherDeviceUpdates(i, b)
           \/ Resync \/ Back \/ AddItem \/ Type \/ Cancel \/ SwitchTab
           \/ \E c \in Collections \cup {Personal}, f \in Folders \cup {NoFolder} :
                  Pick([coll |-> c, folder |-> f])
    PROVE  VaultTabInv'
<1>0. RowsInv /\ ScreenInv /\ CountInv /\ CallsInv /\ OwnInv
  BY DEF VaultTabInv
<1>1. ASSUME calls' = calls, form' = form PROVE CallsInv' /\ OwnInv'
  BY <1>0, <1>1, CallsKept
<1>2. ASSUME NEW i \in Items, NEW b \in BOOLEAN, OtherDeviceUpdates(i, b) PROVE VaultTabInv'
  <2>0. updates' = updates + 1 /\ updates < MaxUpdates /\ UNCHANGED <<ops, texts>>
    BY <1>2 DEF OtherDeviceUpdates
  <2>9. /\ updates \in Nat /\ MaxTexts \in Nat /\ MaxUpdates \in Nat
        /\ updates + 1 \in 0 .. MaxUpdates
    BY <1>0, <2>0, EditingAssumption DEF CountInv
  <2>1. /\ item' = [item EXCEPT ![i].rev = @ + 1, ![i].read = b,
                                ![i].text = [in |-> i, v |-> MaxTexts + updates + 1]]
        /\ UNCHANGED <<folder, calls, known, folders, tab, notice, editing, conflict,
                       picked, form, displaced>>
    BY <1>2 DEF OtherDeviceUpdates, screenVars, history
  <2>2. PICK text \in Texts : text = [in |-> i, v |-> MaxTexts + updates + 1]
    <3>1. MaxTexts + updates + 1 \in 0 .. MaxTexts + MaxUpdates + 1
      BY <2>9
    <3>2. [in |-> i, v |-> MaxTexts + updates + 1] \in Texts
      BY <3>1 DEF Texts
    <3>. QED  BY <3>2
  <2>3. PICK new : new = [item[i] EXCEPT !.rev = @ + 1, !.read = b, !.text = text]
    OBVIOUS
  <2>4. item[i] \in Rows
    BY <1>0 DEF RowsInv
  <2>5. new \in Rows /\ new.text.in = i
    <3>1. new \in Rows /\ new.text = text
      BY <2>3, <2>4, RowRewritten
    <3>. QED  BY <2>2, <3>1
  <2>6. item' = [item EXCEPT ![i] = new]
    BY <1>0, <2>1, <2>2, <2>3, <2>4 DEF RowsInv, Rows
  <2>7. RowsInv'
    BY <1>0, <2>1, <2>5, <2>6, RowStored
  <2>8. CountInv' /\ ScreenInv'
    BY <1>0, <2>0, <2>1, <2>9 DEF CountInv, ScreenInv
  <2>. QED  BY <1>1, <2>1, <2>7, <2>8 DEF VaultTabInv
<1>3. CASE Resync
  <2>1. /\ known' = item /\ folders' \subseteq Folders
        /\ UNCHANGED <<item, folder, calls, ops, texts, updates, tab, notice, editing, conflict,
                       picked, form, displaced>>
    BY <1>3 DEF Resync, Synced, serverVars, screenVars, history
  <2>2. RowsInv' /\ CountInv' /\ ScreenInv'
    BY <1>0, <2>1 DEF RowsInv, CountInv, ScreenInv
  <2>. QED  BY <1>1, <2>1, <2>2 DEF VaultTabInv
<1>4. ASSUME NEW e \in Edits, e.id # NoItem, e.text.in = e.id, NEW p \in Places,
             Open(e, p), UNCHANGED <<item, folder, calls, ops, texts, updates, tab, notice, known, folders>>
      PROVE  VaultTabInv'
  <2>1. RowsInv' /\ CountInv'
    BY <1>0, <1>4 DEF RowsInv, CountInv
  <2>2. /\ Mount(e) \in Forms /\ Mount(e).item = e.id /\ Mount(e).text = e.text
        /\ e # NotEditing /\ Mount(e) # NoForm
    BY <1>4, MountFacts
  <2>3. ScreenInv'
    BY <1>0, <1>4, <2>2, Blanks DEF Open, ListShown, ScreenInv
  <2>4. form = NoForm
    BY <1>0, <1>4, FormIsShown DEF Open, ListShown
  <2>5. CallsInv' /\ OwnInv'
    BY <1>0, <1>4, <2>4, CallsKept
  <2>. QED  BY <2>1, <2>3, <2>5 DEF VaultTabInv
<1>5. ASSUME NEW i \in Items, SelectItem(i) PROVE VaultTabInv'
  <2>1. PICK e, p :
           /\ e = [id |-> i, rev |-> known[i].rev, text |-> known[i].text]
           /\ p = [coll |-> known[i].coll, folder |-> known[i].folder]
           /\ Open(e, p)
           /\ UNCHANGED <<item, folder, calls, ops, texts, updates, tab, notice, known, folders>>
    BY <1>5 DEF SelectItem, serverVars
  <2>2. known[i] \in Rows /\ i # NoItem /\ known[i].text.in = i
    BY <1>0, <1>5, EditingAssumption DEF RowsInv, SelectItem, FilterByFolder
  <2>3. e \in Edits /\ e.id # NoItem /\ e.text.in = e.id
    BY <2>1, <2>2 DEF Edits, Ids, Rows
  <2>4. p \in Places
    BY <2>1, <2>2 DEF Rows, Places
  <2>. QED  BY <1>4, <2>1, <2>3, <2>4
<1>6. CASE AddItem
  <2>1. /\ Open(Blank, Unpicked)
        /\ UNCHANGED <<item, folder, calls, ops, texts, updates, tab, notice, known, folders>>
    BY <1>6 DEF AddItem, serverVars
  <2>. QED  BY <1>4, <2>1, Blanks, EditingAssumption
<1>7. CASE Type
  <2>1. /\ form # NoForm /\ texts' = texts + 1 /\ texts + 1 \in 0 .. MaxTexts
        /\ form' = [form EXCEPT !.text = [in |-> form.item, v |-> texts + 1], !.dirty = TRUE]
        /\ calls' = {[c EXCEPT !.typed = c.mine] : c \in calls}
        /\ UNCHANGED <<item, folder, ops, updates, known, folders, tab, notice, editing, conflict,
                       picked, displaced>>
    BY <1>0, <1>7, EditingAssumption DEF Type, CountInv, serverVars, history
  <2>2. [in |-> form.item, v |-> texts + 1] \in Texts
    <3>1. texts + 1 \in 0 .. MaxTexts + MaxUpdates + 1
      BY <2>1, EditingAssumption
    <3>. QED  BY <1>0, <3>1 DEF Texts, ScreenInv, Forms, Ids
  <2>3. form' \in Forms /\ form'.item = form.item /\ form'.text.in = form.item
    BY <1>0, <2>1, <2>2 DEF ScreenInv, Forms
  <2>4. ScreenInv'
    BY <1>0, <2>1, <2>3 DEF ScreenInv
  <2>5. RowsInv' /\ CountInv'
    BY <1>0, <2>1 DEF RowsInv, CountInv
  <2>6. form' # NoForm
    BY <1>0, <2>1, <2>3, Blanks DEF ScreenInv
  <2>7. ASSUME NEW call \in calls' PROVE CallInv(call)' /\ (call.mine => call.typed)
    <3>1. PICK c \in calls : call = [c EXCEPT !.typed = c.mine]
      BY <2>1
    <3>2. CallInv(c) /\ c \in Calls
      BY <1>0 DEF CallsInv, CallInv
    <3>3. /\ call \in Calls /\ call.op = c.op /\ call.id = c.id /\ call.from = c.from
          /\ call.text = c.text /\ call.at = c.at /\ call.row = c.row
          /\ call.displaced = c.displaced /\ call.typed = call.mine
      BY <3>1, <3>2 DEF Calls
    <3>. QED  BY <3>2, <3>3 DEF CallInv
  <2>. QED  BY <2>4, <2>5, <2>6, <2>7 DEF VaultTabInv, CallsInv, OwnInv
<1>8. ASSUME NEW c \in Collections \cup {Personal}, NEW f \in Folders \cup {NoFolder},
             Pick([coll |-> c, folder |-> f])
      PROVE  VaultTabInv'
  <2>1. /\ picked' = [coll |-> c, folder |-> f]
        /\ UNCHANGED <<item, folder, calls, ops, texts, updates, known, folders, tab, notice, editing,
                       conflict, form, displaced>>
    BY <1>8 DEF Pick, serverVars, history
  <2>2. RowsInv' /\ CountInv' /\ ScreenInv'
    BY <1>0, <2>1 DEF RowsInv, CountInv, ScreenInv, Places
  <2>. QED  BY <1>1, <2>1, <2>2 DEF VaultTabInv
<1>9. CASE Cancel
  <2>1. /\ calls' = Unmounted(calls) /\ editing' = NotEditing /\ conflict' = NoText /\ form' = NoForm
        /\ displaced' = FALSE
        /\ UNCHANGED <<item, folder, ops, texts, updates, tab, notice, known, folders, picked>>
    BY <1>9 DEF Cancel, Close, serverVars
  <2>2. RowsInv' /\ CountInv' /\ ScreenInv'
    BY <1>0, <2>1, Blanks DEF RowsInv, CountInv, ScreenInv
  <2>. QED  BY <1>0, <2>1, <2>2, CallsUnmounted DEF VaultTabInv, CallsInv
<1>10. editing # NotEditing => /\ Mount(editing) \in Forms /\ Mount(editing).item = editing.id
                               /\ Mount(editing).text.in = editing.id /\ editing.id # NoItem
  BY <1>0, MountFacts DEF ScreenInv
<1>11. CASE SwitchTab
  <2>1. /\ calls' = Unmounted(calls) /\ tab' = ~tab /\ displaced' = FALSE
        /\ form' = (IF tab \/ notice \/ editing = NotEditing THEN NoForm ELSE Mount(editing))
        /\ UNCHANGED <<item, folder, ops, texts, updates, notice, known, folders, editing, conflict,
                       picked>>
    BY <1>11 DEF SwitchTab, serverVars
  <2>2. RowsInv' /\ CountInv' /\ ScreenInv'
    BY <1>0, <1>10, <2>1, Blanks DEF RowsInv, CountInv, ScreenInv
  <2>. QED  BY <1>0, <2>1, <2>2, CallsUnmounted DEF VaultTabInv, CallsInv
<1>12. ASSUME NEW i \in Items, SelectUnreadable(i) PROVE VaultTabInv'
  <2>1. /\ tab /\ ~notice /\ editing = NotEditing /\ notice' = TRUE
        /\ UNCHANGED <<item, folder, calls, ops, texts, updates, tab, known, folders, editing,
                       conflict, picked, form, displaced>>
    BY <1>12 DEF SelectUnreadable, ListShown, serverVars, history
  <2>2. RowsInv' /\ CountInv' /\ ScreenInv'
    BY <1>0, <2>1 DEF RowsInv, CountInv, ScreenInv
  <2>. QED  BY <1>1, <2>1, <2>2 DEF VaultTabInv
<1>13. CASE Back
  <2>1. /\ tab /\ notice /\ notice' = FALSE
        /\ form' = (IF editing = NotEditing THEN NoForm ELSE Mount(editing))
        /\ UNCHANGED <<item, folder, calls, ops, texts, updates, tab, known, folders, editing,
                       conflict, picked, displaced>>
    BY <1>13 DEF Back, serverVars, history
  <2>2. form = NoForm
    BY <1>0, <2>1, FormIsShown
  <2>3. RowsInv' /\ CountInv' /\ ScreenInv'
    BY <1>0, <1>10, <2>1, Blanks DEF RowsInv, CountInv, ScreenInv
  <2>4. CallsInv' /\ OwnInv'
    BY <1>0, <2>1, <2>2, CallsKept
  <2>. QED  BY <2>3, <2>4 DEF VaultTabInv
<1>. QED  BY <1>2, <1>3, <1>5, <1>6, <1>7, <1>8, <1>9, <1>11, <1>12, <1>13

-----------------------------------------------------------------------------
(***************************************************************************)
(* Calls: made, served, answered, lost.                                    *)
(***************************************************************************)

\* The user saves, deletes, or acts on a folder.
LEMMA AskSteps ==
    ASSUME VaultTabInv,
           Save \/ Delete \/ \E f \in Folders, op \in FolderOps : FolderOp(op, f)
    PROVE  VaultTabInv'
<1>0. RowsInv /\ ScreenInv /\ CountInv /\ CallsInv /\ OwnInv
  BY DEF VaultTabInv
<1>1. ASSUME NEW new, CallInv(new), calls' = calls \cup {new}, ops' = ops + 1,
             new.mine => form # NoForm /\ new.text = form.text,
             form' = form \/ (form # NoForm /\ form' = [form EXCEPT !.busy = TRUE]),
             UNCHANGED <<item, folder, texts, updates, known, folders, tab, notice, editing, conflict,
                         picked, displaced>>
      PROVE  VaultTabInv'
  <2>1. form' \in Forms /\ form'.item = form.item /\ form'.text = form.text
        /\ (form = NoForm => form' = NoForm)
    BY <1>0, <1>1 DEF ScreenInv, Forms
  <2>2. form # NoForm => form' # NoForm
    <3>1. form # NoForm => form.item # NoItem
      BY <1>0 DEF ScreenInv
    <3>. QED  BY <2>1, <3>1, Blanks
  <2>3. RowsInv' /\ CountInv'
    BY <1>0, <1>1 DEF RowsInv, CountInv
  <2>4. ScreenInv'
    BY <1>0, <1>1, <2>1, Blanks DEF ScreenInv
  <2>5. CallsInv' /\ OwnInv'
    BY <1>0, <1>1, <2>1, <2>2, OneMore
  <2>. QED  BY <2>3, <2>4, <2>5 DEF VaultTabInv
<1>2. form # NoForm => /\ editing.id # NoItem /\ editing.id \in Ids /\ editing.text.in = editing.id
                       /\ displaced \/ form.text.in = editing.id
  BY <1>0 DEF ScreenInv, Edits
<1>3. CASE Save
  <2>1. PICK new : new = Call("save", editing.id) /\ calls' = calls \cup {new}
    BY <1>3 DEF Save
  <2>2. form # NoForm
    BY <1>3 DEF Save
  <2>3. /\ new \in Calls /\ new.op = "save" /\ new.id = editing.id /\ new.from = editing
        /\ new.text = form.text /\ new.at = "sent" /\ new.displaced = displaced
    BY <1>0, <1>2, <2>1, <2>2, NewCall
  <2>4. CallInv(new)
    BY <1>2, <2>2, <2>3 DEF CallInv
  <2>. QED  BY <1>1, <1>3, <2>1, <2>2, <2>3, <2>4 DEF Save, serverVars, history
<1>4. CASE Delete
  <2>1. PICK new : new = Call("delete", editing.id) /\ calls' = calls \cup {new}
    BY <1>4 DEF Delete
  <2>2. form # NoForm /\ editing.id \in Items
    BY <1>4 DEF Delete
  <2>3. /\ new \in Calls /\ new.op = "delete" /\ new.id = editing.id /\ new.from = editing
        /\ new.text = form.text /\ new.at = "sent"
    BY <1>0, <1>2, <2>1, <2>2, NewCall
  <2>4. CallInv(new)
    BY <1>2, <2>2, <2>3 DEF CallInv
  <2>. QED  BY <1>1, <1>4, <2>1, <2>2, <2>3, <2>4 DEF Delete, serverVars, screenVars, history
<1>5. ASSUME NEW f \in Folders, NEW op \in FolderOps, FolderOp(op, f) PROVE VaultTabInv'
  <2>1. PICK new : new = FolderCall(op, f) /\ calls' = calls \cup {new}
    BY <1>5 DEF FolderOp
  <2>2. new \in Calls /\ new.op = op /\ new.at = "sent" /\ ~new.mine
    BY <1>0, <2>1, Blanks DEF FolderCall, Calls, Ids, CountInv
  <2>3. op \notin {"save", "delete"}
    BY <1>5 DEF FolderOps
  <2>4. CallInv(new)
    BY <2>2, <2>3 DEF CallInv
  <2>. QED  BY <1>1, <1>5, <2>1, <2>2, <2>4 DEF FolderOp, serverVars, screenVars, history
<1>. QED  BY <1>3, <1>4, <1>5

\* The server commits, refuses with a conflict, or deletes; folders too.
LEMMA ServeSteps ==
    ASSUME VaultTabInv, NEW call \in calls,
           \/ ServeUpdate(call) \/ ServeDelete(call) \/ ServeFolder(call)
           \/ \E i \in Items : ServeCreate(call, i)
    PROVE  VaultTabInv'
<1>0. RowsInv /\ ScreenInv /\ CountInv /\ CallsInv /\ OwnInv /\ CallInv(call) /\ call \in Calls
      /\ (call.mine => form # NoForm /\ (call.typed \/ call.text = form.text))
  BY DEF VaultTabInv, CallsInv, CallInv, OwnInv
<1>1. ASSUME NEW new, CallInv(new), Served(call, new), RowsInv',
             new.mine = call.mine, new.typed = call.typed, new.text = call.text,
             UNCHANGED <<ops, texts, updates, tab, notice, editing, conflict, picked, form, displaced>>
      PROVE  VaultTabInv'
  <2>1. calls' \subseteq calls \cup {new}
    BY <1>1 DEF Served
  <2>2. ScreenInv' /\ CountInv'
    BY <1>0, <1>1 DEF ScreenInv, CountInv
  <2>3. CallsInv' /\ OwnInv'
    BY <1>0, <1>1, <2>1, OneMore
  <2>. QED  BY <1>1, <2>2, <2>3 DEF VaultTabInv
<1>2. ASSUME NEW i \in Items, ServeCreate(call, i) PROVE VaultTabInv'
  <2>1. PICK row, new :
           /\ row = Row(call, i, 1) /\ new = [call EXCEPT !.at = "done", !.row = row, !.id = i]
           /\ item' = [item EXCEPT ![i] = row] /\ Served(call, new)
    BY <1>2 DEF ServeCreate
  <2>2. /\ call.op = "save"
        /\ UNCHANGED <<folder, known, folders, ops, texts, updates, tab, notice, editing, conflict,
                       picked, form, displaced>>
    BY <1>2 DEF ServeCreate, screenVars, history
  <2>3. row \in Rows /\ row.text.in = i
    BY <1>0, <2>1, RowFacts
  <2>4. RowsInv'
    BY <1>0, <2>1, <2>2, <2>3, RowStored
  <2>5. /\ new \in Calls /\ new.op = "save" /\ new.from = call.from /\ new.at = "done" /\ new.id = i
        /\ new.row = row /\ new.text = call.text /\ new.displaced = call.displaced
        /\ new.mine = call.mine /\ new.typed = call.typed
    BY <1>0, <2>1, <2>2, <2>3 DEF Calls, Ids
  <2>6. CallInv(new)
    BY <1>0, <2>2, <2>3, <2>5 DEF CallInv
  <2>. QED  BY <1>1, <2>1, <2>2, <2>4, <2>5, <2>6
<1>3. CASE ServeUpdate(call)
  <2>1. PICK i, row : i \in Items /\ i = call.id /\ row = Row(call, i, item[i].rev + 1)
    BY <1>3 DEF ServeUpdate
  <2>2. item[i] \in Rows /\ item[i].rev + 1 \in Nat /\ item[i].rev > 0 /\ item[i].text.in = i
    BY <1>0, <1>3, <2>1 DEF RowsInv, Rows, ServeUpdate
  <2>3. row \in Rows /\ row.text.in = i
    BY <1>0, <2>1, <2>2, RowFacts
  <2>4. /\ call.op = "save" /\ call.at = "sent"
        /\ UNCHANGED <<folder, known, folders, ops, texts, updates, tab, notice, editing, conflict,
                       picked, form, displaced>>
    BY <1>3 DEF ServeUpdate, screenVars, history
  <2>5. PICK r, a, new :
           /\ r \in Rows /\ a \in {"done", "conflict"} /\ r.text.in = i
           /\ new = [call EXCEPT !.at = a, !.row = r] /\ Served(call, new)
    BY <1>3, <2>1, <2>2, <2>3 DEF ServeUpdate
  <2>6. item' = item \/ item' = [item EXCEPT ![i] = row]
    BY <1>3, <2>1 DEF ServeUpdate
  <2>7. RowsInv'
    BY <1>0, <2>1, <2>3, <2>4, <2>6, RowStored DEF RowsInv
  <2>8. /\ new \in Calls /\ new.op = "save" /\ new.from = call.from /\ new.id = call.id
        /\ new.row = r /\ new.text = call.text /\ new.displaced = call.displaced
        /\ new.mine = call.mine /\ new.typed = call.typed
    BY <1>0, <2>4, <2>5 DEF Calls
  <2>9. CallInv(new)
    BY <1>0, <2>1, <2>4, <2>5, <2>8 DEF CallInv
  <2>. QED  BY <1>1, <2>4, <2>5, <2>7, <2>8, <2>9
<1>4. PICK done : done = [call EXCEPT !.at = "done"]
  OBVIOUS
<1>5. /\ done \in Calls /\ done.op = call.op /\ done.from = call.from /\ done.id = call.id
      /\ done.at = "done" /\ done.row = call.row /\ done.text = call.text
      /\ done.displaced = call.displaced /\ done.mine = call.mine /\ done.typed = call.typed
  BY <1>0, <1>4 DEF Calls
<1>6. CASE ServeDelete(call)
  <2>1. /\ call.op = "delete" /\ call.id \in Items /\ Served(call, done)
        /\ item' = [item EXCEPT ![call.id] = Tombstone]
        /\ UNCHANGED <<folder, known, folders, ops, texts, updates, tab, notice, editing, conflict,
                       picked, form, displaced>>
    BY <1>0, <1>4, <1>6 DEF ServeDelete, CallInv, screenVars, history
  <2>2. RowsInv'
    <3>1. /\ Tombstone \in Rows /\ (Tombstone.rev > 0 => Tombstone.text.in = call.id)
          /\ UNCHANGED known /\ UNCHANGED <<folder, folders>>
      BY <2>1, Blanks
    <3>. QED  BY <1>0, <2>1, <3>1, RowStored
  <2>3. CallInv(done)
    BY <1>0, <1>5, <2>1 DEF CallInv
  <2>. QED  BY <1>1, <1>5, <2>1, <2>2, <2>3
<1>7. CASE ServeFolder(call)
  <2>1. /\ call.op \in FolderOps /\ Served(call, done)
        /\ folder' = [folder EXCEPT ![call.folder] =
                          IF call.op = "delete-folder" THEN "deleted" ELSE "live"]
        /\ UNCHANGED <<item, known, folders, ops, texts, updates, tab, notice, editing, conflict,
                       picked, form, displaced>>
    BY <1>4, <1>7 DEF ServeFolder, screenVars, history
  <2>2. RowsInv'
    BY <1>0, <2>1 DEF RowsInv
  <2>3. CallInv(done)
    BY <1>5, <2>1 DEF CallInv, FolderOps
  <2>. QED  BY <1>1, <1>5, <2>1, <2>2, <2>3
<1>. QED  BY <1>2, <1>3, <1>6, <1>7

\* An answer, a refusal, or none: also of an item that is no longer in the editor.
LEMMA SettleSteps ==
    ASSUME VaultTabInv, NEW call \in calls, Settle(call)
    PROVE  VaultTabInv'
<1>0. RowsInv /\ ScreenInv /\ CountInv /\ CallsInv /\ OwnInv /\ CallInv(call) /\ call \in Calls
  BY DEF VaultTabInv, CallsInv, CallInv
<1>1. CASE Saved(call)
  <2>1. PICK row : /\ row = (IF call.op = "save" THEN call.row ELSE Absent)
                   /\ known' = [known EXCEPT ![call.id] = row]
    BY <1>1 DEF Saved
  <2>2. /\ call.id \in Items /\ Close(calls \ {call}) /\ call.op \in {"save", "delete"}
        /\ call.at = "done"
        /\ UNCHANGED <<item, folder, ops, texts, updates, tab, notice, folders, picked>>
    BY <1>0, <1>1 DEF Saved, CallInv, serverVars
  <2>3. row \in Rows /\ (row.rev > 0 => row.text.in = call.id)
    BY <1>0, <2>1, <2>2, Blanks DEF Calls, CallInv
  <2>4. RowsInv'
    BY <1>0, <2>1, <2>2, <2>3, RowStored
  <2>5. CallsInv' /\ OwnInv'
    <3>1. calls' = Unmounted(calls \ {call})
      BY <2>2 DEF Close
    <3>2. \A c \in calls \ {call} : CallInv(c)
      BY <1>0 DEF CallsInv
    <3>. QED  BY <1>0, <3>1, <3>2, CallsUnmounted
  <2>6. ScreenInv' /\ CountInv'
    BY <1>0, <2>2, Blanks DEF ScreenInv, CountInv, Close
  <2>. QED  BY <2>4, <2>5, <2>6 DEF VaultTabInv
<1>2. CASE Conflict(call)
  <2>1. /\ call.at = "conflict" /\ editing' = Adopted(call)
        /\ conflict' = (IF call.row.read THEN call.row.text ELSE NoText)
        /\ form' = FormKept(call) /\ displaced' = Displaces(call)
        /\ calls' = calls \ {call}
        /\ UNCHANGED <<item, folder, ops, texts, updates, tab, notice, known, folders, picked>>
    BY <1>2 DEF Conflict, ShownWinner, serverVars
  <2>2. /\ call.from \in Edits /\ call.from.id # NoItem /\ call.row \in Rows
        /\ call.from.text.in = call.from.id
    BY <1>0, <2>1 DEF CallInv, Calls
  <2>3. /\ editing' \in Edits /\ editing'.id = call.from.id /\ editing'.text = call.from.text
        /\ editing' # NotEditing /\ conflict' \in Texts
    BY <2>1, <2>2, Blanks DEF Adopted, Edits, Rows
  <2>4. form # NoForm => /\ form' \in Forms /\ form'.item = form.item /\ form'.text = form.text
                         /\ form.item # NoItem /\ form.text.in = form.item
                         /\ tab /\ ~notice /\ form' # NoForm
    <3>. SUFFICES ASSUME form # NoForm
                  PROVE  /\ form' \in Forms /\ form'.item = form.item /\ form'.text = form.text
                         /\ form.item # NoItem /\ form.text.in = form.item
                         /\ tab /\ ~notice /\ form' # NoForm
      OBVIOUS
    <3>1. form \in Forms /\ form.item # NoItem /\ form.text.in = form.item /\ tab /\ ~notice
          /\ (form.busy /\ ~call.mine) \in BOOLEAN
      BY <1>0 DEF ScreenInv, Forms
    <3>2. form' = [form EXCEPT !.busy = form.busy /\ ~call.mine]
      BY <2>1 DEF FormKept
    <3>3. form' \in Forms /\ form'.item = form.item /\ form'.text = form.text
      BY <3>1, <3>2 DEF Forms
    <3>. QED  BY <3>1, <3>3, Blanks
  <2>5. form = NoForm => IF tab /\ ~notice THEN form' = Mount(call.from) ELSE form' = NoForm
    BY <2>1 DEF FormKept, Remounted
  <2>6. /\ Mount(call.from) \in Forms /\ Mount(call.from).item = call.from.id
        /\ Mount(call.from).text.in = call.from.id
    BY <2>2, MountFacts
  <2>7. displaced' \in BOOLEAN /\ (form # NoForm => displaced' \/ form.item = call.from.id)
    BY <2>1 DEF Displaces
  <2>8. ScreenInv'
    <3>1. CASE form # NoForm
      BY <1>0, <2>1, <2>2, <2>3, <2>4, <2>7, <3>1 DEF ScreenInv
    <3>2. CASE form = NoForm
      BY <1>0, <2>1, <2>2, <2>3, <2>5, <2>6, <2>7, <3>2, Blanks DEF ScreenInv
    <3>. QED  BY <3>1, <3>2
  <2>9. RowsInv' /\ CountInv'
    BY <1>0, <2>1 DEF RowsInv, CountInv
  <2>10. CallsInv' /\ OwnInv'
    BY <1>0, <2>1, <2>4, CallsKept
  <2>. QED  BY <2>8, <2>9, <2>10 DEF VaultTabInv
<1>3. ASSUME NEW delivered \in BOOLEAN, Fails(call, delivered) PROVE VaultTabInv'
  <2>1. PICK given : given = [[call EXCEPT !.waits = FALSE] EXCEPT !.mine = FALSE, !.typed = FALSE]
    OBVIOUS
  <2>2. /\ calls' \subseteq calls \cup {given}
        /\ form' \in {form, [form EXCEPT !.busy = FALSE]}
        /\ UNCHANGED <<item, folder, ops, texts, updates, tab, notice, known, folders, editing,
                       conflict, picked, displaced>>
    BY <1>3, <2>1 DEF Fails, Unmounted, serverVars, history
  <2>3. /\ given \in Calls /\ given.op = call.op /\ given.id = call.id /\ given.from = call.from
        /\ given.at = call.at /\ given.row = call.row /\ given.text = call.text
        /\ given.displaced = call.displaced /\ ~given.mine
    BY <1>0, <2>1 DEF Calls
  <2>4. CallInv(given)
    BY <1>0, <2>3 DEF CallInv
  <2>5. form' \in Forms /\ form'.item = form.item /\ form'.text = form.text
        /\ (form = NoForm => form' = NoForm)
    <3>1. form \in Forms
      BY <1>0 DEF ScreenInv
    <3>2. /\ [form EXCEPT !.busy = FALSE] \in Forms /\ [form EXCEPT !.busy = FALSE].item = form.item
          /\ [form EXCEPT !.busy = FALSE].text = form.text
      BY <3>1 DEF Forms
    <3>3. form = NoForm => [form EXCEPT !.busy = FALSE] = form
      <4>1. NoForm.busy = FALSE
        BY DEF NoForm
      <4>2. \A g \in Forms : g.busy = FALSE => [g EXCEPT !.busy = FALSE] = g
        BY DEF Forms
      <4>. QED  BY <3>1, <4>1, <4>2
    <3>. QED  BY <2>2, <3>1, <3>2, <3>3
  <2>6. form # NoForm => form' # NoForm
    <3>1. form # NoForm => form.item # NoItem
      BY <1>0 DEF ScreenInv
    <3>. QED  BY <2>5, <3>1, Blanks
  <2>7. CallsInv' /\ OwnInv'
    BY <1>0, <2>2, <2>3, <2>4, <2>5, <2>6, OneMore
  <2>8. RowsInv' /\ CountInv'
    BY <1>0, <2>2 DEF RowsInv, CountInv
  <2>9. ScreenInv'
    BY <1>0, <2>2, <2>5, Blanks DEF ScreenInv
  <2>. QED  BY <2>7, <2>8, <2>9 DEF VaultTabInv
<1>4. ASSUME NEW resynced \in BOOLEAN, FolderDone(call, resynced) PROVE VaultTabInv'
  <2>1. /\ known' \in {known, item} /\ folders' \in {folders} \cup SUBSET Folders
        /\ calls' \subseteq calls
        /\ UNCHANGED <<item, folder, ops, texts, updates, tab, notice, editing, conflict, picked, form,
                       displaced>>
    BY <1>4 DEF FolderDone, Synced, serverVars, screenVars, history
  <2>2. RowsInv' /\ CountInv' /\ ScreenInv'
    BY <1>0, <2>1 DEF RowsInv, CountInv, ScreenInv
  <2>3. CallsInv' /\ OwnInv'
    BY <1>0, <2>1, CallsKept
  <2>. QED  BY <2>2, <2>3 DEF VaultTabInv
<1>. QED  BY <1>1, <1>2, <1>3, <1>4 DEF Settle

-----------------------------------------------------------------------------
(***************************************************************************)
(* The theorems about the form, and about what is typed in it.             *)
(***************************************************************************)

\* The rows that are there at the start.
LEMMA FirstRows ==
    ASSUME Init, NEW i \in Items
    PROVE  item[i] \in Rows /\ (item[i].rev > 0 => item[i].text.in = i)
<1>1. CASE i \in Stored
  <2>. DEFINE text == [in |-> i, v |-> 0]
  <2>1. text \in Texts /\ text.in = i
    <3>1. 0 \in 0 .. MaxTexts + MaxUpdates + 1
      BY EditingAssumption
    <3>. QED  BY <3>1 DEF Texts
  <2>2. item[i] = [Absent EXCEPT !.rev = 1, !.text = text]
    BY <1>1 DEF Init
  <2>3. \A r \in Rows, t \in Texts :
           [r EXCEPT !.rev = 1, !.text = t] \in Rows /\ [r EXCEPT !.rev = 1, !.text = t].text = t
    BY DEF Rows
  <2>. HIDE DEF text
  <2>4. /\ [Absent EXCEPT !.rev = 1, !.text = text] \in Rows
        /\ [Absent EXCEPT !.rev = 1, !.text = text].text = text
    BY <2>1, <2>3, Blanks
  <2>. QED  BY <2>1, <2>2, <2>4
<1>2. CASE i \notin Stored
  <2>1. item[i] = Absent
    BY <1>2 DEF Init
  <2>. QED  BY <2>1, Blanks
<1>. QED  BY <1>1, <1>2

\* The vault that was there, and a tab with nothing open.
LEMMA VaultTabInit == Init => VaultTabInv
<1>. SUFFICES ASSUME Init PROVE VaultTabInv
  OBVIOUS
<1>1. RowsInv
  <2>1. \A i \in Items : item[i] \in Rows /\ (item[i].rev > 0 => item[i].text.in = i)
    BY FirstRows
  <2>2. item \in [Items -> Rows] /\ known = item
    BY <2>1 DEF Init
  <2>3. folder \in [Folders -> {"unused", "live", "deleted"}] /\ folders \subseteq Folders
    BY EditingAssumption DEF Init
  <2>. QED  BY <2>1, <2>2, <2>3 DEF RowsInv
<1>2. ScreenInv
  BY Blanks DEF Init, ScreenInv
<1>3. CountInv
  <2>1. 0 \in 0 .. MaxTexts /\ 0 \in 0 .. MaxUpdates
    BY EditingAssumption
  <2>2. ops = 0 /\ texts = 0 /\ updates = 0
    BY DEF Init
  <2>. QED  BY <2>1, <2>2 DEF CountInv
<1>4. CallsInv /\ OwnInv
  BY DEF Init, CallsInv, OwnInv
<1>. QED  BY <1>1, <1>2, <1>3, <1>4 DEF VaultTabInv

\* Every step keeps it, whoever waits for what.
LEMMA VaultTabStep == VaultTabInv /\ [Next]_vars => VaultTabInv'
<1>. SUFFICES ASSUME VaultTabInv, [Next]_vars PROVE VaultTabInv'
  OBVIOUS
<1>1. CASE UNCHANGED vars
  <2>0. RowsInv /\ ScreenInv /\ CountInv /\ CallsInv /\ OwnInv
    BY DEF VaultTabInv
  <2>1. UNCHANGED <<item, folder, calls, ops, texts, updates, tab, notice, known, folders, editing,
                    conflict, picked, form, displaced>>
    BY <1>1 DEF vars, serverVars, screenVars, history
  <2>2. RowsInv' /\ CountInv' /\ ScreenInv'
    BY <2>0, <2>1 DEF RowsInv, CountInv, ScreenInv
  <2>3. CallsInv' /\ OwnInv'
    BY <2>0, <2>1, CallsKept
  <2>. QED  BY <2>2, <2>3 DEF VaultTabInv
<1>2. CASE Next
  BY <1>2, EditorSteps, AskSteps, ServeSteps, SettleSteps DEF Next
<1>. QED  BY <1>1, <1>2

\* A known item is under the one folder it is filed in, or under Personal.
LEMMA OneFolder == folders \subseteq Folders => FoldersPartitionTheVault
<1>. SUFFICES ASSUME folders \subseteq Folders, NEW i \in Items, known[i].rev > 0
              PROVE  Cardinality({f \in folders \cup {Personal} : i \in FilterByFolder(f)}) = 1
  BY DEF FoldersPartitionTheVault
<1>. DEFINE home == IF FolderOf(known[i]) \in folders THEN FolderOf(known[i]) ELSE Personal
<1>1. folders \subseteq Folders /\ Personal \notin Folders /\ AllItems \notin Folders \cup {Personal}
  BY EditingAssumption
<1>2. \A f \in folders \cup {Personal} : i \in FilterByFolder(f) <=> f = home
  BY <1>1 DEF FilterByFolder
<1>3. home \in folders \cup {Personal}
  OBVIOUS
<1>. HIDE DEF home
<1>4. {f \in folders \cup {Personal} : i \in FilterByFolder(f)} = {home}
  BY <1>2, <1>3
<1>. QED  BY <1>4, FS_Singleton

\* The vault screen is sound, for a user who opens, types, saves and deletes
\* without waiting for any answer: a form is mounted exactly when something is
\* edited on the tab that is shown, what is sent for an item was typed in the
\* editor of that item unless a late conflict has put that item under another
\* form, and every known item is under one folder of the sidebar.
THEOREM FormItemAndFolderBelongTogether == Spec => []EditingInv
<1>1. VaultTabInv => EditingInv
  <2>. SUFFICES ASSUME VaultTabInv PROVE EditingInv
    OBVIOUS
  <2>0. RowsInv /\ ScreenInv /\ CallsInv
    BY DEF VaultTabInv
  <2>1. \A call \in calls : call.op \in {"save", "delete"} \cup FolderOps
                            /\ call.at \in {"sent", "done", "conflict"} /\ call.row \in Rows
    BY <2>0 DEF CallsInv, CallInv, Calls
  <2>2. editing \in [id : Items \cup {NewItem, NoItem}, rev : Nat, text : Texts]
    BY <2>0 DEF ScreenInv, Edits, Ids
  <2>3. form.text \in Texts /\ conflict \in Texts
    BY <2>0 DEF ScreenInv, Forms
  <2>4. TypeOK
    BY <2>0, <2>1, <2>2, <2>3, FormIsShown DEF TypeOK, RowsInv
  <2>5. SavesWhatWasTypedForIt
    BY <2>0 DEF SavesWhatWasTypedForIt, CallsInv, CallInv
  <2>. QED  BY <2>0, <2>4, <2>5, OneFolder DEF EditingInv, RowsInv
<1>. QED  BY <1>1, VaultTabInit, VaultTabStep, PTL DEF Spec

\* "what the user typed is untouched by this": text that was typed leaves the form
\* only when the user leaves the editor or types on, when that very text has been
\* saved or its item deleted, or when a call the user has outrun is answered; a
\* conflict, a lost answer, a resync and the other device keep it.
THEOREM TypedTextIsKept == Spec => UnsavedTextIsKept
<1>. DEFINE Ends == Cancel \/ SwitchTab \/ Type
                    \/ \E call \in calls : Saved(call) /\ (call.text = form.text \/ Outrun(call))
            Kept == form.dirty /\ form'.text # form.text => Ends
<1>1. ASSUME VaultTabInv, [Next]_vars PROVE Kept
  <2>0. ScreenInv /\ CallsInv /\ OwnInv /\ form \in Forms
    BY <1>1 DEF VaultTabInv, ScreenInv
  <2>. SUFFICES ASSUME form.dirty, form'.text # form.text PROVE Ends
    OBVIOUS
  <2>2. form # NoForm /\ form' # form /\ tab /\ ~notice /\ editing # NotEditing
    BY <2>0, Blanks, FormIsShown
  <2>3. ASSUME NEW e, NEW p, Open(e, p) PROVE FALSE
    BY <2>2, <2>3 DEF Open, ListShown
  <2>4. \A i \in Items : /\ ~SelectItem(i) /\ ~SelectUnreadable(i)
                         /\ \A b \in BOOLEAN : ~OtherDeviceUpdates(i, b)
    BY <2>2, <2>3 DEF OtherDeviceUpdates, SelectItem, SelectUnreadable, screenVars
  <2>5. ~Resync /\ ~AddItem /\ ~Delete /\ ~Back
    BY <2>2, <2>3 DEF Resync, AddItem, Delete, Back, screenVars
  <2>6. ~Save
    <3>1. [form EXCEPT !.busy = TRUE].text = form.text
      BY <2>0 DEF Forms
    <3>. QED  BY <3>1 DEF Save
  <2>7. \A p : ~Pick(p)
    BY <2>2 DEF Pick
  <2>8. \A f \in Folders, op \in FolderOps : ~FolderOp(op, f)
    BY <2>2 DEF FolderOp, ListShown
  <2>9. \A call \in calls :
           /\ ~ServeUpdate(call) /\ ~ServeDelete(call) /\ ~ServeFolder(call)
           /\ \A i \in Items : ~ServeCreate(call, i)
    BY <2>2 DEF ServeUpdate, ServeDelete, ServeFolder, ServeCreate, screenVars
  <2>10. ASSUME NEW call \in calls, Settle(call)
         PROVE  Saved(call) /\ (call.text = form.text \/ Outrun(call))
    <3>1. ~Conflict(call)
      <4>1. [form EXCEPT !.busy = form.busy /\ ~call.mine].text = form.text
        BY <2>0 DEF Forms
      <4>. QED  BY <2>2, <4>1 DEF Conflict, FormKept
    <3>2. \A b \in BOOLEAN : ~Fails(call, b) /\ ~FolderDone(call, b)
      <4>1. [form EXCEPT !.busy = FALSE].text = form.text
        BY <2>0 DEF Forms
      <4>. QED  BY <4>1 DEF Fails, FolderDone, screenVars
    <3>3. Saved(call)
      BY <2>10, <3>1, <3>2 DEF Settle
    <3>. QED  BY <2>0, <3>3 DEF OwnInv, Outrun
  <2>11. ~UNCHANGED vars
    BY <2>2 DEF vars, screenVars
  <2>. QED
    BY <1>1, <2>4, <2>5, <2>6, <2>7, <2>8, <2>9, <2>10, <2>11 DEF Next
<1>2. VaultTabInv /\ [Next]_vars => [Kept]_vars
  BY <1>1
<1>. QED  BY <1>2, VaultTabInit, VaultTabStep, PTL DEF Spec, UnsavedTextIsKept

-----------------------------------------------------------------------------
(***************************************************************************)
(* No readable version is replaced that the user was not shown.            *)
(***************************************************************************)
\* The server's row of an item only goes on from a row it had: to the next
\* revision, or to its end, after which the id is not used again.
Behind(i, rev) == item[i] # Absent /\ (item[i].rev > 0 => rev <= item[i].rev)
\* A copy of a row is of the past, or is the row.
RowSound(i, row) ==
    /\ Behind(i, row.rev)
    /\ item[i].rev > 0 /\ row.rev = item[i].rev => row.read = item[i].read
\* What an edit starts from is of the past, or was shown, or cannot be read here.
StartedFrom(e) ==
    e.id \in Items =>
        /\ Behind(e.id, e.rev)
        /\ item[e.id].rev > 0 /\ item[e.id].rev = e.rev /\ item[e.id].read
              => <<e.id, e.rev>> \in seen
CallStarted(call) ==
    /\ StartedFrom(call.from)
    /\ call.op = "save" /\ call.at # "sent" => RowSound(call.id, call.row)
ShownInv ==
    /\ StartedFrom(editing)
    /\ \A i \in Items : known[i].rev > 0 => RowSound(i, known[i])
    /\ \A call \in calls : CallStarted(call)

Moves ==
    \A i \in Items :
        \/ item'[i] = item[i]
        \/ item[i] = Absent /\ item'[i] # Absent
        \/ /\ item[i] # Absent /\ item'[i] # Absent
           /\ item'[i].rev > 0 => item[i].rev > 0 /\ item'[i].rev = item[i].rev + 1

\* What was of the past, or shown, still is when the server has moved on.
LEMMA Moved ==
    ASSUME RowsInv, Moves, seen \subseteq seen'
    PROVE  /\ \A i \in Items, row \in Rows : RowSound(i, row) => RowSound(i, row)'
           /\ \A e \in Edits : StartedFrom(e) => StartedFrom(e)'
<1>1. \A i \in Items : item[i].rev \in Nat
  BY DEF RowsInv, Rows
<1>2. ASSUME NEW i \in Items, NEW rev \in Nat, Behind(i, rev)
      PROVE  Behind(i, rev)' /\ (item'[i].rev > 0 /\ item'[i].rev = rev => item'[i] = item[i])
  <2>1. item[i] # Absent /\ (item[i].rev > 0 => rev <= item[i].rev) /\ item[i].rev \in Nat
    BY <1>1, <1>2 DEF Behind
  <2>2. CASE item'[i] = item[i]
    BY <2>1, <2>2 DEF Behind
  <2>3. CASE /\ item'[i] # Absent
             /\ item'[i].rev > 0 => item[i].rev > 0 /\ item'[i].rev = item[i].rev + 1
    <3>1. item'[i].rev > 0 => rev <= item[i].rev /\ item'[i].rev = item[i].rev + 1
      BY <2>1, <2>3
    <3>2. \A a, b \in Nat : a <= b => a <= b + 1 /\ a # b + 1
      OBVIOUS
    <3>. QED  BY <2>1, <2>3, <3>1, <3>2 DEF Behind
  <2>. QED  BY <2>1, <2>2, <2>3 DEF Moves
<1>3. ASSUME NEW i \in Items, NEW row \in Rows, RowSound(i, row) PROVE RowSound(i, row)'
  <2>1. row.rev \in Nat
    BY DEF Rows
  <2>. QED  BY <1>2, <1>3, <2>1 DEF RowSound
<1>4. ASSUME NEW e \in Edits, StartedFrom(e) PROVE StartedFrom(e)'
  <2>1. e.rev \in Nat
    BY DEF Edits
  <2>. QED  BY <1>2, <1>4, <2>1 DEF StartedFrom
<1>. QED  BY <1>3, <1>4

\* So the editor, the store and the calls keep what they have.
LEMMA Carried ==
    ASSUME VaultTabInv, ShownInv, Moves, seen \subseteq seen'
    PROVE  /\ \A e \in Edits : e = editing => StartedFrom(e)'
           /\ \A i \in Items, row \in Rows :
                 row \in {known[i], item[i]} /\ row.rev > 0 => RowSound(i, row)'
           /\ \A c \in calls : CallStarted(c)'
<1>0. RowsInv /\ editing \in Edits /\ \A c \in calls : c.from \in Edits /\ c.row \in Rows
  BY DEF VaultTabInv, ScreenInv, CallsInv, CallInv, Calls
<1>1. \A c \in calls : CallStarted(c)'
  <2>. SUFFICES ASSUME NEW c \in calls PROVE CallStarted(c)'
    OBVIOUS
  <2>1. CallStarted(c) /\ (c.op = "save" /\ c.at # "sent" => c.id \in Items)
    BY DEF ShownInv, VaultTabInv, CallsInv, CallInv
  <2>. QED  BY <1>0, <2>1, Moved DEF CallStarted
<1>2. \A e \in Edits : e = editing => StartedFrom(e)'
  BY <1>0, Moved DEF ShownInv
<1>3. ASSUME NEW i \in Items, NEW row \in Rows, row \in {known[i], item[i]}, row.rev > 0
      PROVE  RowSound(i, row)'
  <2>1. row = item[i] => RowSound(i, row)
    BY <1>3, Blanks DEF RowSound, Behind, Rows
  <2>. QED  BY <1>0, <1>3, <2>1, Moved DEF ShownInv
<1>. QED  BY <1>1, <1>2, <1>3

\* Nothing is edited or under way at the start.
LEMMA ShownInit == Init => ShownInv
<1>. SUFFICES ASSUME Init PROVE ShownInv
  OBVIOUS
<1>1. RowsInv /\ editing = NotEditing /\ calls = {} /\ known = item
  BY VaultTabInit DEF VaultTabInv, Init
<1>2. StartedFrom(editing)
  BY <1>1, Blanks, EditingAssumption DEF StartedFrom
<1>3. \A i \in Items : known[i].rev > 0 => RowSound(i, known[i])
  BY <1>1, Blanks DEF RowSound, Behind, RowsInv, Rows
<1>. QED  BY <1>1, <1>2, <1>3 DEF ShownInv

\* The server moves on, whatever step is taken.
LEMMA EveryStepMoves ==
    ASSUME VaultTabInv, [Next]_vars
    PROVE  Moves /\ seen \subseteq seen'
<1>0. RowsInv /\ \A i \in Items : item[i] \in Rows /\ item[i].rev \in Nat
  BY DEF VaultTabInv, RowsInv, Rows
<1>1. ASSUME NEW i \in Items, NEW row \in Rows, item' = [item EXCEPT ![i] = row],
             \/ item[i] = Absent /\ row # Absent
             \/ item[i].rev > 0 /\ row # Absent /\ (row.rev > 0 => row.rev = item[i].rev + 1)
      PROVE  Moves
  <2>1. item'[i] = row /\ \A j \in Items \ {i} : item'[j] = item[j]
    BY <1>0, <1>1 DEF RowsInv
  <2>. QED  BY <1>1, <2>1, Blanks DEF Moves
<1>2. item' = item => Moves
  BY DEF Moves
<1>15. Absent.rev = 0 /\ Tombstone \in Rows /\ Tombstone.rev = 0 /\ Tombstone # Absent
  <2>1. Tombstone.text.v = 1 /\ Absent.text.v = 0
    BY DEF Tombstone, Absent, NoText
  <2>. QED  BY <2>1, Blanks
<1>3. ASSUME NEW i \in Items, NEW b \in BOOLEAN, OtherDeviceUpdates(i, b) PROVE Moves
  <2>1. PICK text : text = [in |-> i, v |-> MaxTexts + updates + 1]
    OBVIOUS
  <2>2. PICK new : new = [item[i] EXCEPT !.rev = @ + 1, !.read = b, !.text = text]
    OBVIOUS
  <2>3. new.rev = item[i].rev + 1 /\ item[i].rev > 0
    BY <1>0, <1>3, <2>2 DEF OtherDeviceUpdates, Rows
  <2>4. item' = [item EXCEPT ![i] = new]
    BY <1>0, <1>3, <2>1, <2>2 DEF OtherDeviceUpdates, RowsInv, Rows
  <2>5. item'[i] = new /\ \A j \in Items \ {i} : item'[j] = item[j]
    BY <1>0, <2>4 DEF RowsInv
  <2>6. new # Absent /\ item[i] # Absent
    BY <1>0, <2>3, Blanks
  <2>. QED  BY <2>3, <2>5, <2>6 DEF Moves
<1>4. ASSUME NEW call \in calls, NEW i \in Items, ServeCreate(call, i) PROVE Moves
  <2>1. call \in Calls
    BY DEF VaultTabInv, CallsInv, CallInv
  <2>2. PICK row \in Rows : row = Row(call, i, 1) /\ row.rev = 1
    BY <2>1, RowFacts
  <2>3. item[i] = Absent /\ item' = [item EXCEPT ![i] = row] /\ row # Absent
    BY <1>4, <1>15, <2>2 DEF ServeCreate
  <2>. QED  BY <1>1, <2>3
<1>5. ASSUME NEW call \in calls, ServeUpdate(call) PROVE Moves
  <2>1. PICK i \in Items : i = call.id
    BY <1>5 DEF ServeUpdate
  <2>2. call \in Calls /\ item[i].rev > 0 /\ item[i].rev + 1 \in Nat
    BY <1>0, <1>5, <2>1 DEF VaultTabInv, CallsInv, CallInv, ServeUpdate
  <2>3. PICK row \in Rows : row = Row(call, i, item[i].rev + 1) /\ row.rev = item[i].rev + 1
    BY <2>1, <2>2, RowFacts
  <2>4. item' = item \/ item' = [item EXCEPT ![i] = row]
    BY <1>5, <2>1, <2>3 DEF ServeUpdate
  <2>5. row # Absent
    <3>1. row.rev # 0
      BY <1>0, <2>2, <2>3
    <3>. QED  BY <1>15, <3>1
  <2>. QED  BY <1>1, <1>2, <2>2, <2>3, <2>4, <2>5
<1>6. ASSUME NEW call \in calls, ServeDelete(call) PROVE Moves
  <2>1. PICK i \in Items : i = call.id
    BY <1>6 DEF ServeDelete, VaultTabInv, CallsInv, CallInv
  <2>2. PICK row \in Rows : row = Tombstone /\ row.rev = 0 /\ row # Absent
    BY <1>15
  <2>3. item[i].rev > 0 /\ item' = [item EXCEPT ![i] = row] /\ ~(row.rev > 0)
    BY <1>6, <2>1, <2>2 DEF ServeDelete
  <2>. QED  BY <1>1, <2>2, <2>3
<1>7. \A call \in calls : ServeFolder(call) => item' = item /\ seen' = seen
  BY DEF ServeFolder, history
<1>8. ASSUME NEW call \in calls, Settle(call) PROVE item' = item /\ seen \subseteq seen'
  BY <1>8 DEF Settle, Saved, Conflict, ShownWinner, Fails, FolderDone, serverVars, history
<1>10. \A p : Pick(p) => item' = item /\ seen' = seen
  BY DEF Pick, serverVars, history
<1>11. \A f \in Folders, op \in FolderOps : FolderOp(op, f) => item' = item /\ seen' = seen
  BY DEF FolderOp, serverVars, history
<1>12. Resync \/ Back \/ AddItem \/ Type \/ Cancel \/ SwitchTab \/ Save \/ Delete \/ UNCHANGED vars
          => item' = item /\ seen' = seen
  BY DEF Resync, Back, AddItem, Type, Cancel, SwitchTab, Save, Delete, serverVars, history, vars
<1>13. \A call \in calls : /\ ServeUpdate(call) \/ ServeDelete(call) => seen' = seen
                           /\ \A i \in Items : ServeCreate(call, i) => seen' = seen
  BY DEF ServeUpdate, ServeDelete, ServeCreate, history
<1>14. \A i \in Items, b \in BOOLEAN : OtherDeviceUpdates(i, b) => seen' = seen
  BY DEF OtherDeviceUpdates, history
<1>16. ASSUME Next PROVE Moves /\ seen \subseteq seen'
  <2>1. ASSUME NEW i \in Items,
               \/ SelectItem(i) \/ SelectUnreadable(i)
               \/ \E b \in BOOLEAN : OtherDeviceUpdates(i, b)
        PROVE  Moves /\ seen \subseteq seen'
    <3>1. ASSUME NEW b \in BOOLEAN, OtherDeviceUpdates(i, b) PROVE Moves /\ seen \subseteq seen'
      BY <1>3, <1>14, <3>1
    <3>2. CASE SelectItem(i) \/ SelectUnreadable(i)
      <4>1. item' = item /\ seen \subseteq seen'
        BY <3>2 DEF SelectItem, SelectUnreadable, serverVars, history
      <4>. QED  BY <1>2, <4>1
    <3>. QED  BY <2>1, <3>1, <3>2
  <2>2. CASE \E call \in calls :
                \/ ServeUpdate(call) \/ ServeDelete(call) \/ ServeFolder(call) \/ Settle(call)
                \/ \E i \in Items : ServeCreate(call, i)
    BY <1>2, <1>4, <1>5, <1>6, <1>7, <1>8, <1>13, <2>2
  <2>3. CASE \/ \E c \in Collections \cup {Personal}, f \in Folders \cup {NoFolder} :
                   Pick([coll |-> c, folder |-> f])
             \/ \E f \in Folders, op \in FolderOps : FolderOp(op, f)
             \/ Resync \/ Back \/ AddItem \/ Type \/ Cancel \/ SwitchTab \/ Save \/ Delete
    BY <1>2, <1>10, <1>11, <1>12, <2>3
  <2>. QED  BY <1>16, <2>1, <2>2, <2>3 DEF Next
<1>. QED  BY <1>2, <1>12, <1>16

\* A call that changes in no more than where it is.
LEMMA CallRewritten ==
    ASSUME NEW call \in Calls, CallStarted(call)'
    PROVE  /\ CallStarted([call EXCEPT !.mine = FALSE, !.typed = FALSE])'
           /\ CallStarted([call EXCEPT !.typed = call.mine])'
           /\ CallStarted([[call EXCEPT !.waits = FALSE] EXCEPT !.mine = FALSE, !.typed = FALSE])'
           /\ call.op # "save" => CallStarted([call EXCEPT !.at = "done"])'
<1>. DEFINE Same(c) == c.op = call.op /\ c.id = call.id /\ c.from = call.from /\ c.row = call.row
<1>1. ASSUME NEW c, Same(c), c.at = call.at \/ call.op # "save" PROVE CallStarted(c)'
  BY <1>1 DEF CallStarted
<1>2. /\ Same([call EXCEPT !.mine = FALSE, !.typed = FALSE])
      /\ Same([call EXCEPT !.typed = call.mine])
      /\ Same([[call EXCEPT !.waits = FALSE] EXCEPT !.mine = FALSE, !.typed = FALSE])
      /\ Same([call EXCEPT !.at = "done"])
  BY DEF Calls
<1>3. /\ [call EXCEPT !.mine = FALSE, !.typed = FALSE].at = call.at
      /\ [call EXCEPT !.typed = call.mine].at = call.at
      /\ [[call EXCEPT !.waits = FALSE] EXCEPT !.mine = FALSE, !.typed = FALSE].at = call.at
  BY DEF Calls
<1>. HIDE DEF Same
<1>. QED  BY <1>1, <1>2, <1>3

\* Every step keeps it: what an edit starts from is of the past, shown, or unreadable.
LEMMA ShownStep == VaultTabInv /\ ShownInv /\ [Next]_vars => ShownInv'
<1>. SUFFICES ASSUME VaultTabInv, ShownInv, [Next]_vars PROVE ShownInv'
  OBVIOUS
<1>0. /\ RowsInv /\ editing \in Edits /\ \A i \in Items : known[i] \in Rows /\ item[i] \in Rows
      /\ \A c \in calls : CallInv(c) /\ c \in Calls
  BY DEF VaultTabInv, RowsInv, ScreenInv, CallsInv, CallInv
<1>1. /\ \A e \in Edits : e = editing => StartedFrom(e)'
      /\ \A i \in Items, row \in Rows : row \in {known[i], item[i]} /\ row.rev > 0 => RowSound(i, row)'
      /\ \A c \in calls : CallStarted(c)'
  BY EveryStepMoves, Carried
<1>2. StartedFrom(NotEditing)' /\ StartedFrom(Blank)'
  BY Blanks, EditingAssumption DEF StartedFrom
\* The parts, as most steps leave them.
<1>3. known' = known \/ known' = item => \A i \in Items : known'[i].rev > 0 => RowSound(i, known[i])'
  BY <1>0, <1>1
<1>4. editing' \in {editing, NotEditing, Blank} => StartedFrom(editing)'
  BY <1>0, <1>1, <1>2
<1>5. ASSUME NEW new, CallStarted(new)', calls' \subseteq calls \cup {new}
      PROVE  \A c \in calls' : CallStarted(c)'
  BY <1>1, <1>5
<1>6. calls' \subseteq calls => \A c \in calls' : CallStarted(c)'
  BY <1>1
<1>7. ASSUME NEW C, C \subseteq calls, calls' = Unmounted(C)
      PROVE  \A c \in calls' : CallStarted(c)'
  BY <1>0, <1>1, <1>7, CallRewritten DEF Unmounted
<1>8. ASSUME StartedFrom(editing)', \A c \in calls' : CallStarted(c)',
             \A i \in Items : known'[i].rev > 0 => RowSound(i, known[i])'
      PROVE  ShownInv'
  BY <1>8 DEF ShownInv
<1>9. ASSUME NEW i \in Items, SelectItem(i) PROVE ShownInv'
  <2>1. /\ editing' = [id |-> i, rev |-> known[i].rev, text |-> known[i].text]
        /\ seen' = seen \cup {<<i, known[i].rev>>} /\ known[i].rev > 0
        /\ calls' = calls /\ known' = known /\ item' = item
    BY <1>9 DEF SelectItem, Open, FilterByFolder, serverVars
  <2>2. RowSound(i, known[i])'
    BY <1>0, <1>3, <2>1
  <2>3. StartedFrom(editing)'
    BY <2>1, <2>2 DEF StartedFrom, RowSound
  <2>. QED  BY <1>3, <1>6, <1>8, <2>1, <2>3
<1>10. CASE AddItem
  BY <1>3, <1>4, <1>6, <1>8, <1>10 DEF AddItem, Open
<1>11. CASE Cancel \/ SwitchTab
  <2>1. calls' = Unmounted(calls) /\ known' = known /\ editing' \in {editing, NotEditing}
    BY <1>11 DEF Cancel, SwitchTab, Close
  <2>. QED  BY <1>3, <1>4, <1>7, <1>8, <2>1
<1>12. ASSUME NEW new, calls' = calls \cup {new}, new.from = editing, new.at = "sent",
              editing' = editing, known' = known
       PROVE  ShownInv'
  <2>1. CallStarted(new)'
    BY <1>0, <1>1, <1>12 DEF CallStarted
  <2>2. \A c \in calls' : CallStarted(c)'
    BY <1>5, <1>12, <2>1
  <2>. QED  BY <1>3, <1>4, <1>8, <1>12, <2>2
<1>13. CASE Save \/ Delete
  <2>1. PICK new : calls' = calls \cup {new} /\ new.from = editing /\ new.at = "sent"
    <3>1. PICK op : calls' = calls \cup {Call(op, editing.id)}
      BY <1>13 DEF Save, Delete
    <3>2. Call(op, editing.id).from = editing /\ Call(op, editing.id).at = "sent"
      BY DEF Call
    <3>. QED  BY <3>1, <3>2
  <2>. QED  BY <1>12, <1>13, <2>1 DEF Save, Delete, screenVars
<1>14. ASSUME NEW f \in Folders, NEW op \in FolderOps, FolderOp(op, f) PROVE ShownInv'
  <2>1. PICK new : /\ calls' = calls \cup {new} /\ new.from = editing /\ new.at = "sent"
    <3>1. FolderCall(op, f).from = NotEditing /\ FolderCall(op, f).at = "sent"
      BY DEF FolderCall
    <3>2. calls' = calls \cup {FolderCall(op, f)} /\ editing = NotEditing
      BY <1>14 DEF FolderOp, ListShown
    <3>. QED  BY <3>1, <3>2
  <2>. QED  BY <1>12, <1>14, <2>1 DEF FolderOp, screenVars
<1>15. CASE Resync
  BY <1>3, <1>4, <1>6, <1>8, <1>15 DEF Resync, Synced, screenVars
<1>16. CASE Back \/ UNCHANGED vars
  BY <1>3, <1>4, <1>6, <1>8, <1>16 DEF Back, vars, screenVars
<1>17. CASE Type
  <2>1. \A c \in calls' : CallStarted(c)'
    BY <1>0, <1>1, <1>17, CallRewritten DEF Type
  <2>. QED  BY <1>3, <1>4, <1>8, <1>17, <2>1 DEF Type
<1>18. ASSUME NEW i \in Items, SelectUnreadable(i) PROVE ShownInv'
  BY <1>3, <1>4, <1>6, <1>8, <1>18 DEF SelectUnreadable
<1>19. ASSUME NEW i \in Items, NEW b \in BOOLEAN, OtherDeviceUpdates(i, b) PROVE ShownInv'
  BY <1>3, <1>4, <1>6, <1>8, <1>19 DEF OtherDeviceUpdates, screenVars
<1>20. ASSUME NEW p, Pick(p) PROVE ShownInv'
  BY <1>3, <1>4, <1>6, <1>8, <1>20 DEF Pick
<1>21. ASSUME NEW call \in calls, NEW new, Served(call, new), CallStarted(new)',
              editing' = editing, known' = known
       PROVE  ShownInv'
  BY <1>3, <1>4, <1>5, <1>8, <1>21 DEF Served
<1>22. ASSUME NEW call \in calls, NEW i \in Items, ServeCreate(call, i) PROVE ShownInv'
  <2>1. PICK row, new :
           /\ row = Row(call, i, 1) /\ new = [call EXCEPT !.at = "done", !.row = row, !.id = i]
           /\ item' = [item EXCEPT ![i] = row] /\ Served(call, new)
    BY <1>22 DEF ServeCreate
  <2>2. row \in Rows /\ row.rev = 1 /\ item'[i] = row
    BY <1>0, <2>1, RowFacts DEF RowsInv
  <2>3. new.from = call.from /\ new.id = i /\ new.row = row
    BY <1>0, <2>1 DEF Calls
  <2>4. RowSound(i, row)'
    BY <2>2, Blanks DEF RowSound, Behind
  <2>5. CallStarted(new)'
    BY <1>1, <2>3, <2>4 DEF CallStarted
  <2>. QED  BY <1>21, <1>22, <2>1, <2>5 DEF ServeCreate, screenVars
<1>23. ASSUME NEW call \in calls, ServeUpdate(call) PROVE ShownInv'
  <2>1. PICK i, row : i \in Items /\ i = call.id /\ row = Row(call, i, item[i].rev + 1)
    BY <1>23 DEF ServeUpdate
  <2>2. item[i].rev \in Nat /\ item[i].rev + 1 \in Nat /\ item[i].rev > 0
    BY <1>0, <1>23, <2>1 DEF ServeUpdate, Rows
  <2>3. row \in Rows /\ row.rev = item[i].rev + 1
    BY <1>0, <2>1, <2>2, RowFacts
  <2>4. PICK r, a, new :
           /\ \/ r = row /\ item' = [item EXCEPT ![i] = row]
              \/ r = item[i] /\ item' = item
           /\ new = [call EXCEPT !.at = a, !.row = r] /\ Served(call, new)
    BY <1>23, <2>1 DEF ServeUpdate
  <2>5. item'[i] = r /\ r \in Rows /\ r.rev # 0 /\ r.rev \in Nat
    <3>1. item[i].rev + 1 # 0 /\ item[i].rev # 0
      BY <2>2
    <3>2. r \in Rows /\ r.rev # 0
      BY <1>0, <2>1, <2>3, <2>4, <3>1
    <3>3. item'[i] = r
      BY <1>0, <2>1, <2>4 DEF RowsInv
    <3>. QED  BY <3>2, <3>3 DEF Rows
  <2>6. RowSound(i, r)'
    BY <2>5, Blanks DEF RowSound, Behind
  <2>7. new.from = call.from /\ new.id = i /\ new.row = r
    BY <1>0, <2>1, <2>4 DEF Calls
  <2>8. CallStarted(new)'
    BY <1>1, <2>6, <2>7 DEF CallStarted
  <2>. QED  BY <1>21, <1>23, <2>4, <2>8 DEF ServeUpdate, screenVars
<1>24. ASSUME NEW call \in calls, ServeDelete(call) \/ ServeFolder(call) PROVE ShownInv'
  <2>1. /\ Served(call, [call EXCEPT !.at = "done"]) /\ call.op # "save"
        /\ editing' = editing /\ known' = known
    BY <1>24 DEF ServeDelete, ServeFolder, FolderOps, screenVars
  <2>2. CallStarted([call EXCEPT !.at = "done"])'
    BY <1>0, <1>1, <2>1, CallRewritten
  <2>. QED  BY <1>21, <2>1, <2>2
<1>25. ASSUME NEW call \in calls, Saved(call) PROVE ShownInv'
  <2>1. /\ known' = [known EXCEPT ![call.id] = IF call.op = "save" THEN call.row ELSE Absent]
        /\ calls' = Unmounted(calls \ {call}) /\ editing' = NotEditing
        /\ call.op \in {"save", "delete"} /\ call.at = "done"
    BY <1>25 DEF Saved, Close
  <2>2. call.op = "save" => RowSound(call.id, call.row)'
    BY <1>1, <2>1 DEF CallStarted
  <2>3. \A i \in Items : known'[i].rev > 0 => RowSound(i, known[i])'
    <3>. SUFFICES ASSUME NEW i \in Items, known'[i].rev > 0 PROVE RowSound(i, known[i])'
      OBVIOUS
    <3>1. CASE i # call.id
      <4>1. known'[i] = known[i]
        BY <2>1, <3>1 DEF VaultTabInv, RowsInv
      <4>. QED  BY <1>0, <1>1, <4>1
    <3>2. CASE i = call.id
      <4>1. known'[i] = IF call.op = "save" THEN call.row ELSE Absent
        BY <2>1, <3>2 DEF VaultTabInv, RowsInv
      <4>2. call.op = "save"
        BY <4>1, Blanks
      <4>. QED  BY <2>2, <3>2, <4>1, <4>2
    <3>. QED  BY <3>1, <3>2
  <2>4. \A c \in calls' : CallStarted(c)'
    BY <1>7, <2>1
  <2>. QED  BY <1>4, <1>8, <2>1, <2>3, <2>4
<1>26. ASSUME NEW call \in calls, Conflict(call) PROVE ShownInv'
  <2>1. /\ editing' = Adopted(call) /\ calls' = calls \ {call} /\ known' = known
        /\ IF call.row.read THEN seen' = seen \cup {<<call.id, call.row.rev>>} ELSE seen' = seen
        /\ call.at = "conflict"
    BY <1>26 DEF Conflict, ShownWinner
  <2>2. /\ call.op = "save" /\ call.id = call.from.id /\ call.id \in Items
        /\ call.from \in Edits /\ call.row \in Rows
    BY <1>0, <2>1 DEF CallInv, Calls
  <2>3. editing'.id = call.id /\ editing'.rev = call.row.rev
    BY <2>1, <2>2 DEF Adopted, Edits
  <2>4. RowSound(call.id, call.row)'
    BY <1>1, <2>1, <2>2 DEF CallStarted
  <2>5. StartedFrom(editing)'
    BY <2>1, <2>3, <2>4 DEF StartedFrom, RowSound
  <2>. QED  BY <1>3, <1>6, <1>8, <2>1, <2>5
<1>27. ASSUME NEW call \in calls, NEW b \in BOOLEAN, Fails(call, b) PROVE ShownInv'
  <2>1. PICK given : given = [[call EXCEPT !.waits = FALSE] EXCEPT !.mine = FALSE, !.typed = FALSE]
    OBVIOUS
  <2>2. calls' \subseteq calls \cup {given} /\ editing' = editing /\ known' = known
    BY <1>27, <2>1 DEF Fails, Unmounted
  <2>3. CallStarted(given)'
    BY <1>0, <1>1, <2>1, CallRewritten
  <2>4. \A c \in calls' : CallStarted(c)'
    BY <1>5, <2>2, <2>3
  <2>. QED  BY <1>3, <1>4, <1>8, <2>2, <2>4
<1>28. ASSUME NEW call \in calls, NEW b \in BOOLEAN, FolderDone(call, b) PROVE ShownInv'
  BY <1>3, <1>4, <1>6, <1>8, <1>28 DEF FolderDone, Synced, screenVars
<1>29. ASSUME Next PROVE ShownInv'
  <2>1. ASSUME NEW i \in Items,
               \/ SelectItem(i) \/ SelectUnreadable(i)
               \/ \E b \in BOOLEAN : OtherDeviceUpdates(i, b)
        PROVE  ShownInv'
    BY <1>9, <1>18, <1>19, <2>1
  <2>2. ASSUME NEW call \in calls,
               \/ ServeUpdate(call) \/ ServeDelete(call) \/ ServeFolder(call) \/ Settle(call)
               \/ \E i \in Items : ServeCreate(call, i)
        PROVE  ShownInv'
    BY <1>22, <1>23, <1>24, <1>25, <1>26, <1>27, <1>28, <2>2 DEF Settle
  <2>3. CASE \/ \E c \in Collections \cup {Personal}, f \in Folders \cup {NoFolder} :
                   Pick([coll |-> c, folder |-> f])
             \/ \E f \in Folders, op \in FolderOps : FolderOp(op, f)
             \/ Resync \/ Back \/ AddItem \/ Type \/ Cancel \/ SwitchTab \/ Save \/ Delete
    BY <1>10, <1>11, <1>13, <1>14, <1>15, <1>16, <1>17, <1>20, <2>3
  <2>. QED  BY <1>29, <2>1, <2>2, <2>3 DEF Next
<1>. QED  BY <1>16, <1>29

\* "instead of conflicting forever": a save replaces the version it was made on, or
\* one the user has been shown since, whatever is awaited and however calls, other
\* devices and resyncs interleave; the exception is a version this device cannot
\* decrypt, which the editor adopts without showing it.
THEOREM OnlyWhatWasShownIsReplaced == Spec => NoSilentOverwrite
<1>. DEFINE Shows(call) == ServeUpdate(call) /\ item' # item
                              => <<call.id, item[call.id].rev>> \in seen \/ ~item[call.id].read
            EveryShows == \A call \in calls : Shows(call)
<1>1. ASSUME VaultTabInv, ShownInv PROVE EveryShows
  <2>. SUFFICES ASSUME NEW call \in calls, ServeUpdate(call), item' # item
                PROVE  <<call.id, item[call.id].rev>> \in seen \/ ~item[call.id].read
    OBVIOUS
  <2>1. /\ call.op = "save" /\ call.at = "sent" /\ call.id \in Items /\ item[call.id].rev > 0
        /\ item[call.id].rev = call.from.rev
    BY DEF ServeUpdate
  <2>2. call.id = call.from.id /\ StartedFrom(call.from)
    BY <1>1, <2>1 DEF VaultTabInv, CallsInv, CallInv, ShownInv, CallStarted
  <2>. QED  BY <2>1, <2>2 DEF StartedFrom
<1>2. VaultTabInv /\ ShownInv /\ [Next]_vars => [EveryShows]_vars
  BY <1>1
<1>. QED
  BY <1>2, VaultTabInit, VaultTabStep, ShownInit, ShownStep, PTL DEF Spec, NoSilentOverwrite
=============================================================================
