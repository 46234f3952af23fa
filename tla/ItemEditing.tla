----------------------------- MODULE ItemEditing -----------------------------
(***************************************************************************)
(* The Vault tab of one browser tab: the list, the editor (VaultScreen,    *)
(* ItemEditor) and the folders beside it (FolderSidebar, useFoldersPanel), *)
(* with another device writing to the same vault.                          *)
(*                                                                         *)
(* VaultScreen decides which item is edited; ItemEditor holds what was     *)
(* typed, and is a new form only when it is mounted anew.  A save or a     *)
(* deletion acts, when it is answered, on whatever is on the screen then;  *)
(* nothing makes the user wait for the answer.                             *)
(***************************************************************************)
EXTENDS Naturals, FiniteSets

CONSTANTS
    Items, Stored,      \* item ids, and those in the vault at the start
    Folders, Listed,    \* folder ids, and those there at the start
    Collections,
    NewItem, NoItem, NoFolder, Personal, AllItems,
    MaxOps,             \* bound on saves, deletions and folder operations
    MaxTexts,           \* bound on texts typed here
    MaxUpdates          \* bound on updates of the other device

ASSUME EditingAssumption ==
    /\ Stored \subseteq Items /\ Listed \subseteq Folders
    /\ {MaxOps, MaxTexts, MaxUpdates} \subseteq Nat
    /\ {NewItem, NoItem} \cap Items = {} /\ NewItem # NoItem
    /\ NoFolder \notin Folders /\ Personal \notin Collections \cup Folders
    /\ AllItems \notin Folders \cup {Personal}

VARIABLES
    item, folder,   \* server: the rows, by id
    calls, ops,
    texts, updates, \* texts typed here, and updates of the other device, so far
    tab,            \* the Vault tab is shown
    notice,         \* VaultScreen: undecryptable, shown instead of list and editor
    known, folders, \* store: items and folders
    editing,        \* VaultScreen: the item edited, as it was opened
    conflict,       \* VaultScreen: the text of the server, after a conflict
    picked,         \* VaultScreen: editorCollectionId and editorFolderId
    form,           \* ItemEditor
    seen,           \* history: the versions the user has been shown
    displaced       \* history: a conflict put another item under the mounted form

serverVars == <<item, folder>>
screenVars == <<tab, notice, editing, conflict, picked, form>>
history == <<seen, displaced>>
vars == <<serverVars, calls, ops, texts, updates, known, folders, screenVars, history>>

\* A text is known by the editor it was typed in, or the item it is stored under.
\* "read" says whether this device can decrypt the row: its plaintext is not null.
NoText == [in |-> NoItem, v |-> 0]
Absent == [rev |-> 0, text |-> NoText, coll |-> Personal, folder |-> NoFolder, read |-> TRUE]
NotEditing == [id |-> NoItem, rev |-> 0, text |-> NoText]
Blank == [id |-> NewItem, rev |-> 0, text |-> [in |-> NewItem, v |-> 0]]
NoForm == [item |-> NoItem, text |-> NoText, busy |-> FALSE, dirty |-> FALSE]
Mount(e) == [item |-> e.id, text |-> e.text, busy |-> FALSE, dirty |-> FALSE]
Unpicked == [coll |-> Personal, folder |-> NoFolder]

Init ==
    /\ item = [i \in Items |->
           IF i \in Stored THEN [Absent EXCEPT !.rev = 1, !.text = [in |-> i, v |-> 0]]
           ELSE Absent]
    /\ folder = [f \in Folders |-> IF f \in Listed THEN "live" ELSE "unused"]
    /\ folders = Listed
    /\ calls = {} /\ ops = 0 /\ texts = 0 /\ updates = 0
    /\ tab = TRUE /\ known = item
    /\ editing = NotEditing /\ conflict = NoText /\ picked = Unpicked
    /\ form = NoForm /\ notice = FALSE
    /\ seen = {} /\ displaced = FALSE

-----------------------------------------------------------------------------
(***************************************************************************)
(* The other device, and what this one learns of it.                       *)
(***************************************************************************)
\* Under a key this device may lack: the row is then one it cannot decrypt.
OtherDeviceUpdates(i, readable) ==
    /\ item[i].rev > 0 /\ updates < MaxUpdates
    /\ updates' = updates + 1
    /\ item' = [item EXCEPT ![i].rev = @ + 1, ![i].read = readable,
                            ![i].text = [in |-> i, v |-> MaxTexts + updates + 1]]
    /\ UNCHANGED <<folder, calls, ops, texts, known, folders, screenVars, history>>

\* On focus, and after every folder operation: the editor is left as it is.
Synced == known' = item /\ folders' = {f \in Folders : folder[f] = "live"}
Resync ==
    /\ Synced
    /\ UNCHANGED <<serverVars, calls, ops, texts, updates, screenVars, history>>

-----------------------------------------------------------------------------
(***************************************************************************)
(* The list and the editor.                                                *)
(***************************************************************************)
\* filterByFolder: an item whose folder is gone, or whose plaintext is null, is
\* under Personal.
FolderOf(row) == IF row.read THEN row.folder ELSE NoFolder
FilterByFolder(filter) ==
    {i \in Items : known[i].rev > 0 /\
        \/ filter = AllItems
        \/ filter = Personal /\ FolderOf(known[i]) \notin folders
        \/ filter \in Folders /\ FolderOf(known[i]) = filter}

FolderOps == {"create-folder", "rename-folder", "delete-folder"}
\* Without an editor, and without the notice, the tab shows the list.
ListShown == tab /\ ~notice /\ editing = NotEditing

\* [bug] the list stays beside the editor, and the form that is mounted stays.
OpenBesideTheList(e, p) ==
    /\ tab /\ ~notice
    /\ editing' = e /\ picked' = p /\ conflict' = NoText
    /\ form' = IF form = NoForm THEN Mount(e) ELSE form
    /\ displaced' = FALSE

\* The list is not shown beside the editor: every opening mounts a new form.
Open(e, p) ==
    /\ ListShown
    /\ editing' = e /\ picked' = p /\ conflict' = NoText /\ form' = Mount(e)
    /\ displaced' = FALSE

SelectItem(i) ==
    /\ i \in FilterByFolder(AllItems) /\ known[i].read
    /\ Open([id |-> i, rev |-> known[i].rev, text |-> known[i].text],
            [coll |-> known[i].coll, folder |-> known[i].folder])
    /\ seen' = seen \cup {<<i, known[i].rev>>}
    /\ UNCHANGED <<serverVars, calls, ops, texts, updates, tab, notice, known, folders>>

\* A row this device could not decrypt never reaches the editor.
SelectUnreadable(i) ==
    /\ i \in FilterByFolder(AllItems) /\ ~known[i].read
    /\ ListShown
    /\ notice' = TRUE
    /\ UNCHANGED <<serverVars, calls, ops, texts, updates, tab, known, folders, editing,
                   conflict, picked, form, history>>

\* To the list, or to what a conflict has put in the editor meanwhile.
Back ==
    /\ tab /\ notice
    /\ notice' = FALSE
    /\ form' = IF editing = NotEditing THEN NoForm ELSE Mount(editing)
    /\ UNCHANGED <<serverVars, calls, ops, texts, updates, tab, known, folders, editing,
                   conflict, picked, history>>

AddItem ==
    /\ Open(Blank, Unpicked)
    /\ UNCHANGED <<serverVars, calls, ops, texts, updates, tab, notice, known, folders, seen>>

\* The fields stay editable while a save is under way.
Type ==
    /\ form # NoForm /\ texts < MaxTexts
    /\ texts' = texts + 1
    /\ form' = [form EXCEPT !.text = [in |-> form.item, v |-> texts + 1], !.dirty = TRUE]
    /\ calls' = {[c EXCEPT !.typed = c.mine] : c \in calls}
    /\ UNCHANGED <<serverVars, ops, updates, known, folders, tab, notice, editing,
                   conflict, picked, history>>

\* What the folder select offers; one that is gone shows as Personal.
Choices == folders \cup {NoFolder, picked.folder}
Pick(p) ==
    /\ form # NoForm /\ p # picked
    /\ p.folder \in Choices
    /\ picked' = p
    /\ UNCHANGED <<serverVars, calls, ops, texts, updates, known, folders, tab, notice,
                   editing, conflict, form, history>>

\* The form is unmounted; a call it made has no form to report to.
Unmounted(cs) == {[c EXCEPT !.mine = FALSE, !.typed = FALSE] : c \in cs}
Close(cs) ==
    /\ editing' = NotEditing /\ conflict' = NoText /\ form' = NoForm
    /\ calls' = Unmounted(cs) /\ displaced' = FALSE
Cancel ==
    /\ form # NoForm
    /\ Close(calls)
    /\ UNCHANGED <<serverVars, ops, texts, updates, tab, notice, known, folders,
                   picked, seen>>

\* Another tab unmounts the form; what is edited is kept.
SwitchTab ==
    /\ tab' = ~tab
    /\ form' = IF tab \/ notice \/ editing = NotEditing THEN NoForm ELSE Mount(editing)
    /\ calls' = Unmounted(calls) /\ displaced' = FALSE
    /\ UNCHANGED <<serverVars, ops, texts, updates, notice, known, folders, editing,
                   conflict, picked, seen>>

-----------------------------------------------------------------------------
(***************************************************************************)
(* Saving and deleting.                                                    *)
(***************************************************************************)
\* The orphan rule on write: a folder no longer listed is not saved.
FolderToSave == IF picked.folder \in folders THEN picked.folder ELSE NoFolder

\* A callback sees the screen as it was when it was made.
Call(op, i) ==
    [n |-> ops + 1, op |-> op, id |-> i, from |-> editing,
     text |-> form.text, coll |-> picked.coll, folder |-> FolderToSave,
     at |-> "sent", row |-> Absent, mine |-> TRUE, waits |-> TRUE,
     typed |-> FALSE, displaced |-> displaced]
Save ==
    /\ form # NoForm /\ ~form.busy /\ ops < MaxOps
    /\ ops' = ops + 1
    /\ calls' = calls \cup {Call("save", editing.id)}
    /\ form' = [form EXCEPT !.busy = TRUE]
    /\ UNCHANGED <<serverVars, texts, updates, known, folders, tab, notice, editing, conflict,
                   picked, history>>

\* The Delete button is not disabled by a save.
Delete ==
    /\ form # NoForm /\ editing.id \in Items /\ ops < MaxOps
    /\ ops' = ops + 1
    /\ calls' = calls \cup {Call("delete", editing.id)}
    /\ UNCHANGED <<serverVars, texts, updates, known, folders, screenVars, history>>

Served(call, new) ==
    calls' = (calls \ {call}) \cup (IF call.waits THEN {new} ELSE {})
Row(call, i, rev) ==
    [rev |-> rev, text |-> [call.text EXCEPT !.in = i],
     coll |-> call.coll, folder |-> call.folder, read |-> TRUE]

ServeCreate(call, i) ==
    /\ call.op = "save" /\ call.at = "sent" /\ call.id = NewItem
    /\ item[i] = Absent
    /\ item' = [item EXCEPT ![i] = Row(call, i, 1)]
    /\ Served(call, [call EXCEPT !.at = "done", !.row = Row(call, i, 1), !.id = i])
    /\ UNCHANGED <<folder, ops, texts, updates, known, folders, screenVars, history>>

ServeUpdate(call) ==
    /\ call.op = "save" /\ call.at = "sent" /\ call.id \in Items
    /\ item[call.id].rev > 0
    /\ LET current == item[call.id]
           next == Row(call, call.id, current.rev + 1)
       IN  IF current.rev = call.from.rev
           THEN /\ item' = [item EXCEPT ![call.id] = next]
                /\ Served(call, [call EXCEPT !.at = "done", !.row = next])
           ELSE /\ Served(call, [call EXCEPT !.at = "conflict", !.row = current])
                /\ UNCHANGED item
    /\ UNCHANGED <<folder, ops, texts, updates, known, folders, screenVars, history>>

Tombstone == [Absent EXCEPT !.text = [in |-> NoItem, v |-> 1]]
ServeDelete(call) ==
    /\ call.op = "delete" /\ call.at = "sent" /\ item[call.id].rev > 0
    /\ item' = [item EXCEPT ![call.id] = Tombstone]
    /\ Served(call, [call EXCEPT !.at = "done"])
    /\ UNCHANGED <<folder, ops, texts, updates, known, folders, screenVars, history>>

\* store.upsert or store.remove, and the editor closed, whichever is open.
Saved(call) ==
    /\ call.op \in {"save", "delete"} /\ call.at = "done"
    /\ known' = [known EXCEPT ![call.id] = IF call.op = "save" THEN call.row ELSE Absent]
    /\ Close(calls \ {call})
    /\ UNCHANGED <<serverVars, ops, texts, updates, tab, notice, folders, picked, seen>>

\* The editor on the item the call was about, at the revision that won.
Adopted(call) == [call.from EXCEPT !.rev = call.row.rev]
Remounted(call) == IF tab /\ ~notice THEN Mount(call.from) ELSE NoForm
\* A form that is mounted stays the form it is, and stops being busy if the
\* save was its own.
FormKept(call) ==
    IF form = NoForm THEN Remounted(call) ELSE [form EXCEPT !.busy = @ /\ ~call.mine]
Displaces(call) == form # NoForm /\ form.item # call.from.id

\* The text that won, when this device could decrypt it.
ShownWinner(call) ==
    IF call.row.read
    THEN conflict' = call.row.text /\ seen' = seen \cup {<<call.id, call.row.rev>>}
    ELSE conflict' = NoText /\ UNCHANGED seen

\* [bug] the winning revision is adopted and nobody is told.
ConflictUntold(call) ==
    /\ call.at = "conflict"
    /\ editing' = Adopted(call)
    /\ form' = FormKept(call) /\ displaced' = Displaces(call)
    /\ calls' = calls \ {call}
    /\ UNCHANGED <<serverVars, ops, texts, updates, tab, notice, known, folders, conflict,
                   picked, seen>>

\* [bug] the editor is opened anew, on the item as it was.
ConflictReopened(call) ==
    /\ call.at = "conflict"
    /\ editing' = Adopted(call) /\ ShownWinner(call)
    /\ form' = Remounted(call) /\ displaced' = FALSE
    /\ calls' = Unmounted(calls \ {call})
    /\ UNCHANGED <<serverVars, ops, texts, updates, tab, notice, known, folders, picked>>

\* The winning revision is adopted, readable or not, and what was typed kept.
Conflict(call) ==
    /\ call.at = "conflict"
    /\ editing' = Adopted(call) /\ ShownWinner(call)
    /\ form' = FormKept(call) /\ displaced' = Displaces(call)
    /\ calls' = calls \ {call}
    /\ UNCHANGED <<serverVars, ops, texts, updates, tab, notice, known, folders, picked>>

\* Refused, or lost: before the server has it, on the way, on the way back.
Fails(call, delivered) ==
    /\ call.waits /\ call.at # "conflict" /\ (delivered => call.at = "sent" /\ call.op \notin FolderOps)
    /\ calls' = (calls \ {call}) \cup
                (IF delivered THEN Unmounted({[call EXCEPT !.waits = FALSE]}) ELSE {})
    /\ form' = IF call.op = "save" /\ call.mine THEN [form EXCEPT !.busy = FALSE] ELSE form
    /\ UNCHANGED <<serverVars, ops, texts, updates, tab, notice, known, folders, editing,
                   conflict, picked, history>>

-----------------------------------------------------------------------------
(***************************************************************************)
(* Folders: act, then resync; the sidebar is beside the list only.         *)
(***************************************************************************)
FolderCall(op, f) ==
    [n |-> ops + 1, op |-> op, id |-> NoItem, from |-> NotEditing, text |-> NoText,
     coll |-> Personal, folder |-> f, at |-> "sent", row |-> Absent, mine |-> FALSE,
     waits |-> TRUE, typed |-> FALSE, displaced |-> FALSE]
FolderOp(op, f) ==
    /\ ListShown /\ ops < MaxOps
    /\ IF op = "create-folder" THEN folder[f] = "unused" ELSE f \in folders
    /\ ops' = ops + 1
    /\ calls' = calls \cup {FolderCall(op, f)}
    /\ UNCHANGED <<serverVars, texts, updates, known, folders, screenVars, history>>

ServeFolder(call) ==
    /\ call.op \in FolderOps /\ call.at = "sent"
    /\ IF call.op = "create-folder" THEN folder[call.folder] = "unused"
       ELSE folder[call.folder] = "live"
    /\ folder' = [folder EXCEPT ![call.folder] =
                     IF call.op = "delete-folder" THEN "deleted" ELSE "live"]
    /\ Served(call, [call EXCEPT !.at = "done"])
    /\ UNCHANGED <<item, ops, texts, updates, known, folders, screenVars, history>>

\* The resync may fail: the change then shows with the next one.
FolderDone(call, resynced) ==
    /\ call.op \in FolderOps /\ call.at = "done"
    /\ IF resynced THEN Synced ELSE UNCHANGED <<known, folders>>
    /\ calls' = calls \ {call}
    /\ UNCHANGED <<serverVars, ops, texts, updates, screenVars, history>>

-----------------------------------------------------------------------------
Settle(call) ==
    \/ Saved(call) \/ Conflict(call)
    \/ \E b \in BOOLEAN : Fails(call, b) \/ FolderDone(call, b)

Next ==
    \/ \E i \in Items :
           \/ SelectItem(i) \/ SelectUnreadable(i)
           \/ \E b \in BOOLEAN : OtherDeviceUpdates(i, b)
    \/ Resync \/ Back \/ AddItem \/ Type \/ Cancel \/ SwitchTab \/ Save \/ Delete
    \/ \E c \in Collections \cup {Personal}, f \in Folders \cup {NoFolder} :
           Pick([coll |-> c, folder |-> f])
    \/ \E f \in Folders, op \in FolderOps : FolderOp(op, f)
    \/ \E call \in calls :
           \/ ServeUpdate(call) \/ ServeDelete(call) \/ ServeFolder(call) \/ Settle(call)
           \/ \E i \in Items : ServeCreate(call, i)

\* Every request of fetch ends.
Spec == Init /\ [][Next]_vars /\ WF_vars(\E call \in calls : Settle(call))

-----------------------------------------------------------------------------
(***************************************************************************)
(* Properties.                                                             *)
(***************************************************************************)
Texts == [in : Items \cup {NewItem, NoItem}, v : 0 .. MaxTexts + MaxUpdates + 1]
Rows == [rev : Nat, text : Texts, coll : Collections \cup {Personal},
         folder : Folders \cup {NoFolder}, read : BOOLEAN]

\* The rows, the editor and its form are what the code can hold; there is a form
\* exactly when something is edited on the tab that is shown, without the notice.
TypeOK ==
    /\ item \in [Items -> Rows] /\ known \in [Items -> Rows]
    /\ folder \in [Folders -> {"unused", "live", "deleted"}] /\ folders \subseteq Folders
    /\ \A call \in calls : call.op \in {"save", "delete"} \cup FolderOps
                           /\ call.at \in {"sent", "done", "conflict"} /\ call.row \in Rows
    /\ editing \in [id : Items \cup {NewItem, NoItem}, rev : Nat, text : Texts]
    /\ conflict \in Texts /\ form.text \in Texts
    /\ form # NoForm <=> tab /\ ~notice /\ editing # NotEditing

\* "instead of conflicting forever": a save replaces a version the user has been
\* shown, or one this device cannot read, whose revision is adopted all the same.
NoSilentOverwrite ==
    [][\A call \in calls : ServeUpdate(call) /\ item' # item
            => <<call.id, item[call.id].rev>> \in seen \/ ~item[call.id].read]_vars

\* What the screen would have to promise, and does not: a retried save may
\* replace a version that was never on the screen.
NoUnseenOverwrite ==
    [][\A call \in calls : ServeUpdate(call) /\ item' # item
            => <<call.id, item[call.id].rev>> \in seen]_vars

\* "their edit is still right there to resubmit": what is sent for an item was
\* typed in the editor of that item, except from a form under which the late
\* conflict of a save of another item has put that other item.
SavesWhatWasTypedForIt ==
    \A call \in calls : call.op = "save" /\ ~call.displaced => call.text.in = call.from.id

\* Without the exception, which the code has.
EverySaveIsOfItsOwnText ==
    \A call \in calls : call.op = "save" => call.text.in = call.from.id

\* The user has typed on, or left the form, since the call was made.
Outrun(call) == call.typed \/ ~call.mine

\* "what the user typed is untouched by this": the user loses what was typed
\* to nothing but leaving the editor, to the answer of the save or deletion made
\* with that text in the form, or to the late answer of one they have outrun.
UnsavedTextIsKept ==
    [][form.dirty /\ form'.text # form.text =>
           Cancel \/ SwitchTab \/ Type
           \/ \E call \in calls : Saved(call) /\ (call.text = form.text \/ Outrun(call))]_vars

\* Without the late answers, which close whichever editor is open.
NoTypedTextIsLost ==
    [][form.dirty /\ form'.text # form.text =>
           Cancel \/ SwitchTab \/ Type
           \/ \E call \in calls : Saved(call) /\ call.text = form.text]_vars

\* "They stay in your vault and move to Personal": an item, readable or not, is
\* under Personal or under one folder of the sidebar, never under neither or both.
FoldersPartitionTheVault ==
    \A i \in Items : known[i].rev > 0 =>
        Cardinality({f \in folders \cup {Personal} : i \in FilterByFolder(f)}) = 1

\* The invariant of the vault screen: form, item and folder belong together.
EditingInv == TypeOK /\ SavesWhatWasTypedForIt /\ FoldersPartitionTheVault

\* A form does not stay busy, whatever is lost.
SaveEnds == form.busy ~> ~form.busy
=============================================================================
