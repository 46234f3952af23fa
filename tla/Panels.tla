------------------------------- MODULE Panels --------------------------------
(***************************************************************************)
(* The Admin and the Collections tab of an administrator who also manages  *)
(* collections: useAdminPanel, useCollectionsPanel, their screens, and     *)
(* what of the server they act on.                                         *)
(*                                                                         *)
(* The state of a hook lives as long as the vault is open; the state of a  *)
(* screen (a revealed invite, a busy form) as long as its tab is shown.    *)
(* Both panels are loaded once, on the first visit that gets an answer,    *)
(* and from then on follow the answers of their own calls.                 *)
(***************************************************************************)
EXTENDS Naturals, FiniteSets, Sequences

CONSTANTS
    Users,          \* the accounts other than the administrator's
    Enrolled,       \* those set up before the tab was opened
    Collections,
    Held,           \* collections whose key this device holds
    Requested,      \* grants pending at the start, <<collection, user>>
    NoUser, NoColl,
    AuditLog,       \* server: entries [id, createdAt], newest first
    AuditPageSize,
    MaxOps,         \* bound on calls started
    MaxInvites      \* bound on invites issued

ASSUME PanelsAssumption ==
    /\ Enrolled \subseteq Users /\ Held \subseteq Collections
    /\ Requested \subseteq Collections \X Users
    /\ NoUser \notin Users /\ NoColl \notin Collections
    /\ {MaxOps, MaxInvites, AuditPageSize} \subseteq Nat

Tabs == {"vault", "admin", "collections"}
Statuses == {"absent", "pending", "active", "disabled", "deleted"}
NoRow == [st |-> "absent", hasInvite |-> FALSE]
Unsealed == [to |-> NoUser, key |-> 0]
NoReveal == [user |-> NoUser, invite |-> 0]
NoMembers == [of |-> NoColl, list |-> {}]

VARIABLES
    account,        \* server: status, live invites, key pair, key pairs so far
    sealed,         \* server: the blob of every membership
    grants,         \* server: pending grants
    invites,        \* server: invites issued
    calls, ops,     \* calls under way; calls started
    tab,            \* VaultScreen: the tab shown
    users, adminLoaded,                             \* useAdminPanel
    reveal,                                         \* AdminScreen
    audit,                                          \* useAdminPanel: entries shown
    directory, pending, panelLoaded, selected, members,  \* useCollectionsPanel
    heard, handed,  \* invites answered; invites handed over
    fulfilled,      \* grants this device has fulfilled
    overtaken,      \* accounts a list was put in the table without, created since it was read
    crossed         \* the open collection was opened while another's members were on their way

serverVars == <<account, sealed, grants, invites>>
adminVars == <<users, adminLoaded, reveal, audit>>
panelVars == <<directory, pending, panelLoaded, selected, members>>
ghosts == <<heard, handed, fulfilled, overtaken, crossed>>
vars == <<serverVars, calls, ops, tab, adminVars, panelVars, ghosts>>

Init ==
    /\ account = [u \in Users |->
           [st |-> IF u \in Enrolled THEN "active" ELSE "absent", invites |-> {},
            key |-> IF u \in Enrolled THEN 1 ELSE 0,
            pairs |-> IF u \in Enrolled THEN 1 ELSE 0]]
    /\ sealed = [c \in Collections |-> [u \in Users |-> Unsealed]]
    /\ grants = Requested /\ invites = 0
    /\ calls = {} /\ ops = 0 /\ tab = "vault"
    /\ users = [u \in Users |-> NoRow] /\ adminLoaded = FALSE
    /\ reveal = NoReveal /\ audit = <<>>
    /\ directory = [u \in Users |-> 0] /\ pending = {} /\ panelLoaded = FALSE
    /\ selected = NoColl /\ members = NoMembers
    /\ heard = {} /\ handed = {} /\ fulfilled = {} /\ overtaken = {} /\ crossed = FALSE

-----------------------------------------------------------------------------
(***************************************************************************)
(* What the server answers.                                                *)
(***************************************************************************)
Exists(u) == account[u].st \notin {"absent", "deleted"}
ListUsers == [u \in Users |-> IF Exists(u)
                              THEN [st |-> account[u].st,
                                    hasInvite |-> account[u].invites # {}]
                              ELSE NoRow]
Directory == [u \in Users |-> IF account[u].st = "active" THEN account[u].key ELSE 0]
MembersOf(c) == {u \in Users : sealed[c][u] # Unsealed}

\* AuditPage takes the id of the last entry the caller has, "" for none; an
\* id that is not in the log has nothing before it.
AuditPage(before) ==
    LET known == {i \in DOMAIN AuditLog : AuditLog[i].id = before}
        from == IF before = "" THEN 1 ELSE (CHOOSE i \in known : TRUE) + 1
        to == from + AuditPageSize - 1
    IN  IF before # "" /\ known = {} THEN <<>>
        ELSE SubSeq(AuditLog, from, IF to > Len(AuditLog) THEN Len(AuditLog) ELSE to)

-----------------------------------------------------------------------------
(***************************************************************************)
(* Calls.  "form": the screen that made it is shown; "hook": only the hook *)
(* is left; "nobody": cancelled, or given up by fetch.                     *)
(***************************************************************************)
Loads == {"load-admin", "load-panel"}
Reads == Loads \cup {"select", "audit"}
AdminOps == {"create", "reissue", "status", "reset", "delete", "audit"}
TabOf(op) == IF op \in AdminOps \cup {"load-admin"} THEN "admin" ELSE "collections"

Call(op, u, c) ==
    [n |-> ops + 1, op |-> op, user |-> u, coll |-> c, at |-> "sent",
     waits |-> "form", status |-> "absent", blob |-> Unsealed, relist |-> FALSE,
     invite |-> 0, rows |-> [v \in Users |-> NoRow],
     dir |-> [v \in Users |-> 0], grants |-> {}, list |-> {}, page |-> <<>>]

Busy == \E c \in calls : c.waits # "nobody"
Send(call) ==
    /\ ops < MaxOps
    /\ calls' = calls \cup {call} /\ ops' = ops + 1
\* Confirm closes on its own answer: what was confirmed once may be asked again.
Confirmed(call) == Send(call)
Waiting(op, u) == \E c \in calls : c.op = op /\ c.user = u /\ c.waits = "form"

Serving(call, op) == call.op = op /\ call.at = "sent"
Becomes(call, new) == (calls \ {call}) \cup {new}
\* An answer nobody waits for goes nowhere.
Serve(call, new) ==
    calls' = IF call.waits = "nobody" /\ call.op \notin Loads THEN calls \ {call}
             ELSE Becomes(call, new)
Answered(call, op) == call.op = op /\ call.at = "served" /\ call.waits # "nobody"
Ended(call) == calls' = calls \ {call}

\* A missing account, a used grant, no such member, a reference, a limit.
Refuse(call) ==
    /\ call.at = "sent"
    /\ calls' = calls \ {call}
    /\ members' = IF call.op = "select" /\ call.waits # "nobody" THEN NoMembers
                  ELSE members
    /\ UNCHANGED <<serverVars, ops, tab, adminVars, directory, pending, panelLoaded,
                   selected, ghosts>>

\* fetch throws, before the server has the request, while it is on its way,
\* or with the answer on its way back.
Fails(call, delivered) ==
    /\ call.at \in {"sent", "served"} /\ call.waits # "nobody"
    /\ delivered => call.at = "sent" /\ call.op \notin Reads
    /\ calls' = IF delivered THEN Becomes(call, [call EXCEPT !.waits = "nobody"])
                ELSE calls \ {call}
    /\ members' = IF call.op = "select" THEN NoMembers ELSE members
    /\ UNCHANGED <<serverVars, ops, tab, adminVars, directory, pending, panelLoaded,
                   selected, ghosts>>

-----------------------------------------------------------------------------
(***************************************************************************)
(* The tab strip: a screen that is left is unmounted, a load under way is  *)
(* cancelled, and a panel not loaded yet is loaded when its tab is shown.  *)
(***************************************************************************)
Unmounted(c) ==
    IF TabOf(c.op) # tab \/ c.waits = "nobody" THEN c
    ELSE [c EXCEPT !.waits = IF c.op \in Loads THEN "nobody" ELSE "hook"]
NeedsLoad(t) == (t = "admin" /\ ~adminLoaded) \/ (t = "collections" /\ ~panelLoaded)
OpenTab(t) ==
    /\ t # tab /\ (NeedsLoad(t) => ops < MaxOps)
    /\ tab' = t /\ reveal' = NoReveal
    /\ LET load == Call(IF t = "admin" THEN "load-admin" ELSE "load-panel", NoUser, NoColl)
       IN  calls' = {Unmounted(c) : c \in calls} \cup (IF NeedsLoad(t) THEN {load} ELSE {})
    /\ ops' = IF NeedsLoad(t) THEN ops + 1 ELSE ops
    /\ UNCHANGED <<serverVars, users, adminLoaded, audit, panelVars, ghosts>>

-----------------------------------------------------------------------------
(***************************************************************************)
(* The Admin tab.                                                          *)
(***************************************************************************)
ServeAdminLoad(call) ==
    /\ Serving(call, "load-admin")
    /\ Serve(call, [call EXCEPT !.at = "served", !.rows = ListUsers, !.page = AuditPage("")])
    /\ UNCHANGED <<serverVars, ops, tab, adminVars, panelVars, ghosts>>

\* setUsers takes the list as the server gave it, however old.
ListShown(call) ==
    /\ users' = call.rows
    /\ overtaken' = overtaken \cup {u \in Users : Exists(u) /\ call.rows[u] = NoRow}

AdminLoaded(call) ==
    /\ Answered(call, "load-admin")
    /\ ListShown(call) /\ audit' = call.page /\ adminLoaded' = TRUE
    /\ Ended(call)
    /\ UNCHANGED <<serverVars, ops, tab, reveal, panelVars, heard, handed, fulfilled, crossed>>

NewInvite == invites < MaxInvites /\ invites' = invites + 1
Issue(u, st) == [account EXCEPT ![u].st = st, ![u].invites = @ \cup {invites + 1}]

CreateUser(u) ==
    /\ tab = "admin" /\ account[u].st = "absent"
    /\ ~\E c \in calls : c.op = "create" /\ c.waits = "form"
    /\ Send(Call("create", u, NoColl))
    /\ UNCHANGED <<serverVars, tab, adminVars, panelVars, ghosts>>

ServeCreate(call) ==
    /\ Serving(call, "create") /\ account[call.user].st = "absent" /\ NewInvite
    /\ account' = Issue(call.user, "pending")
    /\ Serve(call, [call EXCEPT !.at = "served", !.invite = invites + 1])
    /\ UNCHANGED <<sealed, grants, ops, tab, adminVars, panelVars, ghosts>>

\* The screen's setReveal: one slot, gone with the screen.
Reveal(call) ==
    reveal' = IF call.waits = "form" THEN [user |-> call.user, invite |-> call.invite]
              ELSE reveal

\* [bug] the table waits for the next load to show the new account.
CreatedUnlisted(call) ==
    /\ Answered(call, "create")
    /\ Reveal(call)
    /\ heard' = heard \cup {call.invite}
    /\ Ended(call)
    /\ UNCHANGED <<serverVars, ops, tab, users, adminLoaded, audit, panelVars,
                   handed, fulfilled, overtaken, crossed>>

Created(call) ==
    /\ Answered(call, "create")
    /\ users' = [users EXCEPT ![call.user] = [st |-> "pending", hasInvite |-> TRUE]]
    /\ Reveal(call)
    /\ heard' = heard \cup {call.invite}
    /\ Ended(call)
    /\ UNCHANGED <<serverVars, ops, tab, adminLoaded, audit, panelVars, handed, fulfilled,
                   overtaken, crossed>>

\* The button is there while the row says an invite is pending.
ReissueInvite(u) ==
    /\ tab = "admin" /\ users[u].hasInvite /\ ~Waiting("reissue", u)
    /\ Send(Call("reissue", u, NoColl))
    /\ UNCHANGED <<serverVars, tab, adminVars, panelVars, ghosts>>

\* Earlier invites stay live.
ServeReissue(call) ==
    /\ Serving(call, "reissue") /\ account[call.user].st = "pending" /\ NewInvite
    /\ account' = Issue(call.user, "pending")
    /\ Serve(call, [call EXCEPT !.at = "served", !.invite = invites + 1])
    /\ UNCHANGED <<sealed, grants, ops, tab, adminVars, panelVars, ghosts>>

Reissued(call) ==
    /\ Answered(call, "reissue")
    /\ Reveal(call)
    /\ heard' = heard \cup {call.invite}
    /\ Ended(call)
    /\ UNCHANGED <<serverVars, ops, tab, users, adminLoaded, audit, panelVars,
                   handed, fulfilled, overtaken, crossed>>

\* Done: the link has been handed over.
DismissInvite ==
    /\ reveal # NoReveal
    /\ handed' = handed \cup {reveal.invite}
    /\ reveal' = NoReveal
    /\ UNCHANGED <<serverVars, calls, ops, tab, users, adminLoaded, audit, panelVars,
                   heard, fulfilled, overtaken, crossed>>

\* Anything but "active" is offered to be activated.
ToggleStatus(u) ==
    /\ tab = "admin" /\ users[u] # NoRow /\ ~Waiting("status", u)
    /\ Send([Call("status", u, NoColl) EXCEPT
                !.status = IF users[u].st = "active" THEN "disabled" ELSE "active"])
    /\ UNCHANGED <<serverVars, tab, adminVars, panelVars, ghosts>>

ServeStatus(call) ==
    /\ Serving(call, "status") /\ Exists(call.user)
    /\ account' = [account EXCEPT ![call.user].st = call.status]
    /\ Serve(call, [call EXCEPT !.at = "served"])
    /\ UNCHANGED <<sealed, grants, invites, ops, tab, adminVars, panelVars, ghosts>>

\* The answer is not authoritative for the invite.
StatusSet(call) ==
    /\ Answered(call, "status")
    /\ users' = IF users[call.user] = NoRow THEN users
                ELSE [users EXCEPT ![call.user].st = call.status]
    /\ Ended(call)
    /\ UNCHANGED <<serverVars, ops, tab, adminLoaded, reveal, audit, panelVars, ghosts>>

ResetUser(u) ==
    /\ tab = "admin" /\ users[u] # NoRow
    /\ Confirmed(Call("reset", u, NoColl))
    /\ UNCHANGED <<serverVars, tab, adminVars, panelVars, ghosts>>

Forgotten(u) ==
    /\ sealed' = [c \in Collections |-> [sealed[c] EXCEPT ![u] = Unsealed]]
    /\ grants' = {g \in grants : g[2] # u}

ServeReset(call) ==
    /\ Serving(call, "reset") /\ Exists(call.user) /\ NewInvite
    /\ account' = [Issue(call.user, "pending") EXCEPT ![call.user].key = 0]
    /\ Forgotten(call.user)
    /\ Serve(call, [call EXCEPT !.at = "served", !.invite = invites + 1])
    /\ UNCHANGED <<ops, tab, adminVars, panelVars, ghosts>>

\* The answer has the invite; the table is fetched again before it is shown.
ResetAnswered(call) ==
    /\ Answered(call, "reset")
    /\ calls' = Becomes(call, [call EXCEPT !.at = "listing"])
    /\ heard' = heard \cup {call.invite}
    /\ UNCHANGED <<serverVars, ops, tab, adminVars, panelVars, handed, fulfilled,
                   overtaken, crossed>>

ServeUsers(call) ==
    /\ call.op = "reset" /\ call.at = "listing"
    /\ calls' = Becomes(call, [call EXCEPT !.at = "listed", !.rows = ListUsers])
    /\ UNCHANGED <<serverVars, ops, tab, adminVars, panelVars, ghosts>>

\* [bug] a refetch that fails rejects, and the invite goes with it.
ResetDoneIfListed(call, listed) ==
    /\ call.op = "reset" /\ call.at \in {"listing", "listed"}
    /\ listed => call.at = "listed"
    /\ IF listed THEN ListShown(call) /\ Reveal(call) ELSE UNCHANGED <<users, reveal, overtaken>>
    /\ Ended(call)
    /\ UNCHANGED <<serverVars, ops, tab, adminLoaded, audit, panelVars, heard, handed,
                   fulfilled, crossed>>

\* Nothing after the answer may reject it.
ResetDone(call, listed) ==
    /\ call.op = "reset" /\ call.at \in {"listing", "listed"}
    /\ listed => call.at = "listed"
    /\ IF listed THEN ListShown(call) ELSE UNCHANGED <<users, overtaken>>
    /\ Reveal(call)
    /\ Ended(call)
    /\ UNCHANGED <<serverVars, ops, tab, adminLoaded, audit, panelVars, heard, handed,
                   fulfilled, crossed>>

DeleteUser(u) ==
    /\ tab = "admin" /\ users[u] # NoRow
    /\ Confirmed(Call("delete", u, NoColl))
    /\ UNCHANGED <<serverVars, tab, adminVars, panelVars, ghosts>>

ServeDelete(call) ==
    /\ Serving(call, "delete") /\ Exists(call.user)
    /\ account' = [account EXCEPT ![call.user] =
                      [@ EXCEPT !.st = "deleted", !.invites = {}, !.key = 0]]
    /\ Forgotten(call.user)
    /\ Serve(call, [call EXCEPT !.at = "served"])
    /\ UNCHANGED <<invites, ops, tab, adminVars, panelVars, ghosts>>

Deleted(call) ==
    /\ Answered(call, "delete")
    /\ users' = [users EXCEPT ![call.user] = NoRow]
    /\ Ended(call)
    /\ UNCHANGED <<serverVars, ops, tab, adminLoaded, reveal, audit, panelVars, ghosts>>

\* The boundary sent is the time of the oldest entry shown.
LoadOlder ==
    /\ tab = "admin" /\ audit # <<>> /\ ~Waiting("audit", NoUser)
    /\ Send([Call("audit", NoUser, NoColl) EXCEPT
                !.page = <<[id |-> audit[Len(audit)].createdAt, createdAt |-> ""]>>])
    /\ UNCHANGED <<serverVars, tab, adminVars, panelVars, ghosts>>

ServeAudit(call) ==
    /\ Serving(call, "audit")
    /\ Serve(call, [call EXCEPT !.at = "served", !.page = AuditPage(call.page[1].id)])
    /\ UNCHANGED <<serverVars, ops, tab, adminVars, panelVars, ghosts>>

OlderLoaded(call) ==
    /\ Answered(call, "audit")
    /\ audit' = audit \o call.page
    /\ Ended(call)
    /\ UNCHANGED <<serverVars, ops, tab, users, adminLoaded, reveal, panelVars, ghosts>>

-----------------------------------------------------------------------------
(***************************************************************************)
(* The Collections tab.                                                    *)
(***************************************************************************)
\* The two requests of the load, answered from one state: an administrator is
\* sent all pending grants, those of collections this device has no key of too.
ServePanelLoad(call) ==
    /\ Serving(call, "load-panel")
    /\ Serve(call, [call EXCEPT !.at = "served", !.dir = Directory, !.grants = grants])
    /\ UNCHANGED <<serverVars, ops, tab, adminVars, panelVars, ghosts>>

\* [bug] a cancelled load is applied all the same.
PanelLoadedAnyway(call) ==
    /\ call.op = "load-panel" /\ call.at = "served"
    /\ directory' = call.dir /\ pending' = call.grants /\ panelLoaded' = TRUE
    /\ Ended(call)
    /\ UNCHANGED <<serverVars, ops, tab, adminVars, selected, members, ghosts>>

PanelLoaded(call) ==
    /\ Answered(call, "load-panel")
    /\ directory' = call.dir /\ pending' = call.grants /\ panelLoaded' = TRUE
    /\ Ended(call)
    /\ UNCHANGED <<serverVars, ops, tab, adminVars, selected, members, ghosts>>

\* A list of members is on its way: asked for, or to be asked for once the
\* call is answered.
Brings(call) == call.waits # "nobody" /\ (call.op = "select" \/ call.relist)

\* The members of the collection left stay on the screen until the answer.
SelectCollection(c) ==
    /\ tab = "collections" /\ selected # c
    /\ selected' = c
    /\ Send(Call("select", NoUser, c))
    /\ crossed' = \E k \in calls : Brings(k) /\ k.coll # c
    /\ UNCHANGED <<serverVars, tab, adminVars, directory, pending, panelLoaded, members,
                   heard, handed, fulfilled, overtaken>>

CollapseCollection ==
    /\ tab = "collections" /\ selected # NoColl
    /\ selected' = NoColl /\ members' = NoMembers
    /\ UNCHANGED <<serverVars, calls, ops, tab, adminVars, directory, pending,
                   panelLoaded, ghosts>>

ServeMembers(call) ==
    /\ \/ call.op = "select" /\ call.at = "sent"
       \/ call.op \in {"fulfil", "add"} /\ call.at = "listing"
    /\ calls' = Becomes(call, [call EXCEPT !.list = MembersOf(call.coll),
                    !.at = IF call.op = "select" THEN "served" ELSE "listed"])
    /\ UNCHANGED <<serverVars, ops, tab, adminVars, panelVars, ghosts>>

Selected(call) ==
    /\ Answered(call, "select")
    /\ members' = [of |-> call.coll, list |-> call.list]
    /\ Ended(call)
    /\ UNCHANGED <<serverVars, ops, tab, adminVars, directory, pending, panelLoaded,
                   selected, ghosts>>

SealTo(u) == [to |-> u, key |-> directory[u]]

\* directory.find: the entry of the user the grant is for, if there is one.
RecipientsOf(u) == {v \in Users : v = u /\ directory[v] # 0}

\* Without the collection's key fulfilGrant throws before any request: the row
\* shows the error and nothing else changes.
FulfilGrant(g, recipient) ==
    /\ tab = "collections" /\ g \in pending /\ g[1] \in Held
    /\ recipient \in RecipientsOf(g[2])
    /\ ~\E c \in calls : c.op = "fulfil" /\ c.user = g[2] /\ c.coll = g[1] /\ c.waits = "form"
    /\ Send([Call("fulfil", g[2], g[1]) EXCEPT !.blob = SealTo(recipient),
                                               !.relist = selected = g[1]])
    /\ UNCHANGED <<serverVars, tab, adminVars, panelVars, ghosts>>

\* The blob is stored against the user of the grant, whatever it contains.
ServeFulfil(call) ==
    /\ Serving(call, "fulfil") /\ <<call.coll, call.user>> \in grants
    /\ sealed' = [sealed EXCEPT ![call.coll][call.user] = call.blob]
    /\ grants' = grants \ {<<call.coll, call.user>>}
    /\ Serve(call, [call EXCEPT !.at = "served"])
    /\ UNCHANGED <<account, invites, ops, tab, adminVars, panelVars, ghosts>>

\* What the answer sets off: the list of members, if the collection was open
\* when the call was made.
ThenRelist(call, relist) ==
    calls' = IF relist THEN Becomes(call, [call EXCEPT !.at = "listing"]) ELSE calls \ {call}

Fulfilled(call) ==
    /\ Answered(call, "fulfil")
    /\ pending' = pending \ {<<call.coll, call.user>>}
    /\ fulfilled' = fulfilled \cup {<<call.coll, call.user>>}
    /\ ThenRelist(call, call.relist)
    /\ UNCHANGED <<serverVars, ops, tab, adminVars, directory, panelLoaded, selected,
                   members, heard, handed, overtaken, crossed>>

\* With the key the member is added at once, without it a grant is asked for.
AddMember(c, u) ==
    /\ tab = "collections" /\ selected = c /\ directory[u] # 0
    /\ ~\E k \in calls : k.op = "add" /\ k.waits = "form"
    /\ Send([Call("add", u, c) EXCEPT !.blob = IF c \in Held THEN SealTo(u) ELSE Unsealed,
                                      !.relist = c \in Held])
    /\ UNCHANGED <<serverVars, tab, adminVars, panelVars, ghosts>>

ServeAdd(call) ==
    /\ Serving(call, "add") /\ account[call.user].st = "active"
    /\ IF call.blob = Unsealed
       THEN /\ grants' = grants \cup {<<call.coll, call.user>>}
            /\ UNCHANGED sealed
       ELSE /\ sealed' = [sealed EXCEPT ![call.coll][call.user] = call.blob]
            /\ UNCHANGED grants
    /\ Serve(call, [call EXCEPT !.at = "served"])
    /\ UNCHANGED <<account, invites, ops, tab, adminVars, panelVars, ghosts>>

Added(call) ==
    /\ Answered(call, "add")
    /\ ThenRelist(call, call.relist)
    /\ UNCHANGED <<serverVars, ops, tab, adminVars, panelVars, ghosts>>

\* A failed refresh is not a failed addition.
Relisted(call, listed) ==
    /\ call.op \in {"fulfil", "add"} /\ call.at \in {"listing", "listed"}
    /\ listed => call.at = "listed"
    /\ members' = IF listed THEN [of |-> call.coll, list |-> call.list] ELSE members
    /\ Ended(call)
    /\ UNCHANGED <<serverVars, ops, tab, adminVars, directory, pending, panelLoaded,
                   selected, ghosts>>

RemoveMember(u) ==
    /\ tab = "collections" /\ selected # NoColl /\ u \in members.list
    /\ Confirmed(Call("remove", u, selected))
    /\ UNCHANGED <<serverVars, tab, adminVars, panelVars, ghosts>>

ServeRemove(call) ==
    /\ Serving(call, "remove") /\ call.user \in MembersOf(call.coll)
    /\ sealed' = [sealed EXCEPT ![call.coll][call.user] = Unsealed]
    /\ Serve(call, [call EXCEPT !.at = "served"])
    /\ UNCHANGED <<account, grants, invites, ops, tab, adminVars, panelVars, ghosts>>

Removed(call) ==
    /\ Answered(call, "remove")
    /\ members' = [members EXCEPT !.list = @ \ {call.user}]
    /\ Ended(call)
    /\ UNCHANGED <<serverVars, ops, tab, adminVars, directory, pending, panelLoaded,
                   selected, ghosts>>

-----------------------------------------------------------------------------
\* The user of an account uses a link that was handed over.
Enrol(u) ==
    /\ account[u].st = "pending"
    /\ \E i \in account[u].invites \cap handed :
           account' = [account EXCEPT ![u] =
               [st |-> "active", invites |-> account[u].invites \ {i},
                key |-> account[u].pairs + 1, pairs |-> account[u].pairs + 1]]
    /\ UNCHANGED <<sealed, grants, invites, calls, ops, tab, adminVars, panelVars, ghosts>>

UserStep ==
    \/ \E t \in Tabs : OpenTab(t)
    \/ \E u \in Users : CreateUser(u) \/ ReissueInvite(u) \/ ToggleStatus(u)
                        \/ ResetUser(u) \/ DeleteUser(u) \/ RemoveMember(u) \/ Enrol(u)
    \/ DismissInvite \/ LoadOlder \/ CollapseCollection
    \/ \E c \in Collections : SelectCollection(c) \/ \E u \in Users : AddMember(c, u)
    \/ \E g \in pending, v \in Users : FulfilGrant(g, v)

ServerStep(call) ==
    \/ ServeAdminLoad(call) \/ ServeCreate(call) \/ ServeReissue(call)
    \/ ServeStatus(call) \/ ServeReset(call) \/ ServeUsers(call) \/ ServeDelete(call)
    \/ ServeAudit(call) \/ ServePanelLoad(call) \/ ServeMembers(call)
    \/ ServeFulfil(call) \/ ServeAdd(call) \/ ServeRemove(call) \/ Refuse(call)

Settle(call) ==
    \/ AdminLoaded(call) \/ Created(call) \/ Reissued(call) \/ StatusSet(call)
    \/ ResetAnswered(call) \/ Deleted(call) \/ OlderLoaded(call)
    \/ PanelLoaded(call) \/ Selected(call) \/ Fulfilled(call) \/ Added(call)
    \/ Removed(call)
    \/ \E b \in BOOLEAN : ResetDone(call, b) \/ Relisted(call, b) \/ Fails(call, b)

Next == UserStep \/ \E call \in calls : ServerStep(call) \/ Settle(call)

\* Every request of fetch ends.
Spec == Init /\ [][Next]_vars /\ WF_vars(\E call \in calls : Settle(call))

-----------------------------------------------------------------------------
(***************************************************************************)
(* Properties.                                                             *)
(***************************************************************************)
\* The tables, the calls and the panels are what the code can hold; a revealed
\* invite is on the Admin tab.
TypeOK ==
    /\ \A u \in Users : account[u].st \in Statuses /\ account[u].key <= account[u].pairs
    /\ \A call \in calls : call.at \in {"sent", "served", "listing", "listed"}
    /\ users \in [Users -> [st : Statuses, hasInvite : BOOLEAN]]
    /\ tab \in Tabs /\ (reveal # NoReveal => tab = "admin")
    /\ selected \in Collections \cup {NoColl} /\ members.list \subseteq Users
    /\ pending \subseteq Collections \X Users /\ fulfilled \subseteq Held \X Users
    /\ directory \in [Users -> Nat] /\ overtaken \subseteq Users /\ crossed \in BOOLEAN

InHand(invite) ==
    \/ invite \in handed \cup {reveal.invite}
    \/ \E c \in calls : c.invite = invite /\ c.waits = "form"

\* "It cannot be shown again -- reissue a new one if it is lost": an account
\* that waits to be set up, whose invite the console has been given, has the
\* invite in the administrator's hands or a row to get another from, unless a
\* list that was read before it was created was put in the table after.
StrandedAccountsStayListed ==
    \A u \in Users \ overtaken :
        account[u].st = "pending" /\ account[u].invites \cap heard # {} =>
            users[u] # NoRow \/ \E i \in account[u].invites : InHand(i)

\* The same without the exception, which the code does not keep: a list is put
\* in the table whatever was created while it was on its way.
NoAccountIsStranded ==
    \A u \in Users : account[u].st = "pending" /\ account[u].invites \cap heard # {} =>
        users[u] # NoRow \/ \E i \in account[u].invites : InHand(i)

\* A grant this device has fulfilled is not offered again by a load that was
\* under way.
NotOfferedAgain == pending \cap fulfilled = {}

\* "the intended member gets a membership whose key they can never open":
\* a membership holds a key sealed to the member.
SealedToTheMember ==
    \A c \in Collections, u \in Users : sealed[c][u].to \in {u, NoUser}

\* With nothing under way, the members shown under a collection were read from
\* that collection, unless it was opened while the members of another were on
\* their way.
PanelShowsItsCollection ==
    ~crossed /\ ~Busy /\ selected # NoColl /\ members.list # {} => members.of = selected

\* The same without the exception, which the code does not keep: an answer is
\* shown under whatever collection is open when it arrives.
MembersAreOfTheOpenCollection ==
    ~Busy /\ selected # NoColl /\ members.list # {} => members.of = selected

\* The invariant of the sharing panel: what it offers is outstanding, what it
\* seals is the member's, what it shows is the collection's.
SharingInv == TypeOK /\ NotOfferedAgain /\ SealedToTheMember /\ PanelShowsItsCollection

\* "the one-time invite must not be lost": the invite of a call whose screen
\* stays is shown.
InviteIsShown ==
    \A i \in 1 .. MaxInvites :
        (\E c \in calls : c.at = "listing" /\ c.invite = i /\ c.waits = "form")
            ~> (reveal.invite = i \/ tab # "admin")

\* "nothing anywhere reports it": the key of a membership this device granted
\* opens with the key pair the member has.
GrantsCanBeOpened ==
    \A c \in Collections, u \in Users :
        account[u].st = "active" /\ sealed[c][u] # Unsealed => sealed[c][u].key = account[u].key

\* "beforeID is the id of the last entry the caller already has": loading
\* older entries shows older entries, when there are any.
OlderEntriesAreReached ==
    [][\A call \in calls : OlderLoaded(call) => Len(audit') > Len(audit) \/ Len(audit) = Len(AuditLog)]_vars
=============================================================================
