---------------------------- MODULE PanelsProofs -----------------------------
(***************************************************************************)
(* Proofs about Panels, for any accounts, collections, grants and invites, *)
(* and an administrator who never waits for an answer: the sharing panel   *)
(* offers what is outstanding, seals to the member and shows the members   *)
(* of the open collection, and an account that waits to be set up keeps    *)
(* its row.  What an answer that comes late can still spoil is named by    *)
(* overtaken and crossed.                                                  *)
(***************************************************************************)
EXTENDS Panels, TLAPS

(***************************************************************************)
(* What a call is.                                                         *)
(***************************************************************************)
Rows == [st : Statuses, hasInvite : BOOLEAN]
Live(call) == call.waits # "nobody"
OfUser == {"create", "reissue", "status", "reset", "delete", "fulfil", "add", "remove"}
OfColl == {"select", "fulfil", "add", "remove"}
CallShape(call) ==
    /\ DOMAIN call = {"n", "op", "user", "coll", "at", "waits", "status", "blob", "relist",
                      "invite", "rows", "dir", "grants", "list", "page"}
    /\ call.at \in {"sent", "served", "listing", "listed"}
    /\ call.at \in {"listing", "listed"} =>
          Live(call) /\ (call.op = "reset" \/ (call.op \in {"fulfil", "add"} /\ call.relist))
    /\ call.op \in OfUser => call.user \in Users
    /\ call.op \in OfColl => call.coll \in Collections
    /\ call.op = "select" => Live(call)
    /\ call.op = "status" => call.status \in {"active", "disabled"}
    /\ call.op \in {"fulfil", "add"} =>
          /\ call.blob \in [to : {call.user, NoUser}, key : Nat]
          /\ call.coll \in Held <=> call.blob # Unsealed
    /\ call.op = "fulfil" => call.coll \in Held
    /\ call.rows \in [Users -> Rows] /\ call.dir \in [Users -> Nat]
    /\ call.grants \subseteq Collections \X Users /\ call.list \subseteq Users

LEMMA CallRewritten ==
    ASSUME NEW c, CallShape(c)
    PROVE  /\ CallShape([c EXCEPT !.at = "served"])
           /\ \A p : \A r \in [Users -> Rows] : CallShape([c EXCEPT !.at = "served", !.rows = r, !.page = p])
           /\ \A i : CallShape([c EXCEPT !.at = "served", !.invite = i])
           /\ \A p : CallShape([c EXCEPT !.at = "served", !.page = p])
           /\ \A d \in [Users -> Nat], g \in SUBSET (Collections \X Users) :
                 CallShape([c EXCEPT !.at = "served", !.dir = d, !.grants = g])
           /\ \A a \in {"served", "listed"}, l \in SUBSET Users :
                 a = "served" \/ c.at = "listing" => CallShape([c EXCEPT !.list = l, !.at = a])
           /\ \A r \in [Users -> Rows] :
                 c.at = "listing" => CallShape([c EXCEPT !.at = "listed", !.rows = r])
           /\ c.op # "select" /\ c.at \in {"sent", "served"}
                 => CallShape([c EXCEPT !.waits = "nobody"])
           /\ CallShape([c EXCEPT !.waits = "hook"])
           /\ Live(c) /\ (c.op = "reset" \/ (c.op \in {"fulfil", "add"} /\ c.relist))
                 => CallShape([c EXCEPT !.at = "listing"])
<1>. QED  BY DEF CallShape, Live

\* A call that is made has the shape of one.
LEMMA NewCallShape ==
    ASSUME NEW op, NEW u, NEW c, op \in OfUser => u \in Users, op \in OfColl => c \in Collections
    PROVE  /\ op \notin {"status", "fulfil", "add"} => CallShape(Call(op, u, c))
           /\ \A s \in {"active", "disabled"} :
                 op = "status" => CallShape([Call(op, u, c) EXCEPT !.status = s])
           /\ \A p : op = "audit" => CallShape([Call(op, u, c) EXCEPT !.page = p])
           /\ \A r : \A b \in [to : {u, NoUser}, key : Nat] :
                 /\ op \in {"fulfil", "add"} /\ (op = "fulfil" => c \in Held)
                 /\ c \in Held <=> b # Unsealed
                 => CallShape([Call(op, u, c) EXCEPT !.blob = b, !.relist = r])
<1>. QED  BY DEF CallShape, Call, Live, OfUser, OfColl, Rows, NoRow, Statuses

(***************************************************************************)
(* What the tables, the calls and the panels hold, and to whom a key is    *)
(* sealed, however many calls are under way.                               *)
(***************************************************************************)
Accounts == [st : Statuses, invites : SUBSET Nat, key : Nat, pairs : Nat]
Seals == [to : Users \cup {NoUser}, key : Nat]
AccountShape ==
    /\ invites \in Nat /\ account \in [Users -> Accounts]
    /\ \A u \in Users : account[u].key <= account[u].pairs
SealShape ==
    /\ sealed \in [Collections -> [Users -> Seals]] /\ SealedToTheMember
    /\ grants \subseteq Collections \X Users
ScreenShape ==
    /\ users \in [Users -> Rows] /\ tab \in Tabs /\ (reveal # NoReveal => tab = "admin")
    /\ selected \in Collections \cup {NoColl}
    /\ members \in [of : Collections \cup {NoColl}, list : SUBSET Users]
    /\ pending \subseteq Collections \X Users /\ directory \in [Users -> Nat]
CallFits(c) == CallShape(c) /\ (c.waits = "form" => TabOf(c.op) = tab)
SameKind(c, new) == new.op = c.op /\ new.waits \in {c.waits, "nobody"}
AnyAdminInv == AccountShape /\ SealShape /\ ScreenShape /\ \A c \in calls : CallFits(c)

\* The server's tables stay as they are.
LEMMA TablesRest ==
    ASSUME AccountShape, SealShape, UNCHANGED serverVars
    PROVE  AccountShape' /\ SealShape'
BY DEF AccountShape, SealShape, SealedToTheMember, serverVars

\* The panels stay as they are.
LEMMA PanelsRest ==
    ASSUME ScreenShape, UNCHANGED <<tab, adminVars, panelVars>>
    PROVE  ScreenShape'
BY DEF ScreenShape, adminVars, panelVars

\* A call is served, settled or made on the tab that is shown.
LEMMA CallsFit ==
    ASSUME \A c \in calls : CallFits(c), tab' = tab, NEW new, CallFits(new),
           calls' \subseteq calls \cup {new}
    PROVE  (\A c \in calls : CallFits(c))'
BY DEF CallFits, CallShape, Live

\* No call is made.
LEMMA CallsGo ==
    ASSUME \A c \in calls : CallFits(c), tab' = tab, calls' \subseteq calls
    PROVE  (\A c \in calls : CallFits(c))'
BY DEF CallFits, CallShape, Live

\* What a call becomes is of the same kind, and as much awaited or not at all.
LEMMA SameCall ==
    ASSUME NEW c, CallShape(c)
    PROVE  /\ SameKind(c, [c EXCEPT !.at = "served"])
           /\ \A p, r : SameKind(c, [c EXCEPT !.at = "served", !.rows = r, !.page = p])
           /\ \A i : SameKind(c, [c EXCEPT !.at = "served", !.invite = i])
           /\ \A p : SameKind(c, [c EXCEPT !.at = "served", !.page = p])
           /\ \A e, g : SameKind(c, [c EXCEPT !.at = "served", !.dir = e, !.grants = g])
           /\ \A a, l : SameKind(c, [c EXCEPT !.list = l, !.at = a])
           /\ \A r : SameKind(c, [c EXCEPT !.at = "listed", !.rows = r])
           /\ SameKind(c, [c EXCEPT !.waits = "nobody"])
           /\ SameKind(c, [c EXCEPT !.at = "listing"])
BY DEF CallShape, SameKind

\* What a call becomes is a call that is as much awaited, or less.
LEMMA FitsWhenRewritten ==
    ASSUME NEW c, CallFits(c)
    PROVE  /\ CallFits([c EXCEPT !.at = "served"])
           /\ \A p : \A r \in [Users -> Rows] : CallFits([c EXCEPT !.at = "served", !.rows = r, !.page = p])
           /\ \A i : CallFits([c EXCEPT !.at = "served", !.invite = i])
           /\ \A p : CallFits([c EXCEPT !.at = "served", !.page = p])
           /\ \A d \in [Users -> Nat], g \in SUBSET (Collections \X Users) :
                 CallFits([c EXCEPT !.at = "served", !.dir = d, !.grants = g])
           /\ \A a \in {"served", "listed"}, l \in SUBSET Users :
                 a = "served" \/ c.at = "listing" => CallFits([c EXCEPT !.list = l, !.at = a])
           /\ \A r \in [Users -> Rows] :
                 c.at = "listing" => CallFits([c EXCEPT !.at = "listed", !.rows = r])
           /\ c.op # "select" /\ c.at \in {"sent", "served"}
                 => CallFits([c EXCEPT !.waits = "nobody"])
           /\ Live(c) /\ (c.op = "reset" \/ (c.op \in {"fulfil", "add"} /\ c.relist))
                 => CallFits([c EXCEPT !.at = "listing"])
<1>1. CallShape(c) /\ (c.waits = "form" => TabOf(c.op) = tab)
  BY DEF CallFits
<1>2. ASSUME NEW d, CallShape(d), SameKind(c, d) PROVE CallFits(d)
  BY <1>1, <1>2 DEF CallFits, SameKind
<1>. QED  BY <1>1, <1>2, SameCall, CallRewritten

\* The tables of the server read, and the answers without one.
LEMMA AnyReads ==
    ASSUME AnyAdminInv, NEW call \in calls,
           \/ ServeAdminLoad(call) \/ ServeUsers(call) \/ ServeAudit(call)
           \/ ServePanelLoad(call) \/ ServeMembers(call)
    PROVE  AnyAdminInv'
<1>0. /\ AccountShape /\ SealShape /\ ScreenShape /\ CallFits(call)
      /\ UNCHANGED <<serverVars, tab, adminVars, panelVars>>
  BY DEF AnyAdminInv, ServeAdminLoad, ServeUsers, ServeAudit, ServePanelLoad, ServeMembers
<1>1. AccountShape' /\ SealShape' /\ ScreenShape'
  BY <1>0, TablesRest, PanelsRest
<1>2. ASSUME NEW new, CallFits(new), Serve(call, new) \/ calls' = Becomes(call, new) PROVE AnyAdminInv'
  <2>1. calls' \subseteq calls \cup {new}
    BY <1>2 DEF Serve, Becomes
  <2>. QED  BY <1>0, <1>1, <1>2, <2>1, CallsFit DEF AnyAdminInv
<1>3. ListUsers \in [Users -> Rows] /\ Directory \in [Users -> Nat]
  BY <1>0 DEF AccountShape, Accounts, ListUsers, Directory, Rows, NoRow, Exists, Statuses
<1>4. CASE ServeAdminLoad(call)
  BY <1>0, <1>2, <1>3, <1>4, FitsWhenRewritten DEF ServeAdminLoad
<1>5. CASE ServeUsers(call)
  BY <1>0, <1>2, <1>3, <1>5, FitsWhenRewritten DEF ServeUsers
<1>6. CASE ServeAudit(call)
  <2>1. PICK p : Serve(call, [call EXCEPT !.at = "served", !.page = p])
    BY <1>6 DEF ServeAudit
  <2>. QED  BY <1>0, <1>2, <2>1, FitsWhenRewritten
<1>7. CASE ServePanelLoad(call)
  <2>1. grants \in SUBSET (Collections \X Users)
    BY <1>0 DEF SealShape
  <2>. QED  BY <1>0, <1>2, <1>3, <1>7, <2>1, FitsWhenRewritten DEF ServePanelLoad
<1>8. CASE ServeMembers(call)
  <2>0. PICK l \in SUBSET Users, a \in {"served", "listed"} :
           l = MembersOf(call.coll) /\ a = IF call.op = "select" THEN "served" ELSE "listed"
    BY DEF MembersOf
  <2>1. calls' = Becomes(call, [call EXCEPT !.list = l, !.at = a]) /\ (a = "served" \/ call.at = "listing")
    BY <1>8, <2>0 DEF ServeMembers
  <2>. QED  BY <1>0, <1>2, <2>1, FitsWhenRewritten
<1>. QED  BY <1>4, <1>5, <1>6, <1>7, <1>8

\* An account is written.
LEMMA AccountStaysWhole ==
    ASSUME AccountShape, NEW u \in Users, NEW a \in Accounts, a.key <= a.pairs,
           account' = [account EXCEPT ![u] = a], invites' \in {invites, invites + 1}
    PROVE  AccountShape'
BY DEF AccountShape

\* One membership is written, or goes.
LEMMA SealWritten ==
    ASSUME SealShape, NEW c \in Collections, NEW u \in Users, NEW b \in [to : {u, NoUser}, key : Nat],
           sealed' = [sealed EXCEPT ![c][u] = b], grants' \subseteq grants
    PROVE  SealShape'
<1>1. \A d \in Collections, v \in Users :
         sealed'[d][v] = IF d = c /\ v = u THEN b ELSE sealed[d][v]
  BY DEF SealShape
<1>2. sealed' \in [Collections -> [Users -> Seals]]
  BY <1>1 DEF SealShape, Seals
<1>. QED  BY <1>1, <1>2 DEF SealShape, SealedToTheMember

\* All of an account's go with it.
LEMMA SealsForgotten ==
    ASSUME SealShape, NEW u \in Users, Forgotten(u)
    PROVE  SealShape'
<1>1. \A d \in Collections, v \in Users :
         sealed'[d][v] = IF v = u THEN Unsealed ELSE sealed[d][v]
  BY DEF SealShape, Forgotten
<1>2. Unsealed \in Seals /\ Unsealed.to = NoUser
  BY DEF Unsealed, Seals
<1>3. \A d \in Collections : sealed'[d] \in [Users -> Seals]
  BY <1>2 DEF SealShape, Forgotten
<1>4. sealed' \in [Collections -> [Users -> Seals]]
  BY <1>3 DEF Forgotten
<1>. QED  BY <1>1, <1>2, <1>4 DEF SealShape, SealedToTheMember, Forgotten

\* What the server writes.
LEMMA AnyWrites ==
    ASSUME AnyAdminInv, NEW call \in calls,
           \/ ServeCreate(call) \/ ServeReissue(call) \/ ServeReset(call)
           \/ ServeStatus(call) \/ ServeDelete(call)
           \/ ServeFulfil(call) \/ ServeAdd(call) \/ ServeRemove(call)
    PROVE  AnyAdminInv'
<1>0. /\ AccountShape /\ SealShape /\ ScreenShape /\ CallFits(call) /\ CallShape(call)
      /\ UNCHANGED <<tab, adminVars, panelVars>> /\ call.op \in OfUser
  BY DEF AnyAdminInv, CallFits, ServeCreate, ServeReissue, ServeReset, ServeStatus, ServeDelete,
         ServeFulfil, ServeAdd, ServeRemove, Serving, OfUser
<1>1. PICK u \in Users : u = call.user
  BY <1>0 DEF CallShape
<1>2. ScreenShape'
  BY <1>0, PanelsRest
<1>3. ASSUME NEW new, CallFits(new), Serve(call, new), AccountShape', SealShape' PROVE AnyAdminInv'
  <2>1. calls' \subseteq calls \cup {new}
    BY <1>3 DEF Serve, Becomes
  <2>. QED  BY <1>0, <1>2, <1>3, <2>1, CallsFit DEF AnyAdminInv
<1>4. PICK r \in Accounts : r = account[u] /\ r.key <= r.pairs
  BY <1>0 DEF AccountShape
<1>5. ASSUME UNCHANGED <<sealed, grants>> PROVE SealShape'
  BY <1>0, <1>5 DEF SealShape, SealedToTheMember
<1>6. CASE ServeCreate(call) \/ ServeReissue(call) \/ ServeReset(call)
  <2>1. PICK new : new = [call EXCEPT !.at = "served", !.invite = invites + 1]
    OBVIOUS
  <2>2. Serve(call, new) /\ CallFits(new) /\ invites' = invites + 1
    BY <1>0, <1>6, <2>1, FitsWhenRewritten DEF ServeCreate, ServeReissue, ServeReset, NewInvite
  <2>3. PICK is \in SUBSET Nat : is = account[u].invites \cup {invites + 1}
    <3>1. r.invites \in SUBSET Nat /\ invites + 1 \in Nat
      BY <1>0 DEF Accounts, AccountShape
    <3>. QED  BY <1>4, <3>1
  <2>4. PICK a \in Accounts : account' = [account EXCEPT ![u] = a] /\ a.key <= a.pairs
    <3>1. CASE ServeCreate(call) \/ ServeReissue(call)
      <4>1. PICK a : a = [r EXCEPT !.st = "pending", !.invites = is]
        OBVIOUS
      <4>2. a \in Accounts /\ a.key = r.key /\ a.pairs = r.pairs
        BY <4>1 DEF Accounts, Statuses
      <4>3. account' = [account EXCEPT ![u] = a]
        BY <1>0, <1>1, <1>4, <2>3, <3>1, <4>1 DEF ServeCreate, ServeReissue, Issue, AccountShape
      <4>. QED  BY <1>4, <4>2, <4>3
    <3>2. CASE ServeReset(call)
      <4>1. PICK a : a = [r EXCEPT !.st = "pending", !.invites = is, !.key = 0]
        OBVIOUS
      <4>2. a \in Accounts /\ a.key = 0
        BY <4>1 DEF Accounts, Statuses
      <4>3. a.key <= a.pairs
        BY <4>2 DEF Accounts
      <4>4. account' = [account EXCEPT ![u] = a]
        BY <1>0, <1>1, <1>4, <2>3, <3>2, <4>1 DEF ServeReset, Issue, AccountShape
      <4>. QED  BY <4>2, <4>3, <4>4
    <3>. QED  BY <1>6, <3>1, <3>2
  <2>5. AccountShape'
    BY <1>0, <2>2, <2>4, AccountStaysWhole
  <2>6. SealShape'
    <3>1. CASE ServeReset(call)
      BY <1>0, <1>1, <3>1, SealsForgotten DEF ServeReset
    <3>. QED  BY <1>5, <1>6, <3>1 DEF ServeCreate, ServeReissue
  <2>. QED  BY <1>3, <2>2, <2>5, <2>6
<1>7. PICK new : new = [call EXCEPT !.at = "served"] /\ CallFits(new)
  BY <1>0, FitsWhenRewritten
<1>8. CASE ServeStatus(call)
  <2>1. PICK a : a = [r EXCEPT !.st = call.status]
    OBVIOUS
  <2>2. call.status \in Statuses
    BY <1>0, <1>8 DEF CallShape, ServeStatus, Serving, Statuses
  <2>3. a \in Accounts /\ a.key = r.key /\ a.pairs = r.pairs
    BY <2>1, <2>2 DEF Accounts
  <2>4. account' = [account EXCEPT ![u] = a] /\ invites' = invites /\ UNCHANGED <<sealed, grants>>
        /\ Serve(call, new)
    BY <1>0, <1>1, <1>4, <1>7, <1>8, <2>1 DEF ServeStatus, AccountShape
  <2>5. AccountShape'
    BY <1>0, <1>4, <2>3, <2>4, AccountStaysWhole
  <2>. QED  BY <1>3, <1>5, <1>7, <2>4, <2>5
<1>9. CASE ServeDelete(call)
  <2>1. PICK a : a = [r EXCEPT !.st = "deleted", !.invites = {}, !.key = 0]
    OBVIOUS
  <2>2. a \in Accounts /\ a.key = 0
    BY <2>1 DEF Accounts, Statuses
  <2>3. a.key <= a.pairs
    BY <2>2 DEF Accounts
  <2>4. account' = [account EXCEPT ![u] = a] /\ invites' = invites /\ Forgotten(u) /\ Serve(call, new)
    BY <1>1, <1>4, <1>7, <1>9, <2>1 DEF ServeDelete
  <2>5. AccountShape' /\ SealShape'
    BY <1>0, <2>2, <2>3, <2>4, AccountStaysWhole, SealsForgotten
  <2>. QED  BY <1>3, <1>7, <2>4, <2>5
<1>10. CASE ServeFulfil(call) \/ ServeAdd(call) \/ ServeRemove(call)
  <2>1. /\ Serve(call, new) /\ UNCHANGED <<account, invites>>
        /\ call.op \in {"fulfil", "add", "remove"}
    BY <1>7, <1>10 DEF ServeFulfil, ServeAdd, ServeRemove, Serving
  <2>2. AccountShape'
    BY <1>0, <2>1 DEF AccountShape
  <2>3. PICK c \in Collections : c = call.coll
    BY <1>0, <2>1 DEF CallShape, OfColl
  <2>4. call.op \in {"fulfil", "add"} => call.blob \in [to : {u, NoUser}, key : Nat]
    BY <1>0, <1>1 DEF CallShape
  <2>5. SealShape'
    <3>1. CASE ServeFulfil(call)
      <4>1. /\ sealed' = [sealed EXCEPT ![c][u] = call.blob] /\ grants' \subseteq grants
            /\ call.op = "fulfil"
        BY <1>1, <2>3, <3>1 DEF ServeFulfil, Serving
      <4>. QED  BY <1>0, <2>4, <4>1, SealWritten
    <3>2. CASE ServeAdd(call) /\ call.blob = Unsealed
      <4>1. sealed' = sealed /\ grants' = grants \cup {<<c, u>>}
        BY <1>1, <2>3, <3>2 DEF ServeAdd
      <4>. QED  BY <1>0, <4>1 DEF SealShape, SealedToTheMember
    <3>3. CASE ServeAdd(call) /\ call.blob # Unsealed
      <4>1. sealed' = [sealed EXCEPT ![c][u] = call.blob] /\ grants' = grants /\ call.op = "add"
        BY <1>1, <2>3, <3>3 DEF ServeAdd, Serving
      <4>. QED  BY <1>0, <2>4, <4>1, SealWritten
    <3>4. CASE ServeRemove(call)
      <4>1. sealed' = [sealed EXCEPT ![c][u] = Unsealed] /\ grants' = grants
        BY <1>1, <2>3, <3>4 DEF ServeRemove
      <4>2. Unsealed \in [to : {u, NoUser}, key : Nat]
        BY DEF Unsealed
      <4>. QED  BY <1>0, <4>1, <4>2, SealWritten
    <3>. QED  BY <1>10, <3>1, <3>2, <3>3, <3>4
  <2>. QED  BY <1>3, <1>7, <2>1, <2>2, <2>5
<1>. QED  BY <1>6, <1>8, <1>9, <1>10

\* A request is refused or lost; an answer arrives.
LEMMA AnySettles ==
    ASSUME AnyAdminInv, NEW call \in calls, Refuse(call) \/ Settle(call)
    PROVE  AnyAdminInv'
<1>0. /\ AccountShape /\ SealShape /\ ScreenShape /\ CallFits(call) /\ CallShape(call)
      /\ UNCHANGED <<serverVars, tab>>
  BY DEF AnyAdminInv, CallFits, Refuse, Settle, AdminLoaded, Created, Reissued, StatusSet,
         ResetAnswered, Deleted, OlderLoaded, PanelLoaded, Selected, Fulfilled, Added, Removed,
         ResetDone, Relisted, Fails
<1>1. AccountShape' /\ SealShape'
  BY <1>0, TablesRest
<1>2. ASSUME ScreenShape', calls' \subseteq calls PROVE AnyAdminInv'
  BY <1>0, <1>1, <1>2, CallsGo DEF AnyAdminInv
<1>3. ASSUME NEW new, CallFits(new), ScreenShape', calls' = Becomes(call, new) PROVE AnyAdminInv'
  BY <1>0, <1>1, <1>3, CallsFit DEF AnyAdminInv, Becomes
<1>4. /\ call.rows \in [Users -> Rows] /\ call.dir \in [Users -> Nat]
      /\ call.grants \subseteq Collections \X Users /\ call.list \subseteq Users
      /\ call.op \in OfUser => call.user \in Users
      /\ call.op \in OfColl => call.coll \in Collections
      /\ (call.op \in AdminOps /\ call.waits = "form" => tab = "admin")
  BY <1>0 DEF CallShape, CallFits, TabOf
<1>5. call.op \in AdminOps /\ Reveal(call) => (reveal' # NoReveal => tab = "admin")
  BY <1>0, <1>4 DEF Reveal, ScreenShape
<1>6. NoMembers \in [of : Collections \cup {NoColl}, list : SUBSET Users]
  BY DEF NoMembers
<1>7. ASSUME Refuse(call) \/ \E b \in BOOLEAN : Fails(call, b) PROVE AnyAdminInv'
  <2>1. ScreenShape'
    BY <1>0, <1>6, <1>7 DEF Refuse, Fails, ScreenShape, adminVars
  <2>2. \/ calls' = calls \ {call}
        \/ /\ calls' = Becomes(call, [call EXCEPT !.waits = "nobody"])
           /\ call.op # "select" /\ call.at \in {"sent", "served"}
    BY <1>7 DEF Refuse, Fails, Reads
  <2>. QED  BY <1>0, <1>2, <1>3, <2>1, <2>2, FitsWhenRewritten
<1>8. CASE AdminLoaded(call) \/ OlderLoaded(call)
  <2>1. ScreenShape' /\ calls' \subseteq calls
    BY <1>0, <1>4, <1>8 DEF AdminLoaded, ListShown, OlderLoaded, Ended, ScreenShape, panelVars
  <2>. QED  BY <1>2, <2>1
<1>9. CASE Created(call) \/ Reissued(call)
  <2>1. /\ call.op \in AdminOps /\ call.op \in OfUser /\ Reveal(call) /\ calls' \subseteq calls
        /\ UNCHANGED <<selected, members, pending, directory>>
        /\ \/ users' = users
           \/ users' = [users EXCEPT ![call.user] = [st |-> "pending", hasInvite |-> TRUE]]
    BY <1>9 DEF Created, Reissued, Answered, Ended, AdminOps, OfUser, panelVars
  <2>2. [st |-> "pending", hasInvite |-> TRUE] \in Rows
    BY DEF Rows, Statuses
  <2>3. users' \in [Users -> Rows]
    BY <1>0, <1>4, <2>1, <2>2 DEF ScreenShape
  <2>. QED  BY <1>0, <1>2, <1>5, <2>1, <2>3 DEF ScreenShape
<1>10. CASE StatusSet(call) \/ Deleted(call)
  <2>1. /\ calls' \subseteq calls /\ UNCHANGED <<reveal, selected, members, pending, directory>>
        /\ call.user \in Users
    BY <1>4, <1>10 DEF StatusSet, Deleted, Answered, Ended, OfUser, panelVars
  <2>2. \A r \in Rows, s \in Statuses : [r EXCEPT !.st = s] \in Rows
    BY DEF Rows
  <2>3. call.op = "status" => call.status \in Statuses
    BY <1>0 DEF CallShape, Statuses
  <2>4. NoRow \in Rows
    BY DEF NoRow, Rows, Statuses
  <2>5. users' \in [Users -> Rows]
    <3>1. users \in [Users -> Rows]
      BY <1>0 DEF ScreenShape
    <3>2. CASE StatusSet(call)
      <4>1. /\ call.status \in Statuses
            /\ users' = users \/ users' = [users EXCEPT ![call.user].st = call.status]
        BY <2>3, <3>2 DEF StatusSet, Answered
      <4>. QED  BY <2>1, <2>2, <3>1, <4>1
    <3>3. CASE Deleted(call)
      BY <2>1, <2>4, <3>1, <3>3 DEF Deleted
    <3>. QED  BY <1>10, <3>2, <3>3
  <2>. QED  BY <1>0, <1>2, <2>1, <2>5 DEF ScreenShape
<1>11. CASE ResetAnswered(call)
  <2>1. /\ ScreenShape' /\ Live(call) /\ call.op = "reset"
        /\ calls' = Becomes(call, [call EXCEPT !.at = "listing"])
    BY <1>0, <1>11, PanelsRest DEF ResetAnswered, Answered, Live
  <2>. QED  BY <1>0, <1>3, <2>1, FitsWhenRewritten
<1>12. ASSUME NEW b \in BOOLEAN, ResetDone(call, b) PROVE AnyAdminInv'
  <2>1. /\ call.op \in AdminOps /\ Reveal(call) /\ calls' \subseteq calls
        /\ users' \in {users, call.rows} /\ UNCHANGED <<selected, members, pending, directory>>
    BY <1>12 DEF ResetDone, ListShown, Ended, AdminOps, panelVars
  <2>. QED  BY <1>0, <1>2, <1>4, <1>5, <2>1 DEF ScreenShape
<1>13. CASE PanelLoaded(call)
  <2>1. ScreenShape' /\ calls' \subseteq calls
    BY <1>0, <1>4, <1>13 DEF PanelLoaded, Ended, ScreenShape, adminVars
  <2>. QED  BY <1>2, <2>1
<1>14. ASSUME Selected(call) \/ Removed(call) \/ \E b \in BOOLEAN : Relisted(call, b)
       PROVE  AnyAdminInv'
  <2>1. /\ calls' \subseteq calls /\ UNCHANGED <<adminVars, selected, pending, directory>>
        /\ \/ members' = members
           \/ members' = [members EXCEPT !.list = @ \ {call.user}]
           \/ members' = [of |-> call.coll, list |-> call.list] /\ call.coll \in Collections
    BY <1>4, <1>14 DEF Selected, Removed, Relisted, Answered, Ended, OfColl
  <2>2. members' \in [of : Collections \cup {NoColl}, list : SUBSET Users]
    BY <1>0, <1>4, <2>1 DEF ScreenShape
  <2>. QED  BY <1>0, <1>2, <2>1, <2>2 DEF ScreenShape, adminVars
<1>15. CASE Fulfilled(call) \/ Added(call)
  <2>1. ScreenShape'
    BY <1>0, <1>15, PanelsRest DEF Fulfilled, Added, ScreenShape, adminVars
  <2>2. \/ calls' = calls \ {call}
        \/ /\ calls' = Becomes(call, [call EXCEPT !.at = "listing"])
           /\ Live(call) /\ call.op \in {"fulfil", "add"} /\ call.relist
    BY <1>15 DEF Fulfilled, Added, Answered, ThenRelist, Live
  <2>. QED  BY <1>0, <1>2, <1>3, <2>1, <2>2, FitsWhenRewritten
<1>. QED  BY <1>7, <1>8, <1>9, <1>10, <1>11, <1>12, <1>13, <1>14, <1>15 DEF Settle

\* The administrator acts, on either tab; the user of an account enrols.
LEMMA AnyUserSteps ==
    ASSUME AnyAdminInv, UserStep
    PROVE  AnyAdminInv'
<1>0. AccountShape /\ SealShape /\ ScreenShape /\ \A c \in calls : CallFits(c)
  BY DEF AnyAdminInv
<1>1. ASSUME UNCHANGED <<serverVars, tab>>, ScreenShape', NEW new, CallFits(new),
             calls' \subseteq calls \cup {new}
      PROVE  AnyAdminInv'
  BY <1>0, <1>1, TablesRest, CallsFit DEF AnyAdminInv
<1>2. ASSUME NEW new, CallShape(new), TabOf(new.op) = tab, Send(new) \/ Confirmed(new),
             UNCHANGED <<serverVars, tab, adminVars, panelVars>>
      PROVE  AnyAdminInv'
  <2>1. calls' = calls \cup {new} /\ CallFits(new)
    BY <1>2 DEF Send, Confirmed, CallFits
  <2>. QED  BY <1>0, <1>1, <1>2, <2>1, PanelsRest
<1>3. /\ \A op \in {"create", "reissue", "reset", "delete", "status", "audit"} : TabOf(op) = "admin"
      /\ \A op \in {"select", "fulfil", "add", "remove"} : TabOf(op) = "collections"
  BY DEF TabOf, AdminOps
<1>4. ASSUME NEW t \in Tabs, OpenTab(t) PROVE AnyAdminInv'
  <2>1. PICK op, load :
           /\ op = (IF t = "admin" THEN "load-admin" ELSE "load-panel")
           /\ load = Call(op, NoUser, NoColl)
           /\ calls' = {Unmounted(c) : c \in calls} \cup (IF NeedsLoad(t) THEN {load} ELSE {})
    BY <1>4 DEF OpenTab
  <2>2. /\ tab' = t /\ reveal' = NoReveal /\ UNCHANGED <<serverVars, users, panelVars>>
    BY <1>4 DEF OpenTab
  <2>3. AccountShape' /\ SealShape' /\ ScreenShape'
    BY <1>0, <2>2, TablesRest DEF ScreenShape, panelVars
  <2>4. ASSUME NEW c \in calls, NEW d, d = Unmounted(c) PROVE CallShape(d) /\ d.waits # "form"
    <3>1. CallShape(c) /\ (c.waits = "form" => TabOf(c.op) = tab)
      BY <1>0 DEF CallFits
    <3>2. CASE TabOf(c.op) # tab \/ c.waits = "nobody"
      BY <2>4, <3>1, <3>2 DEF Unmounted
    <3>3. CASE TabOf(c.op) = tab /\ c.waits # "nobody" /\ c.op \in Loads
      <4>1. d = [c EXCEPT !.waits = "nobody"]
        BY <2>4, <3>3 DEF Unmounted
      <4>2. c.op # "select" /\ c.at \in {"sent", "served"}
        BY <3>1, <3>3 DEF CallShape, Loads
      <4>3. CallShape(d)
        BY <3>1, <4>1, <4>2, CallRewritten
      <4>4. d.waits = "nobody"
        BY <3>1, <4>1 DEF CallShape
      <4>. QED  BY <4>3, <4>4
    <3>4. CASE TabOf(c.op) = tab /\ c.waits # "nobody" /\ c.op \notin Loads
      <4>1. d = [c EXCEPT !.waits = "hook"]
        BY <2>4, <3>4 DEF Unmounted
      <4>2. CallShape(d)
        BY <3>1, <4>1, CallRewritten
      <4>3. d.waits = "hook"
        BY <3>1, <4>1 DEF CallShape
      <4>. QED  BY <4>2, <4>3
    <3>. QED  BY <3>2, <3>3, <3>4
  <2>5. NeedsLoad(t) => CallShape(load) /\ TabOf(load.op) = t
    <3>1. op \notin OfUser /\ op \notin OfColl /\ op \notin {"status", "fulfil", "add"}
      BY <2>1 DEF OfUser, OfColl
    <3>2. CallShape(load)
      BY <2>1, <3>1, NewCallShape
    <3>3. load.op = op
      BY <2>1 DEF Call
    <3>. QED  BY <2>1, <3>2, <3>3 DEF NeedsLoad, TabOf, AdminOps
  <2>6. (\A c \in calls : CallFits(c))'
    <3>1. \A c \in calls' : CallShape(c) /\ (c.waits = "form" => TabOf(c.op) = t)
      BY <2>1, <2>4, <2>5
    <3>. QED  BY <2>2, <3>1 DEF CallFits, CallShape, Live
  <2>. QED  BY <2>3, <2>6 DEF AnyAdminInv
<1>5. ASSUME NEW u \in Users, CreateUser(u) \/ ReissueInvite(u) \/ ResetUser(u) \/ DeleteUser(u)
      PROVE  AnyAdminInv'
  <2>1. PICK op, new :
           /\ op \in {"create", "reissue", "reset", "delete"}
           /\ new = Call(op, u, NoColl) /\ (Send(new) \/ Confirmed(new))
    BY <1>5 DEF CreateUser, ReissueInvite, ResetUser, DeleteUser
  <2>2. tab = "admin" /\ UNCHANGED <<serverVars, tab, adminVars, panelVars>>
    BY <1>5 DEF CreateUser, ReissueInvite, ResetUser, DeleteUser
  <2>3. CallShape(new) /\ new.op = op
    <3>1. CallShape(new)
      BY <2>1, NewCallShape DEF OfColl
    <3>. QED  BY <2>1, <3>1 DEF Call
  <2>. QED  BY <1>2, <1>3, <2>1, <2>2, <2>3
<1>6. ASSUME NEW u \in Users, ToggleStatus(u) PROVE AnyAdminInv'
  <2>1. PICK s, new :
           /\ s \in {"active", "disabled"}
           /\ new = [Call("status", u, NoColl) EXCEPT !.status = s] /\ Send(new)
    BY <1>6 DEF ToggleStatus
  <2>2. tab = "admin" /\ UNCHANGED <<serverVars, tab, adminVars, panelVars>>
    BY <1>6 DEF ToggleStatus
  <2>3. CallShape(new) /\ new.op = "status"
    BY <2>1, NewCallShape DEF OfColl, Call
  <2>. QED  BY <1>2, <1>3, <2>1, <2>2, <2>3
<1>7. CASE LoadOlder
  <2>1. PICK p, new : new = [Call("audit", NoUser, NoColl) EXCEPT !.page = p] /\ Send(new)
    BY <1>7 DEF LoadOlder
  <2>2. tab = "admin" /\ UNCHANGED <<serverVars, tab, adminVars, panelVars>>
    BY <1>7 DEF LoadOlder
  <2>3. CallShape(new) /\ new.op = "audit"
    BY <2>1, NewCallShape DEF OfColl, OfUser, Call
  <2>. QED  BY <1>2, <1>3, <2>1, <2>2, <2>3
<1>8. ASSUME NEW u \in Users, RemoveMember(u) PROVE AnyAdminInv'
  <2>1. PICK new : new = Call("remove", u, selected) /\ Confirmed(new)
    BY <1>8 DEF RemoveMember
  <2>2. tab = "collections" /\ UNCHANGED <<serverVars, tab, adminVars, panelVars>>
        /\ selected \in Collections
    BY <1>0, <1>8 DEF RemoveMember, ScreenShape
  <2>3. CallShape(new) /\ new.op = "remove"
    <3>1. CallShape(new)
      BY <2>1, <2>2, NewCallShape
    <3>. QED  BY <2>1, <3>1 DEF Call
  <2>. QED  BY <1>2, <1>3, <2>1, <2>2, <2>3
<1>9. \A u \in Users : SealTo(u) \in [to : {u, NoUser}, key : Nat] /\ SealTo(u) # Unsealed
  BY <1>0, PanelsAssumption DEF SealTo, Unsealed, ScreenShape
<1>10. ASSUME NEW c \in Collections, NEW u \in Users, AddMember(c, u) PROVE AnyAdminInv'
  <2>1. PICK b, r, new :
           /\ b = (IF c \in Held THEN SealTo(u) ELSE Unsealed)
           /\ new = [Call("add", u, c) EXCEPT !.blob = b, !.relist = r] /\ Send(new)
    BY <1>10 DEF AddMember
  <2>2. tab = "collections" /\ UNCHANGED <<serverVars, tab, adminVars, panelVars>>
    BY <1>10 DEF AddMember
  <2>3. Unsealed \in [to : {u, NoUser}, key : Nat]
    BY DEF Unsealed
  <2>4. b \in [to : {u, NoUser}, key : Nat] /\ (c \in Held <=> b # Unsealed)
    BY <1>9, <2>1, <2>3
  <2>5. CallShape(new) /\ new.op = "add"
    BY <2>1, <2>4, NewCallShape DEF Call
  <2>. QED  BY <1>2, <1>3, <2>1, <2>2, <2>5
<1>11. ASSUME NEW g \in pending, NEW v \in Users, FulfilGrant(g, v) PROVE AnyAdminInv'
  <2>1. PICK c \in Held, u \in Users : g = <<c, u>>
    BY <1>0, <1>11 DEF ScreenShape, FulfilGrant
  <2>2. PICK r, new :
           /\ v = u
           /\ new = [Call("fulfil", u, c) EXCEPT !.blob = SealTo(u), !.relist = r] /\ Send(new)
    BY <1>11, <2>1 DEF FulfilGrant, RecipientsOf
  <2>3. tab = "collections" /\ UNCHANGED <<serverVars, tab, adminVars, panelVars>>
    BY <1>11 DEF FulfilGrant
  <2>4. CallShape(new) /\ new.op = "fulfil"
    BY <1>9, <2>2, NewCallShape, PanelsAssumption DEF Call
  <2>. QED  BY <1>2, <1>3, <2>2, <2>3, <2>4
<1>12. ASSUME NEW c \in Collections, SelectCollection(c) PROVE AnyAdminInv'
  <2>1. PICK new : new = Call("select", NoUser, c) /\ Send(new)
    BY <1>12 DEF SelectCollection
  <2>2. /\ tab = "collections" /\ selected' = c /\ UNCHANGED <<serverVars, tab, adminVars>>
        /\ UNCHANGED <<directory, pending, members>>
    BY <1>12 DEF SelectCollection
  <2>3. CallShape(new) /\ new.op = "select"
    <3>1. CallShape(new)
      BY <2>1, NewCallShape DEF OfUser
    <3>. QED  BY <2>1, <3>1 DEF Call
  <2>4. calls' \subseteq calls \cup {new} /\ CallFits(new)
    BY <1>3, <2>1, <2>2, <2>3 DEF Send, CallFits
  <2>5. ScreenShape'
    BY <1>0, <2>2 DEF ScreenShape, adminVars
  <2>. QED  BY <1>1, <2>2, <2>4, <2>5
<1>13. CASE DismissInvite \/ CollapseCollection
  <2>1. UNCHANGED <<serverVars, tab, calls>>
    BY <1>13 DEF DismissInvite, CollapseCollection
  <2>2. NoMembers \in [of : Collections \cup {NoColl}, list : SUBSET Users]
    BY DEF NoMembers
  <2>3. ScreenShape'
    BY <1>0, <1>13, <2>2 DEF DismissInvite, CollapseCollection, ScreenShape, adminVars, panelVars
  <2>4. (\A c \in calls : CallFits(c))'
    BY <1>0, <2>1, CallsGo
  <2>. QED  BY <1>0, <2>1, <2>3, <2>4, TablesRest DEF AnyAdminInv
<1>14. ASSUME NEW u \in Users, Enrol(u) PROVE AnyAdminInv'
  <2>1. PICK r \in Accounts : r = account[u]
    BY <1>0 DEF AccountShape
  <2>2. PICK i, a :
           /\ a = [st |-> "active", invites |-> r.invites \ {i},
                   key |-> r.pairs + 1, pairs |-> r.pairs + 1]
           /\ account' = [account EXCEPT ![u] = a]
    BY <1>14, <2>1 DEF Enrol
  <2>3. a \in Accounts /\ a.key <= a.pairs
    BY <2>2 DEF Accounts, Statuses
  <2>4. UNCHANGED <<sealed, grants, invites, calls, tab, adminVars, panelVars>>
    BY <1>14 DEF Enrol
  <2>5. AccountShape'
    BY <1>0, <2>2, <2>3, <2>4, AccountStaysWhole
  <2>6. SealShape'
    BY <1>0, <2>4 DEF SealShape, SealedToTheMember
  <2>7. ScreenShape' /\ (\A c \in calls : CallFits(c))'
    BY <1>0, <2>4, PanelsRest, CallsGo
  <2>. QED  BY <2>5, <2>6, <2>7 DEF AnyAdminInv
<1>. QED
  BY <1>4, <1>5, <1>6, <1>7, <1>8, <1>10, <1>11, <1>12, <1>13, <1>14 DEF UserStep

\* The tables at the start, and panels not loaded.
LEMMA AnyAdminInit == Init => AnyAdminInv
<1>. SUFFICES ASSUME Init PROVE AnyAdminInv
  OBVIOUS
<1>1. AccountShape
  <2>1. \A u \in Users : account[u] \in Accounts /\ account[u].key <= account[u].pairs
    BY DEF Init, Accounts, Statuses
  <2>2. DOMAIN account = Users /\ account = [u \in Users |-> account[u]]
    BY DEF Init
  <2>. QED  BY <2>1, <2>2 DEF Init, AccountShape
<1>2. SealShape
  BY PanelsAssumption DEF Init, SealShape, Seals, SealedToTheMember, Unsealed
<1>3. ScreenShape
  BY DEF Init, ScreenShape, Rows, NoRow, Statuses, Tabs, NoMembers, NoReveal
<1>. QED  BY <1>1, <1>2, <1>3 DEF Init, AnyAdminInv

\* Every step keeps it, whoever waits for what.
LEMMA AnyAdminStep == AnyAdminInv /\ [Next]_vars => AnyAdminInv'
<1>. SUFFICES ASSUME AnyAdminInv, [Next]_vars PROVE AnyAdminInv'
  OBVIOUS
<1>1. CASE UNCHANGED vars
  <2>1. UNCHANGED <<serverVars, calls, tab, adminVars, panelVars>>
    BY <1>1 DEF vars
  <2>. QED  BY <2>1, TablesRest, PanelsRest, CallsGo DEF AnyAdminInv
<1>2. ASSUME NEW call \in calls, ServerStep(call) \/ Settle(call) PROVE AnyAdminInv'
  BY <1>2, AnyReads, AnyWrites, AnySettles DEF ServerStep
<1>. QED  BY <1>1, <1>2, AnyUserSteps DEF Next

(***************************************************************************)
(* Grants are offered as the one load that counted  *)
(* found them, and before it nothing can be fulfilled.                     *)
(***************************************************************************)
OneLoad ==
    /\ \A c \in calls : c.op \in Loads => c.waits \in {"form", "nobody"}
    /\ \A c, d \in calls :
          c.op = "load-panel" /\ d.op = "load-panel" /\ c.waits = "form" /\ d.waits = "form" => c = d
    /\ \A c \in calls : c.op = "load-panel" /\ c.waits = "form" => ~panelLoaded
OfferInv ==
    /\ NotOfferedAgain /\ OneLoad /\ fulfilled \subseteq Held \X Users
    /\ ~panelLoaded => pending = {} /\ fulfilled = {} /\ \A c \in calls : c.op # "fulfil"

\* A call is served, answered or given up.
LEMMA OfferKept ==
    ASSUME OfferInv, NEW call \in calls, NEW new, calls' \subseteq (calls \ {call}) \cup {new},
           new.op = call.op, new.waits \in {call.waits, "nobody"},
           UNCHANGED <<pending, fulfilled, panelLoaded>>
    PROVE  OfferInv'
<1>1. OneLoad'
  BY DEF OfferInv, OneLoad
<1>. QED  BY <1>1 DEF OfferInv, NotOfferedAgain

\* No call is made.
LEMMA OfferRests ==
    ASSUME OfferInv, calls' \subseteq calls, UNCHANGED <<pending, fulfilled, panelLoaded>>
    PROVE  OfferInv'
BY DEF OfferInv, OneLoad, NotOfferedAgain

\* A call is made; a grant is fulfilled only when the panel is loaded.
LEMMA OfferAsked ==
    ASSUME OfferInv, NEW new, calls' \subseteq calls \cup {new}, new.op \notin Loads,
           new.op = "fulfil" => panelLoaded,
           UNCHANGED <<pending, fulfilled, panelLoaded>>
    PROVE  OfferInv'
<1>1. OneLoad'
  BY DEF OfferInv, OneLoad, Loads
<1>. QED  BY <1>1 DEF OfferInv, NotOfferedAgain

\* What the server answers, and the answers that are no load.
LEMMA OfferServed ==
    ASSUME OfferInv, AnyAdminInv, NEW call \in calls, ServerStep(call) \/ Settle(call)
    PROVE  OfferInv'
<1>0. CallShape(call) /\ ScreenShape
  BY DEF AnyAdminInv, CallFits
<1>1. ASSUME NEW new, Serve(call, new) \/ calls' = Becomes(call, new),
             SameKind(call, new), UNCHANGED <<pending, fulfilled, panelLoaded>>
      PROVE  OfferInv'
  <2>1. calls' \subseteq (calls \ {call}) \cup {new}
    BY <1>1 DEF Serve, Becomes
  <2>. QED  BY <1>1, <2>1, OfferKept DEF SameKind
<1>2. CASE ServeAdminLoad(call) \/ ServeUsers(call) \/ ServeAudit(call) \/ ServePanelLoad(call)
           \/ ServeMembers(call)
  <2>1. UNCHANGED <<pending, fulfilled, panelLoaded>>
    BY <1>2 DEF ServeAdminLoad, ServeUsers, ServeAudit, ServePanelLoad, ServeMembers, panelVars, ghosts
  <2>2. \E new : /\ Serve(call, new) \/ calls' = Becomes(call, new)
                 /\ SameKind(call, new)
    <3>1. CASE ServeAdminLoad(call)
      <4>1. PICK r, p, new : /\ new = [call EXCEPT !.at = "served", !.rows = r, !.page = p]
                             /\ Serve(call, new)
        BY <3>1 DEF ServeAdminLoad
      <4>2. SameKind(call, new)
        BY <1>0, <4>1, SameCall
      <4>. QED  BY <4>1, <4>2
    <3>2. CASE ServeUsers(call)
      <4>1. PICK r : calls' = Becomes(call, [call EXCEPT !.at = "listed", !.rows = r])
        BY <3>2 DEF ServeUsers
      <4>. QED  BY <1>0, <4>1, SameCall
    <3>3. CASE ServeAudit(call)
      <4>1. PICK p : Serve(call, [call EXCEPT !.at = "served", !.page = p])
        BY <3>3 DEF ServeAudit
      <4>. QED  BY <1>0, <4>1, SameCall
    <3>4. CASE ServePanelLoad(call)
      <4>1. PICK d, g : Serve(call, [call EXCEPT !.at = "served", !.dir = d, !.grants = g])
        BY <3>4 DEF ServePanelLoad
      <4>. QED  BY <1>0, <4>1, SameCall
    <3>5. CASE ServeMembers(call)
      <4>1. PICK l, a : calls' = Becomes(call, [call EXCEPT !.list = l, !.at = a])
        BY <3>5 DEF ServeMembers
      <4>. QED  BY <1>0, <4>1, SameCall
    <3>. QED  BY <1>2, <3>1, <3>2, <3>3, <3>4, <3>5
  <2>. QED  BY <1>1, <2>1, <2>2
<1>3. CASE ServeCreate(call) \/ ServeReissue(call) \/ ServeReset(call)
  <2>1. PICK i : Serve(call, [call EXCEPT !.at = "served", !.invite = i])
    BY <1>3 DEF ServeCreate, ServeReissue, ServeReset
  <2>2. UNCHANGED <<pending, fulfilled, panelLoaded>>
    BY <1>3 DEF ServeCreate, ServeReissue, ServeReset, panelVars, ghosts
  <2>. QED  BY <1>0, <1>1, <2>1, <2>2, SameCall
<1>4. CASE ServeStatus(call) \/ ServeDelete(call) \/ ServeFulfil(call) \/ ServeAdd(call)
           \/ ServeRemove(call)
  <2>1. Serve(call, [call EXCEPT !.at = "served"])
    BY <1>4 DEF ServeStatus, ServeDelete, ServeFulfil, ServeAdd, ServeRemove
  <2>2. UNCHANGED <<pending, fulfilled, panelLoaded>>
    BY <1>4 DEF ServeStatus, ServeDelete, ServeFulfil, ServeAdd, ServeRemove, panelVars, ghosts
  <2>. QED  BY <1>0, <1>1, <2>1, <2>2, SameCall
<1>5. ASSUME Refuse(call) \/ \E b \in BOOLEAN : Fails(call, b) PROVE OfferInv'
  <2>1. UNCHANGED <<pending, fulfilled, panelLoaded>>
    BY <1>5 DEF Refuse, Fails, ghosts
  <2>2. calls' \subseteq calls \/ calls' = Becomes(call, [call EXCEPT !.waits = "nobody"])
    BY <1>5 DEF Refuse, Fails
  <2>. QED  BY <1>0, <1>1, <2>1, <2>2, OfferRests, SameCall
<1>6. ASSUME \/ AdminLoaded(call) \/ Created(call) \/ Reissued(call) \/ StatusSet(call)
             \/ Deleted(call) \/ OlderLoaded(call) \/ Selected(call) \/ Removed(call)
             \/ \E b \in BOOLEAN : ResetDone(call, b) \/ Relisted(call, b)
      PROVE  OfferInv'
  <2>1. UNCHANGED <<pending, fulfilled, panelLoaded>> /\ calls' \subseteq calls
    BY <1>6 DEF AdminLoaded, Created, Reissued, StatusSet, Deleted, OlderLoaded, Selected, Removed,
                ResetDone, Relisted, Ended, panelVars, ghosts
  <2>. QED  BY <2>1, OfferRests
<1>7. CASE ResetAnswered(call) \/ Added(call)
  <2>1. UNCHANGED <<pending, fulfilled, panelLoaded>>
    BY <1>7 DEF ResetAnswered, Added, panelVars, ghosts
  <2>2. calls' \subseteq calls \/ calls' = Becomes(call, [call EXCEPT !.at = "listing"])
    BY <1>7 DEF ResetAnswered, Added, ThenRelist
  <2>. QED  BY <1>0, <1>1, <2>1, <2>2, OfferRests, SameCall
<1>8. CASE PanelLoaded(call)
  <2>1. /\ call.op = "load-panel" /\ call.waits = "form" /\ calls' = calls \ {call}
        /\ panelLoaded' = TRUE /\ fulfilled' = fulfilled
    BY <1>8 DEF PanelLoaded, Answered, Ended, ghosts, OfferInv, OneLoad, Loads
  <2>2. fulfilled = {}
    BY <2>1 DEF OfferInv, OneLoad
  <2>3. OneLoad'
    BY <2>1 DEF OfferInv, OneLoad
  <2>. QED  BY <2>1, <2>2, <2>3 DEF OfferInv, NotOfferedAgain
<1>9. CASE Fulfilled(call)
  <2>1. /\ call.op = "fulfil" /\ panelLoaded' = panelLoaded
        /\ pending' = pending \ {<<call.coll, call.user>>}
        /\ fulfilled' = fulfilled \cup {<<call.coll, call.user>>}
        /\ calls' \subseteq calls \/ calls' = Becomes(call, [call EXCEPT !.at = "listing"])
    BY <1>9 DEF Fulfilled, Answered, ThenRelist
  <2>2. PICK new : /\ calls' \subseteq (calls \ {call}) \cup {new, call}
                   /\ new.op = call.op
    BY <1>0, <2>1, SameCall DEF Becomes, SameKind
  <2>3. panelLoaded
    BY <2>1 DEF OfferInv
  <2>4. OneLoad'
    BY <2>1, <2>2 DEF OfferInv, OneLoad, Loads
  <2>5. <<call.coll, call.user>> \in Held \X Users
    BY <1>0, <2>1 DEF CallShape, OfUser
  <2>. QED  BY <2>1, <2>3, <2>4, <2>5 DEF OfferInv, NotOfferedAgain
<1>. QED  BY <1>2, <1>3, <1>4, <1>5, <1>6, <1>7, <1>8, <1>9 DEF ServerStep, Settle

\* The administrator, and the users of accounts.
LEMMA OfferUserSteps ==
    ASSUME OfferInv, AnyAdminInv, UserStep
    PROVE  OfferInv'
<1>1. ASSUME NEW new, Send(new) \/ Confirmed(new), new.op \notin Loads,
             new.op = "fulfil" => panelLoaded, UNCHANGED <<pending, panelLoaded, fulfilled>>
      PROVE  OfferInv'
  BY <1>1, OfferAsked DEF Send, Confirmed
<1>2. ASSUME NEW t \in Tabs, OpenTab(t) PROVE OfferInv'
  <2>1. PICK op, load :
           /\ op = (IF t = "admin" THEN "load-admin" ELSE "load-panel")
           /\ load = Call(op, NoUser, NoColl)
           /\ calls' = {Unmounted(c) : c \in calls} \cup (IF NeedsLoad(t) THEN {load} ELSE {})
    BY <1>2 DEF OpenTab
  <2>2. t # tab /\ UNCHANGED <<pending, fulfilled, panelLoaded>>
    BY <1>2 DEF OpenTab, panelVars, ghosts
  <2>3. load.op = op /\ load.waits = "form"
    BY <2>1 DEF Call
  <2>4. ASSUME NEW c \in calls, NEW d, d = Unmounted(c)
        PROVE  d.op = c.op /\ (c.op \in Loads => d.waits = "nobody")
    <3>1. CallShape(c) /\ (c.waits = "form" => TabOf(c.op) = tab)
      BY DEF AnyAdminInv, CallFits
    <3>2. c.op \in Loads => c.waits \in {"form", "nobody"}
      BY DEF OfferInv, OneLoad
    <3>3. CASE TabOf(c.op) # tab \/ c.waits = "nobody"
      BY <2>4, <3>1, <3>2, <3>3 DEF Unmounted
    <3>4. CASE ~(TabOf(c.op) # tab \/ c.waits = "nobody")
      <4>1. PICK w : d = [c EXCEPT !.waits = w] /\ (c.op \in Loads => w = "nobody")
        BY <2>4, <3>4 DEF Unmounted
      <4>. QED  BY <3>1, <4>1 DEF CallShape
    <3>. QED  BY <3>3, <3>4
  <2>5. OneLoad'
    <3>1. ASSUME NEW c \in calls', c.op \in Loads
          PROVE  c.waits = "nobody" \/ (c = load /\ NeedsLoad(t))
      BY <2>1, <2>4, <3>1
    <3>2. NeedsLoad(t) /\ op = "load-panel" => ~panelLoaded
      BY <2>1 DEF NeedsLoad
    <3>. QED  BY <2>2, <2>3, <3>1, <3>2 DEF OneLoad, Loads
  <2>6. \A c \in calls' : c.op = "fulfil" => \E b \in calls : b.op = "fulfil"
    BY <2>1, <2>3, <2>4
  <2>. QED  BY <2>2, <2>5, <2>6 DEF OfferInv, NotOfferedAgain
<1>3. ASSUME NEW u \in Users,
             \/ CreateUser(u) \/ ReissueInvite(u) \/ ResetUser(u) \/ DeleteUser(u) \/ RemoveMember(u)
      PROVE  OfferInv'
  <2>1. PICK op, c, new :
           /\ op \in {"create", "reissue", "reset", "delete", "remove"}
           /\ new = Call(op, u, c) /\ (Send(new) \/ Confirmed(new))
    BY <1>3 DEF CreateUser, ReissueInvite, ResetUser, DeleteUser, RemoveMember
  <2>2. UNCHANGED <<pending, panelLoaded, fulfilled>>
    BY <1>3 DEF CreateUser, ReissueInvite, ResetUser, DeleteUser, RemoveMember, panelVars, ghosts
  <2>3. new.op = op
    BY <2>1 DEF Call
  <2>. QED  BY <1>1, <2>1, <2>2, <2>3 DEF Loads
<1>4. ASSUME NEW u \in Users, ToggleStatus(u) PROVE OfferInv'
  <2>1. PICK s, new : new = [Call("status", u, NoColl) EXCEPT !.status = s] /\ Send(new)
    BY <1>4 DEF ToggleStatus
  <2>2. new.op = "status" /\ UNCHANGED <<pending, panelLoaded, fulfilled>>
    BY <1>4, <2>1 DEF ToggleStatus, Call, panelVars, ghosts
  <2>. QED  BY <1>1, <2>1, <2>2 DEF Loads
<1>5. CASE LoadOlder
  <2>1. PICK p, new : new = [Call("audit", NoUser, NoColl) EXCEPT !.page = p] /\ Send(new)
    BY <1>5 DEF LoadOlder
  <2>2. new.op = "audit" /\ UNCHANGED <<pending, panelLoaded, fulfilled>>
    BY <1>5, <2>1 DEF LoadOlder, Call, panelVars, ghosts
  <2>. QED  BY <1>1, <2>1, <2>2 DEF Loads
<1>6. ASSUME NEW c \in Collections, NEW u \in Users, AddMember(c, u) PROVE OfferInv'
  <2>1. PICK b, r, new : new = [Call("add", u, c) EXCEPT !.blob = b, !.relist = r] /\ Send(new)
    BY <1>6 DEF AddMember
  <2>2. new.op = "add" /\ UNCHANGED <<pending, panelLoaded, fulfilled>>
    BY <1>6, <2>1 DEF AddMember, Call, panelVars, ghosts
  <2>. QED  BY <1>1, <2>1, <2>2 DEF Loads
<1>7. ASSUME NEW g \in pending, NEW v \in Users, FulfilGrant(g, v) PROVE OfferInv'
  <2>1. PICK b, r, new : new = [Call("fulfil", g[2], g[1]) EXCEPT !.blob = b, !.relist = r] /\ Send(new)
    BY <1>7 DEF FulfilGrant
  <2>2. new.op = "fulfil" /\ UNCHANGED <<pending, panelLoaded, fulfilled>>
    BY <1>7, <2>1 DEF FulfilGrant, Call, panelVars, ghosts
  <2>3. panelLoaded
    BY DEF OfferInv, AnyAdminInv
  <2>. QED  BY <1>1, <2>1, <2>2, <2>3 DEF Loads
<1>8. ASSUME NEW c \in Collections, SelectCollection(c) PROVE OfferInv'
  <2>1. PICK new : new = Call("select", NoUser, c) /\ Send(new)
    BY <1>8 DEF SelectCollection
  <2>2. new.op = "select" /\ UNCHANGED <<pending, panelLoaded, fulfilled>>
    BY <1>8, <2>1 DEF SelectCollection, Call
  <2>. QED  BY <1>1, <2>1, <2>2 DEF Loads
<1>9. ASSUME DismissInvite \/ CollapseCollection \/ \E u \in Users : Enrol(u) PROVE OfferInv'
  <2>1. calls' = calls /\ UNCHANGED <<pending, fulfilled, panelLoaded>>
    BY <1>9 DEF DismissInvite, CollapseCollection, Enrol, panelVars, ghosts
  <2>. QED  BY <2>1, OfferRests
<1>. QED  BY <1>2, <1>3, <1>4, <1>5, <1>6, <1>7, <1>8, <1>9 DEF UserStep

(***************************************************************************)
(* Rows: an invite is of one account, and an account whose invite was      *)
(* answered has a row, unless a list came that was older than the account. *)
(***************************************************************************)
NeedsRow(u) == Exists(u) /\ account[u].invites \cap heard # {}
Rowed(u) == u \in overtaken \/ users[u] # NoRow \/ account[u].st = "deleted"
Numbered ==
    /\ heard \subseteq 0 .. invites /\ overtaken \subseteq Users
    /\ \A u \in Users :
          /\ account[u].invites \subseteq 1 .. invites
          /\ account[u].st = "absent" => account[u].invites = {}
          /\ users[u] # NoRow => account[u].st # "absent"
          /\ \A v \in Users : account[u].invites \cap account[v].invites # {} => u = v
RowCall(c) ==
    /\ c.invite \in 0 .. invites
    /\ \A u \in Users : /\ c.invite \in account[u].invites => u = c.user
                        /\ c.rows[u] # NoRow => account[u].st # "absent"
    /\ c.op = "delete" /\ c.at # "sent" => account[c.user].st = "deleted"
    /\ c.op = "create" /\ c.at # "sent" => account[c.user].st # "absent"
    /\ c.op \in {"reissue", "reset"} => Rowed(c.user)
RowsInv == Numbered /\ (\A c \in calls : RowCall(c)) /\ \A u \in Users : NeedsRow(u) => Rowed(u)

\* What a step of the server, or of an account's user, does to the accounts.
AccountsMove ==
    /\ invites' \in Nat /\ invites <= invites'
    /\ \A u \in Users :
          /\ account[u].st = "deleted" => account'[u].st = "deleted"
          /\ account[u].st # "absent" => account'[u].st # "absent"
          /\ account'[u].st = "absent" => account'[u].invites = {}
          /\ \A i \in account'[u].invites :
                i \in account[u].invites \/ (i > invites /\ i <= invites')
          /\ \A v \in Users : account'[u].invites \cap account'[v].invites # {} => u = v

\* Invites are numbers.
LEMMA InviteNumbers ==
    ASSUME AccountShape, Numbered, NEW u \in Users, NEW i \in account[u].invites
    PROVE  i \in Nat /\ i >= 1 /\ i <= invites
BY DEF AccountShape, Numbered

\* A call is no less right about accounts that have moved.
LEMMA RowCallKept ==
    ASSUME AccountShape, AccountShape', Numbered, AccountsMove, NEW c, CallShape(c), RowCall(c),
           UNCHANGED <<users, overtaken>>
    PROVE  RowCall(c)'
<1>1. invites \in Nat /\ invites' \in Nat /\ invites <= invites' /\ c.invite \in 0 .. invites
  BY DEF AccountsMove, AccountShape, RowCall
<1>2. c.invite \in 0 .. invites'
  BY <1>1
<1>3. ASSUME NEW u \in Users
      PROVE  /\ c.invite \in account'[u].invites => u = c.user
             /\ c.rows[u] # NoRow => account'[u].st # "absent"
  BY <1>1 DEF AccountsMove, RowCall
<1>4. c.op \in {"delete", "create", "reissue", "reset"} => c.user \in Users
  BY DEF CallShape, OfUser
<1>5. c.op \in {"reissue", "reset"} => Rowed(c.user)'
  BY <1>4 DEF Rowed, AccountsMove, RowCall
<1>6. /\ c.op = "delete" /\ c.at # "sent" => account'[c.user].st = "deleted"
      /\ c.op = "create" /\ c.at # "sent" => account'[c.user].st # "absent"
  BY <1>4 DEF AccountsMove, RowCall
<1>. QED  BY <1>2, <1>3, <1>5, <1>6 DEF RowCall

\* A call is served or made, and with it the accounts may move.
LEMMA RowsServed ==
    ASSUME AnyAdminInv, AccountShape', RowsInv, AccountsMove,
           UNCHANGED <<users, heard, overtaken>>,
           \A c \in calls' : c \in calls \/ RowCall(c)'
    PROVE  RowsInv'
<1>0. AccountShape /\ Numbered /\ \A c \in calls : CallShape(c) /\ RowCall(c)
  BY DEF AnyAdminInv, CallFits, RowsInv
<1>1. \A c \in calls' : RowCall(c)'
  BY <1>0, RowCallKept
<1>2. invites \in Nat /\ invites' \in Nat /\ invites <= invites'
  BY <1>0 DEF AccountsMove, AccountShape
<1>3. heard' \subseteq 0 .. invites' /\ overtaken' \subseteq Users
  BY <1>0, <1>2 DEF Numbered
<1>4. ASSUME NEW u \in Users
      PROVE  /\ account'[u].invites \subseteq 1 .. invites'
             /\ users'[u] # NoRow => account'[u].st # "absent"
  <2>1. \A i \in account'[u].invites : i \in Nat /\ i >= 1 /\ i <= invites'
    <3>. SUFFICES ASSUME NEW i \in account'[u].invites PROVE i \in Nat /\ i >= 1 /\ i <= invites'
      OBVIOUS
    <3>1. i \in Nat
      BY DEF AccountShape, Accounts
    <3>. QED  BY <1>0, <1>2, <3>1, InviteNumbers DEF AccountsMove
  <2>. QED  BY <1>0, <1>2, <2>1 DEF AccountsMove, Numbered
<1>5. ASSUME NEW u \in Users, NeedsRow(u)' PROVE Rowed(u)'
  <2>1. PICK i \in account'[u].invites : i \in heard
    BY <1>5 DEF NeedsRow
  <2>2. i \in Nat /\ i <= invites
    BY <1>0, <1>2, <2>1 DEF Numbered
  <2>3. i \in account[u].invites
    BY <1>2, <2>1, <2>2 DEF AccountsMove
  <2>4. NeedsRow(u)
    BY <1>0, <1>5, <2>1, <2>3 DEF NeedsRow, Exists, Numbered, AccountsMove
  <2>. QED  BY <2>4 DEF RowsInv, Rowed, AccountsMove
<1>6. Numbered'
  BY <1>3, <1>4 DEF Numbered, AccountsMove
<1>. QED  BY <1>1, <1>5, <1>6 DEF RowsInv

\* An answer arrives: the table, and the invites that were heard of.
LEMMA RowsAnswered ==
    ASSUME AnyAdminInv', RowsInv, UNCHANGED <<account, invites>>, overtaken' \subseteq Users,
           \A u \in Users : Rowed(u) => Rowed(u)',
           \A u \in Users : users'[u] # NoRow => account[u].st # "absent",
           NEW i \in 0 .. invites, heard' \subseteq heard \cup {i},
           heard' = heard \/ \A u \in Users : i \in account[u].invites => Rowed(u)',
           \A c \in calls' : c \in calls \/ RowCall(c)
    PROVE  RowsInv'
<1>1. Numbered'
  BY DEF RowsInv, Numbered
<1>2. ASSUME NEW c \in calls' PROVE RowCall(c)'
  <2>1. RowCall(c)
    BY <1>2 DEF RowsInv
  <2>2. c.op \in {"reissue", "reset"} => c.user \in Users
    BY <1>2 DEF AnyAdminInv, CallFits, CallShape, OfUser
  <2>. QED  BY <2>1, <2>2 DEF RowCall
<1>3. ASSUME NEW u \in Users, NeedsRow(u)' PROVE Rowed(u)'
  BY <1>3 DEF RowsInv, NeedsRow, Exists
<1>. QED  BY <1>1, <1>2, <1>3 DEF RowsInv

\* A call that is rewritten in what its rows and invite do not depend on.
LEMMA RowCallLike ==
    ASSUME NEW c, NEW new, RowCall(c), new.op = c.op, new.user = c.user,
           new.invite = c.invite, new.rows = c.rows,
           new.at # "sent" => c.at # "sent" \/ c.op \notin {"create", "delete"}
    PROVE  RowCall(new)
BY DEF RowCall

\* The server's tables are read.
LEMMA RowsRead ==
    ASSUME AnyAdminInv, RowsInv, NEW call \in calls,
           \/ ServeAdminLoad(call) \/ ServeUsers(call) \/ ServeAudit(call)
           \/ ServePanelLoad(call) \/ ServeMembers(call)
    PROVE  RowsInv'
<1>0. /\ CallShape(call) /\ RowCall(call) /\ AccountShape /\ Numbered
      /\ UNCHANGED <<account, invites, users, heard, overtaken>>
  BY DEF AnyAdminInv, CallFits, RowsInv, ServeAdminLoad, ServeUsers, ServeAudit, ServePanelLoad,
         ServeMembers, serverVars, adminVars, ghosts
<1>1. AccountShape' /\ AccountsMove
  BY <1>0 DEF AccountShape, AccountsMove, Numbered
<1>2. ASSUME NEW new, RowCall(new), Serve(call, new) \/ calls' = Becomes(call, new)
      PROVE  RowsInv'
  <2>1. RowCall(new)'
    BY <1>0, <1>2 DEF RowCall, Rowed
  <2>2. \A c \in calls' : c \in calls \/ RowCall(c)'
    BY <1>2, <2>1 DEF Serve, Becomes
  <2>. QED  BY <1>0, <1>1, <2>2, RowsServed
<1>3. ASSUME NEW new, Serve(call, new) \/ calls' = Becomes(call, new),
             new.op = call.op, new.user = call.user, new.invite = call.invite,
             new.rows \in {call.rows, ListUsers}, call.op \notin {"create", "delete"}
      PROVE  RowsInv'
  <2>1. \A u \in Users : ListUsers[u] # NoRow => account[u].st # "absent"
    BY DEF ListUsers, Exists
  <2>2. RowCall(new)
    BY <1>0, <1>3, <2>1 DEF RowCall
  <2>. QED  BY <1>2, <1>3, <2>2
<1>4. CASE ServeAdminLoad(call)
  <2>1. PICK p, new : /\ new = [call EXCEPT !.at = "served", !.rows = ListUsers, !.page = p]
                      /\ Serve(call, new)
    BY <1>4 DEF ServeAdminLoad
  <2>2. /\ new.op = call.op /\ new.user = call.user /\ new.invite = call.invite
        /\ new.rows = ListUsers /\ call.op \notin {"create", "delete"}
    BY <1>0, <1>4, <2>1 DEF CallShape, ServeAdminLoad, Serving
  <2>. QED  BY <1>3, <2>1, <2>2
<1>5. CASE ServeUsers(call)
  <2>1. PICK new : /\ new = [call EXCEPT !.at = "listed", !.rows = ListUsers]
                   /\ calls' = Becomes(call, new)
    BY <1>5 DEF ServeUsers
  <2>2. /\ new.op = call.op /\ new.user = call.user /\ new.invite = call.invite
        /\ new.rows = ListUsers /\ call.op \notin {"create", "delete"}
    BY <1>0, <1>5, <2>1 DEF CallShape, ServeUsers
  <2>. QED  BY <1>3, <2>1, <2>2
<1>6. CASE ServeAudit(call)
  <2>1. PICK p, new : new = [call EXCEPT !.at = "served", !.page = p] /\ Serve(call, new)
    BY <1>6 DEF ServeAudit
  <2>2. /\ new.op = call.op /\ new.user = call.user /\ new.invite = call.invite
        /\ new.rows = call.rows /\ call.op \notin {"create", "delete"}
    BY <1>0, <1>6, <2>1 DEF CallShape, ServeAudit, Serving
  <2>. QED  BY <1>3, <2>1, <2>2
<1>7. CASE ServePanelLoad(call)
  <2>1. PICK d, g, new : /\ new = [call EXCEPT !.at = "served", !.dir = d, !.grants = g]
                         /\ Serve(call, new)
    BY <1>7 DEF ServePanelLoad
  <2>2. /\ new.op = call.op /\ new.user = call.user /\ new.invite = call.invite
        /\ new.rows = call.rows /\ call.op \notin {"create", "delete"}
    BY <1>0, <1>7, <2>1 DEF CallShape, ServePanelLoad, Serving
  <2>. QED  BY <1>3, <2>1, <2>2
<1>8. CASE ServeMembers(call)
  <2>1. PICK l, a, new : new = [call EXCEPT !.list = l, !.at = a] /\ calls' = Becomes(call, new)
    BY <1>8 DEF ServeMembers
  <2>2. /\ new.op = call.op /\ new.user = call.user /\ new.invite = call.invite
        /\ new.rows = call.rows /\ call.op \notin {"create", "delete"}
    BY <1>0, <1>8, <2>1 DEF CallShape, ServeMembers
  <2>. QED  BY <1>3, <2>1, <2>2
<1>. QED  BY <1>4, <1>5, <1>6, <1>7, <1>8

\* One account moves: it keeps its invites, loses some or gets the one issued.
LEMMA OneAccountMoves ==
    ASSUME AccountShape, Numbered, NEW u \in Users, NEW a \in Accounts,
           account' = [account EXCEPT ![u] = a], invites' \in {invites, invites + 1},
           a.st # "absent", account[u].st = "deleted" => a.st = "deleted",
           \A i \in a.invites : i \in account[u].invites \/ (i = invites + 1 /\ i = invites')
    PROVE  AccountsMove
<1>1. /\ invites \in Nat /\ invites' \in Nat /\ invites <= invites'
      /\ account'[u] = a /\ \A v \in Users \ {u} : account'[v] = account[v]
  BY DEF AccountShape
<1>2. \A v \in Users : \A i \in account[v].invites : i \in Nat /\ i <= invites
  BY InviteNumbers
<1>3. \A v \in Users : \A i \in account'[v].invites :
         i \in account[v].invites \/ (v = u /\ i > invites /\ i <= invites')
  BY <1>1
<1>4. ASSUME NEW v \in Users, NEW w \in Users, NEW i \in account'[v].invites, i \in account'[w].invites
      PROVE  v = w
  <2>1. CASE i \in account[v].invites /\ i \in account[w].invites
    BY <2>1 DEF Numbered
  <2>2. CASE i \notin account[v].invites \/ i \notin account[w].invites
    BY <1>1, <1>2, <1>3, <1>4, <2>2
  <2>. QED  BY <2>1, <2>2
<1>5. \A v \in Users : account'[v].st = "absent" => account'[v].invites = {}
  BY <1>1 DEF Numbered
<1>. QED  BY <1>1, <1>3, <1>4, <1>5 DEF AccountsMove

\* The server issues an invite.
LEMMA RowsInvited ==
    ASSUME AnyAdminInv, AnyAdminInv', RowsInv, NEW call \in calls,
           ServeCreate(call) \/ ServeReissue(call) \/ ServeReset(call)
    PROVE  RowsInv'
<1>0. /\ CallShape(call) /\ RowCall(call) /\ AccountShape /\ Numbered /\ AccountShape'
      /\ UNCHANGED <<users, heard, overtaken>> /\ NewInvite
      /\ call.op \in {"create", "reissue", "reset"} /\ call.at = "sent"
  BY DEF AnyAdminInv, CallFits, RowsInv, ServeCreate, ServeReissue, ServeReset, Serving,
         adminVars, ghosts
<1>1. PICK u \in Users : u = call.user
  BY <1>0 DEF CallShape, OfUser
<1>2. PICK new : new = [call EXCEPT !.at = "served", !.invite = invites + 1]
  OBVIOUS
<1>3. Serve(call, new)
  BY <1>2 DEF ServeCreate, ServeReissue, ServeReset
<1>4. /\ new.op = call.op /\ new.user = u /\ new.rows = call.rows /\ new.at = "served"
      /\ new.invite = invites + 1
  BY <1>0, <1>1, <1>2 DEF CallShape
<1>5. PICK a \in Accounts : /\ account' = [account EXCEPT ![u] = a] /\ a.st = "pending"
                            /\ a.invites = account[u].invites \cup {invites + 1}
  <2>0. PICK r \in Accounts, is \in SUBSET Nat :
           r = account[u] /\ is = account[u].invites \cup {invites + 1}
    <3>1. account[u] \in Accounts /\ invites + 1 \in Nat
      BY <1>0 DEF AccountShape
    <3>2. account[u].invites \in SUBSET Nat
      BY <3>1 DEF Accounts
    <3>. QED  BY <3>1, <3>2
  <2>1. CASE ServeCreate(call) \/ ServeReissue(call)
    <3>1. PICK b : b = [r EXCEPT !.st = "pending", !.invites = is]
      OBVIOUS
    <3>2. b \in Accounts /\ b.st = "pending" /\ b.invites = is
      BY <3>1 DEF Accounts, Statuses
    <3>3. account' = [account EXCEPT ![u] = b]
      BY <1>0, <1>1, <2>0, <2>1, <3>1 DEF ServeCreate, ServeReissue, Issue, AccountShape
    <3>. QED  BY <2>0, <3>2, <3>3
  <2>2. CASE ServeReset(call)
    <3>1. PICK b : b = [r EXCEPT !.st = "pending", !.invites = is, !.key = 0]
      OBVIOUS
    <3>2. b \in Accounts /\ b.st = "pending" /\ b.invites = is
      BY <3>1 DEF Accounts, Statuses
    <3>3. account' = [account EXCEPT ![u] = b]
      BY <1>0, <1>1, <2>0, <2>2, <3>1 DEF ServeReset, Issue, AccountShape
    <3>. QED  BY <2>0, <3>2, <3>3
  <2>. QED  BY <2>1, <2>2, <1>0 DEF ServeCreate, ServeReissue, ServeReset
<1>6. invites' = invites + 1 /\ invites \in Nat
  BY <1>0 DEF NewInvite, AccountShape
<1>7. account[u].st # "deleted"
  BY <1>0, <1>1 DEF ServeCreate, ServeReissue, ServeReset, Exists
<1>8. AccountsMove
  BY <1>0, <1>5, <1>6, <1>7, OneAccountMoves
<1>9. RowCall(new)'
  <2>1. RowCall(call)'
    BY <1>0, <1>8, RowCallKept
  <2>2. account'[u] = a
    BY <1>0, <1>5 DEF AccountShape
  <2>3. \A v \in Users : new.invite \in account'[v].invites => v = u
    BY <1>4, <1>5, <1>8, <2>2 DEF AccountsMove
  <2>4. new.invite \in 0 .. invites'
    BY <1>4, <1>6
  <2>. QED  BY <1>0, <1>1, <1>4, <1>5, <2>1, <2>2, <2>3, <2>4 DEF RowCall
<1>10. \A c \in calls' : c \in calls \/ RowCall(c)'
  BY <1>3, <1>9 DEF Serve, Becomes
<1>. QED  BY <1>0, <1>8, <1>10, RowsServed

\* The server disables, enables or deletes an account, or writes a membership.
LEMMA RowsWritten ==
    ASSUME AnyAdminInv, AnyAdminInv', RowsInv, NEW call \in calls,
           \/ ServeStatus(call) \/ ServeDelete(call)
           \/ ServeFulfil(call) \/ ServeAdd(call) \/ ServeRemove(call)
    PROVE  RowsInv'
<1>0. /\ CallShape(call) /\ RowCall(call) /\ AccountShape /\ Numbered /\ AccountShape'
      /\ UNCHANGED <<invites, users, heard, overtaken>>
      /\ call.op \in {"status", "delete", "fulfil", "add", "remove"} /\ call.at = "sent"
  BY DEF AnyAdminInv, CallFits, RowsInv, ServeStatus, ServeDelete, ServeFulfil, ServeAdd,
         ServeRemove, Serving, adminVars, ghosts
<1>1. PICK u \in Users : u = call.user
  BY <1>0 DEF CallShape, OfUser
<1>2. PICK new : new = [call EXCEPT !.at = "served"]
  OBVIOUS
<1>3. Serve(call, new)
  BY <1>2 DEF ServeStatus, ServeDelete, ServeFulfil, ServeAdd, ServeRemove
<1>4. /\ new.op = call.op /\ new.user = u /\ new.rows = call.rows /\ new.at = "served"
      /\ new.invite = call.invite
  BY <1>0, <1>1, <1>2 DEF CallShape
<1>5. PICK r \in Accounts : r = account[u]
  BY <1>0 DEF AccountShape
<1>6. ASSUME AccountsMove, call.op = "delete" => account'[u].st = "deleted" PROVE RowsInv'
  <2>1. RowCall(call)'
    BY <1>0, <1>6, RowCallKept
  <2>2. RowCall(new)'
    BY <1>0, <1>1, <1>4, <1>6, <2>1 DEF RowCall
  <2>3. \A c \in calls' : c \in calls \/ RowCall(c)'
    BY <1>3, <2>2 DEF Serve, Becomes
  <2>. QED  BY <1>0, <1>6, <2>3, RowsServed
<1>7. CASE ServeStatus(call)
  <2>1. PICK a : a = [r EXCEPT !.st = call.status]
    OBVIOUS
  <2>2. call.status \in Statuses \ {"absent"} /\ call.op = "status"
    BY <1>0, <1>7 DEF CallShape, ServeStatus, Serving, Statuses
  <2>3. a \in Accounts /\ a.st = call.status /\ a.invites = r.invites
    BY <2>1, <2>2 DEF Accounts
  <2>4. account' = [account EXCEPT ![u] = a] /\ account[u].st # "deleted"
    BY <1>0, <1>1, <1>5, <1>7, <2>1 DEF ServeStatus, Exists, AccountShape
  <2>5. AccountsMove
    BY <1>0, <1>5, <2>2, <2>3, <2>4, OneAccountMoves
  <2>. QED  BY <1>6, <2>2, <2>5
<1>8. CASE ServeDelete(call)
  <2>1. PICK a : a = [r EXCEPT !.st = "deleted", !.invites = {}, !.key = 0]
    OBVIOUS
  <2>2. a \in Accounts /\ a.st = "deleted" /\ a.invites = {}
    BY <2>1 DEF Accounts, Statuses
  <2>3. account' = [account EXCEPT ![u] = a]
    BY <1>1, <1>5, <1>8, <2>1 DEF ServeDelete
  <2>4. AccountsMove
    BY <1>0, <2>2, <2>3, OneAccountMoves
  <2>5. account'[u] = a
    BY <1>0, <2>3 DEF AccountShape
  <2>. QED  BY <1>6, <2>2, <2>4, <2>5
<1>9. CASE ServeFulfil(call) \/ ServeAdd(call) \/ ServeRemove(call)
  <2>1. account' = account /\ call.op # "delete"
    BY <1>9 DEF ServeFulfil, ServeAdd, ServeRemove, Serving
  <2>2. AccountsMove
    BY <1>0, <2>1 DEF AccountsMove, AccountShape, Numbered
  <2>. QED  BY <1>6, <2>1, <2>2
<1>. QED  BY <1>7, <1>8, <1>9

\* A list is put in the table: who it lacks and is there has overtaken it.
LEMMA RowsListed ==
    ASSUME AnyAdminInv, RowsInv, NEW call \in calls, ListShown(call), account' = account
    PROVE  /\ overtaken' \subseteq Users
           /\ \A u \in Users : Rowed(u) => Rowed(u)'
           /\ \A u \in Users : users'[u] # NoRow => account[u].st # "absent"
<1>1. RowCall(call) /\ Numbered
  BY DEF RowsInv
<1>2. users' = call.rows /\ overtaken' = overtaken \cup {u \in Users : Exists(u) /\ call.rows[u] = NoRow}
  BY DEF ListShown
<1>3. ASSUME NEW u \in Users, Rowed(u) PROVE Rowed(u)'
  <2>1. account[u].st # "absent" \/ u \in overtaken
    BY <1>1, <1>3 DEF Rowed, Numbered
  <2>. QED  BY <1>2, <2>1 DEF Rowed, Exists
<1>. QED  BY <1>1, <1>2, <1>3 DEF RowCall, Numbered

\* A request is refused or lost; an answer arrives.
LEMMA RowsSettle ==
    ASSUME AnyAdminInv, AnyAdminInv', RowsInv, NEW call \in calls, Refuse(call) \/ Settle(call)
    PROVE  RowsInv'
<1>0. /\ CallShape(call) /\ RowCall(call) /\ Numbered /\ AccountShape /\ ScreenShape
      /\ UNCHANGED <<account, invites>>
  BY DEF AnyAdminInv, CallFits, RowsInv, serverVars, Refuse, Settle, AdminLoaded, Created,
         Reissued, StatusSet, ResetAnswered, Deleted, OlderLoaded, PanelLoaded, Selected,
         Fulfilled, Added, Removed, ResetDone, Relisted, Fails
<1>1. \A u \in Users : users[u] # NoRow => account[u].st # "absent"
  BY <1>0 DEF Numbered
<1>2. overtaken \subseteq Users /\ call.invite \in 0 .. invites
  BY <1>0 DEF Numbered, RowCall
<1>3. /\ RowCall([call EXCEPT !.waits = "nobody"])
      /\ call.at # "sent" => RowCall([call EXCEPT !.at = "listing"])
  <2>1. PICK c, d : c = [call EXCEPT !.waits = "nobody"] /\ d = [call EXCEPT !.at = "listing"]
    OBVIOUS
  <2>2. /\ c.op = call.op /\ c.user = call.user /\ c.invite = call.invite
        /\ c.rows = call.rows /\ c.at = call.at
        /\ d.op = call.op /\ d.user = call.user /\ d.invite = call.invite /\ d.rows = call.rows
    BY <1>0, <2>1 DEF CallShape
  <2>. QED  BY <1>0, <2>1, <2>2, RowCallLike
\* The table and what was heard stay as they are.
<1>4. ASSUME UNCHANGED <<users, heard, overtaken>>,
             \/ calls' \subseteq calls
             \/ calls' = Becomes(call, [call EXCEPT !.waits = "nobody"])
             \/ calls' = Becomes(call, [call EXCEPT !.at = "listing"]) /\ call.at # "sent"
      PROVE  RowsInv'
  <2>1. \A c \in calls' : c \in calls \/ RowCall(c)
    BY <1>3, <1>4 DEF Becomes
  <2>2. \A u \in Users : Rowed(u) => Rowed(u)'
    BY <1>0, <1>4 DEF Rowed
  <2>. QED  BY <1>0, <1>1, <1>2, <1>4, <2>1, <2>2, RowsAnswered
<1>5. ASSUME Refuse(call) \/ \E b \in BOOLEAN : Fails(call, b) PROVE RowsInv'
  BY <1>4, <1>5 DEF Refuse, Fails, adminVars, ghosts
<1>6. CASE OlderLoaded(call) \/ PanelLoaded(call) \/ Selected(call) \/ Removed(call)
           \/ \E b \in BOOLEAN : Relisted(call, b)
  <2>1. UNCHANGED <<users, heard, overtaken>> /\ calls' \subseteq calls
    BY <1>6 DEF OlderLoaded, PanelLoaded, Selected, Removed, Relisted, Ended, adminVars, ghosts
  <2>. QED  BY <1>4, <2>1
<1>7. CASE Fulfilled(call) \/ Added(call)
  <2>1. /\ UNCHANGED <<users, heard, overtaken>> /\ call.at = "served"
        /\ calls' \subseteq calls \/ calls' = Becomes(call, [call EXCEPT !.at = "listing"])
    BY <1>7 DEF Fulfilled, Added, Answered, ThenRelist, adminVars, ghosts
  <2>. QED  BY <1>4, <2>1
<1>8. CASE AdminLoaded(call)
  <2>1. ListShown(call) /\ heard' = heard /\ calls' \subseteq calls
    BY <1>8 DEF AdminLoaded, Ended
  <2>. QED  BY <1>0, <1>2, <2>1, RowsListed, RowsAnswered
<1>9. ASSUME NEW b \in BOOLEAN, ResetDone(call, b) PROVE RowsInv'
  <2>1. heard' = heard /\ calls' \subseteq calls
    BY <1>9 DEF ResetDone, Ended
  <2>2. CASE b
    <3>1. ListShown(call)
      BY <1>9, <2>2 DEF ResetDone
    <3>. QED  BY <1>0, <1>2, <2>1, <3>1, RowsListed, RowsAnswered
  <2>3. CASE ~b
    <3>1. UNCHANGED <<users, heard, overtaken>>
      BY <1>9, <2>1, <2>3 DEF ResetDone
    <3>. QED  BY <1>4, <2>1, <3>1
  <2>. QED  BY <2>2, <2>3
<1>10. CASE StatusSet(call) \/ Deleted(call)
  <2>1. /\ UNCHANGED <<heard, overtaken>> /\ calls' \subseteq calls /\ call.user \in Users
        /\ call.at = "served"
    BY <1>0, <1>10 DEF StatusSet, Deleted, Answered, Ended, CallShape, OfUser, ghosts
  <2>2. /\ \A u \in Users : users'[u] # NoRow => users[u] # NoRow
        /\ \A u \in Users : users[u] # NoRow /\ account[u].st # "deleted" => users'[u] # NoRow
    <3>1. users \in [Users -> Rows]
      BY <1>0 DEF ScreenShape
    <3>2. CASE StatusSet(call)
      <4>0. PICK v \in Users : v = call.user
        BY <2>1
      <4>1. CASE users[v] = NoRow
        BY <3>2, <4>0, <4>1 DEF StatusSet
      <4>2. CASE users[v] # NoRow
        <5>1. PICK a : a = [users[v] EXCEPT !.st = call.status]
          OBVIOUS
        <5>2. users' = [users EXCEPT ![v] = a]
          BY <3>1, <3>2, <4>0, <4>2, <5>1 DEF StatusSet
        <5>3. call.status # "absent"
          BY <1>0, <3>2 DEF CallShape, StatusSet, Answered
        <5>4. a.st = call.status
          BY <3>1, <5>1 DEF Rows
        <5>5. a # NoRow
          BY <5>3, <5>4 DEF NoRow
        <5>. QED  BY <3>1, <4>2, <5>2, <5>5
      <4>. QED  BY <4>1, <4>2
    <3>3. CASE Deleted(call)
      <4>1. account[call.user].st = "deleted"
        BY <1>0, <2>1, <3>3 DEF RowCall, Deleted, Answered
      <4>. QED  BY <2>1, <3>1, <3>3, <4>1 DEF Deleted
    <3>. QED  BY <1>10, <3>2, <3>3
  <2>3. \A u \in Users : Rowed(u) => Rowed(u)'
    BY <1>0, <2>1, <2>2 DEF Rowed
  <2>. QED  BY <1>0, <1>1, <1>2, <2>1, <2>2, <2>3, RowsAnswered
<1>11. CASE Created(call)
  <2>1. /\ overtaken' = overtaken /\ calls' \subseteq calls /\ call.user \in Users
        /\ call.op = "create" /\ call.at = "served" /\ heard' = heard \cup {call.invite}
        /\ users' = [users EXCEPT ![call.user] = [st |-> "pending", hasInvite |-> TRUE]]
    BY <1>0, <1>11 DEF Created, Answered, Ended, CallShape, OfUser
  <2>2. users \in [Users -> Rows]
    BY <1>0 DEF ScreenShape
  <2>3. /\ users'[call.user] # NoRow /\ account[call.user].st # "absent"
        /\ \A u \in Users : users'[u] = users[u] \/ u = call.user
    BY <1>0, <2>1, <2>2 DEF NoRow, RowCall
  <2>5. \A u \in Users : Rowed(u) => Rowed(u)'
    BY <1>0, <2>1, <2>3 DEF Rowed
  <2>6. \A u \in Users : call.invite \in account[u].invites => Rowed(u)'
    BY <1>0, <2>3 DEF Rowed, RowCall
  <2>7. \A u \in Users : users'[u] # NoRow => account[u].st # "absent"
    BY <1>1, <2>3
  <2>8. heard' \subseteq heard \cup {call.invite} /\ overtaken' \subseteq Users
    BY <1>2, <2>1
  <2>9. \A c \in calls' : c \in calls \/ RowCall(c)
    BY <2>1
  <2>. QED  BY <1>0, <1>2, <2>5, <2>6, <2>7, <2>8, <2>9, RowsAnswered
<1>12. CASE Reissued(call) \/ ResetAnswered(call)
  <2>1. /\ UNCHANGED <<users, overtaken>> /\ heard' = heard \cup {call.invite}
        /\ call.op \in {"reissue", "reset"} /\ call.at = "served"
        /\ calls' \subseteq calls \/ calls' = Becomes(call, [call EXCEPT !.at = "listing"])
    BY <1>12 DEF Reissued, ResetAnswered, Answered, Ended, adminVars
  <2>3. \A c \in calls' : c \in calls \/ RowCall(c)
    BY <1>3, <2>1 DEF Becomes
  <2>4. \A u \in Users : Rowed(u) => Rowed(u)'
    BY <1>0, <2>1 DEF Rowed
  <2>5. \A u \in Users : call.invite \in account[u].invites => Rowed(u)'
    BY <1>0, <2>1, <2>4 DEF RowCall
  <2>6. heard' \subseteq heard \cup {call.invite} /\ overtaken' \subseteq Users
    BY <1>2, <2>1
  <2>7. \A u \in Users : users'[u] # NoRow => account[u].st # "absent"
    BY <1>1, <2>1
  <2>. QED  BY <1>0, <1>2, <2>3, <2>4, <2>5, <2>6, <2>7, RowsAnswered
<1>. QED  BY <1>5, <1>6, <1>7, <1>8, <1>9, <1>10, <1>11, <1>12 DEF Settle

\* The administrator acts; the user of an account enrols.
LEMMA RowsUserSteps ==
    ASSUME AnyAdminInv, AnyAdminInv', RowsInv, UserStep
    PROVE  RowsInv'
<1>0. Numbered /\ AccountShape /\ AccountShape' /\ ScreenShape
      /\ \A c \in calls : CallShape(c) /\ RowCall(c)
  BY DEF AnyAdminInv, CallFits, RowsInv
<1>1. ASSUME UNCHANGED <<account, invites>> PROVE AccountsMove
  BY <1>0, <1>1 DEF AccountsMove, AccountShape, Numbered
<1>2. 0 \in 0 .. invites /\ \A u \in Users : 0 \notin account[u].invites
  <2>1. invites \in Nat
    BY <1>0 DEF AccountShape
  <2>2. \A u \in Users : account[u].invites \subseteq 1 .. invites
    BY <1>0 DEF Numbered
  <2>. QED  BY <2>1, <2>2
\* A call that is made is not served and lists nobody.
<1>3. ASSUME NEW new, CallShape(new), new.invite = 0, new.at = "sent",
             new.rows = [v \in Users |-> NoRow],
             new.op \in {"reissue", "reset"} => users[new.user] # NoRow
      PROVE  RowCall(new)
  BY <1>2, <1>3 DEF RowCall, Rowed
<1>4. ASSUME NEW new, RowCall(new), Send(new) \/ Confirmed(new),
             UNCHANGED <<account, invites, users, heard, overtaken>>
      PROVE  RowsInv'
  <2>1. \A c \in calls' : c \in calls \/ RowCall(c)'
    BY <1>4 DEF Send, Confirmed, RowCall, Rowed
  <2>. QED  BY <1>0, <1>1, <1>4, <2>1, RowsServed
<1>5. ASSUME NEW op, NEW u, NEW c, NEW new, new.op = op, new.user = u,
             new.invite = 0, new.at = "sent", new.rows = [v \in Users |-> NoRow],
             op \in {"reissue", "reset"} => users[u] # NoRow
      PROVE  RowCall(new)
  BY <1>2, <1>5 DEF RowCall, Rowed
<1>6. ASSUME NEW t \in Tabs, OpenTab(t) PROVE RowsInv'
  <2>1. PICK op, load :
           /\ op = (IF t = "admin" THEN "load-admin" ELSE "load-panel")
           /\ load = Call(op, NoUser, NoColl)
           /\ calls' = {Unmounted(c) : c \in calls} \cup (IF NeedsLoad(t) THEN {load} ELSE {})
    BY <1>6 DEF OpenTab
  <2>2. UNCHANGED <<account, invites, users, heard, overtaken>>
    BY <1>6 DEF OpenTab, serverVars, ghosts
  <2>3. RowCall(load)
    <3>1. /\ load.op = op /\ load.user = NoUser /\ load.invite = 0 /\ load.at = "sent"
          /\ load.rows = [v \in Users |-> NoRow] /\ op \notin {"reissue", "reset"}
      BY <2>1 DEF Call
    <3>. QED  BY <1>5, <3>1
  <2>4. ASSUME NEW c \in calls, NEW d, d = Unmounted(c) PROVE RowCall(d)
    <3>1. CASE d = c
      BY <1>0, <3>1
    <3>2. CASE d # c
      <4>1. PICK w : d = [c EXCEPT !.waits = w]
        BY <2>4, <3>2 DEF Unmounted
      <4>2. /\ d.op = c.op /\ d.user = c.user /\ d.invite = c.invite
            /\ d.rows = c.rows /\ d.at = c.at
        BY <1>0, <4>1 DEF CallShape
      <4>. QED  BY <1>0, <4>2, RowCallLike
    <3>. QED  BY <3>1, <3>2
  <2>5. \A c \in calls' : RowCall(c)
    BY <2>1, <2>3, <2>4
  <2>6. \A c \in calls' : RowCall(c)'
    BY <2>2, <2>5 DEF RowCall, Rowed
  <2>. QED  BY <1>0, <1>1, <2>2, <2>6, RowsServed
<1>7. ASSUME NEW u \in Users,
             \/ CreateUser(u) \/ ReissueInvite(u) \/ ResetUser(u) \/ DeleteUser(u) \/ RemoveMember(u)
      PROVE  RowsInv'
  <2>1. PICK op, c, new :
           /\ op \in {"create", "reissue", "reset", "delete", "remove"}
           /\ new = Call(op, u, c) /\ (Send(new) \/ Confirmed(new))
           /\ op \in {"reissue", "reset"} => users[u] # NoRow
    BY <1>7 DEF CreateUser, ReissueInvite, ResetUser, DeleteUser, RemoveMember, NoRow
  <2>2. UNCHANGED <<account, invites, users, heard, overtaken>>
    BY <1>7 DEF CreateUser, ReissueInvite, ResetUser, DeleteUser, RemoveMember, serverVars,
                adminVars, ghosts
  <2>3. /\ new.op = op /\ new.user = u /\ new.invite = 0 /\ new.at = "sent"
        /\ new.rows = [v \in Users |-> NoRow]
    BY <2>1 DEF Call
  <2>. QED  BY <1>4, <1>5, <2>1, <2>2, <2>3
<1>8. ASSUME NEW new, Send(new), UNCHANGED <<account, invites, users, heard, overtaken>>,
             new.op \notin {"reissue", "reset"}, new.invite = 0, new.at = "sent",
             new.rows = [v \in Users |-> NoRow]
      PROVE  RowsInv'
  BY <1>4, <1>5, <1>8
<1>9. ASSUME NEW u \in Users, ToggleStatus(u) PROVE RowsInv'
  <2>1. PICK s, new : new = [Call("status", u, NoColl) EXCEPT !.status = s] /\ Send(new)
    BY <1>9 DEF ToggleStatus
  <2>2. UNCHANGED <<account, invites, users, heard, overtaken>>
    BY <1>9 DEF ToggleStatus, serverVars, adminVars, ghosts
  <2>3. /\ new.op = "status" /\ new.invite = 0 /\ new.at = "sent"
        /\ new.rows = [v \in Users |-> NoRow]
    BY <2>1 DEF Call
  <2>. QED  BY <1>8, <2>1, <2>2, <2>3
<1>10. CASE LoadOlder
  <2>1. PICK p, new : new = [Call("audit", NoUser, NoColl) EXCEPT !.page = p] /\ Send(new)
    BY <1>10 DEF LoadOlder
  <2>2. UNCHANGED <<account, invites, users, heard, overtaken>>
    BY <1>10 DEF LoadOlder, serverVars, adminVars, ghosts
  <2>3. /\ new.op = "audit" /\ new.invite = 0 /\ new.at = "sent"
        /\ new.rows = [v \in Users |-> NoRow]
    BY <2>1 DEF Call
  <2>. QED  BY <1>8, <2>1, <2>2, <2>3
<1>11. ASSUME NEW c \in Collections, SelectCollection(c) PROVE RowsInv'
  <2>1. PICK new : new = Call("select", NoUser, c) /\ Send(new)
    BY <1>11 DEF SelectCollection
  <2>2. UNCHANGED <<account, invites, users, heard, overtaken>>
    BY <1>11 DEF SelectCollection, serverVars, adminVars
  <2>3. /\ new.op = "select" /\ new.invite = 0 /\ new.at = "sent"
        /\ new.rows = [v \in Users |-> NoRow]
    BY <2>1 DEF Call
  <2>. QED  BY <1>8, <2>1, <2>2, <2>3
<1>12. ASSUME NEW c \in Collections, NEW u \in Users, AddMember(c, u) PROVE RowsInv'
  <2>1. PICK b, r, new : new = [Call("add", u, c) EXCEPT !.blob = b, !.relist = r] /\ Send(new)
    BY <1>12 DEF AddMember
  <2>2. UNCHANGED <<account, invites, users, heard, overtaken>>
    BY <1>12 DEF AddMember, serverVars, adminVars, ghosts
  <2>3. /\ new.op = "add" /\ new.invite = 0 /\ new.at = "sent"
        /\ new.rows = [v \in Users |-> NoRow]
    BY <2>1 DEF Call
  <2>. QED  BY <1>8, <2>1, <2>2, <2>3
<1>15. ASSUME NEW g \in pending, NEW v \in Users, FulfilGrant(g, v) PROVE RowsInv'
  <2>1. PICK b, r, new : new = [Call("fulfil", g[2], g[1]) EXCEPT !.blob = b, !.relist = r] /\ Send(new)
    BY <1>15 DEF FulfilGrant
  <2>2. UNCHANGED <<account, invites, users, heard, overtaken>>
    BY <1>15 DEF FulfilGrant, serverVars, adminVars, ghosts
  <2>3. /\ new.op = "fulfil" /\ new.invite = 0 /\ new.at = "sent"
        /\ new.rows = [w \in Users |-> NoRow]
    BY <2>1 DEF Call
  <2>. QED  BY <1>8, <2>1, <2>2, <2>3
<1>13. CASE DismissInvite \/ CollapseCollection
  <2>1. UNCHANGED <<account, invites, users, heard, overtaken, calls>>
    BY <1>13 DEF DismissInvite, CollapseCollection, serverVars, adminVars, ghosts
  <2>. QED  BY <1>0, <1>1, <2>1, RowsServed
<1>14. ASSUME NEW u \in Users, Enrol(u) PROVE RowsInv'
  <2>1. PICK r \in Accounts : r = account[u] /\ r.st = "pending"
    BY <1>0, <1>14 DEF AccountShape, Enrol
  <2>2. PICK i, a :
           /\ a = [st |-> "active", invites |-> r.invites \ {i},
                   key |-> r.pairs + 1, pairs |-> r.pairs + 1]
           /\ account' = [account EXCEPT ![u] = a]
    BY <1>14, <2>1 DEF Enrol
  <2>3. a \in Accounts /\ a.st = "active" /\ a.invites \subseteq account[u].invites
    BY <2>1, <2>2 DEF Accounts, Statuses
  <2>4. UNCHANGED <<invites, calls, users, heard, overtaken>>
    BY <1>14 DEF Enrol, adminVars, ghosts
  <2>5. AccountsMove
    BY <1>0, <2>1, <2>2, <2>3, <2>4, OneAccountMoves
  <2>. QED  BY <1>0, <2>4, <2>5, RowsServed
<1>. QED
  BY <1>6, <1>7, <1>9, <1>10, <1>11, <1>12, <1>13, <1>14, <1>15 DEF UserStep

(***************************************************************************)
(* Members: a list that is on its way is of the open collection, unless    *)
(* that one was opened while the members of another were on their way.     *)
(***************************************************************************)
MembersInv ==
    /\ crossed \in BOOLEAN
    /\ ~crossed =>
          /\ \A c \in calls : Brings(c) => selected \in {c.coll, NoColl}
          /\ (\A c \in calls : c.op # "select") /\ selected # NoColl /\ members.list # {}
                => members.of = selected

\* A call that is rewritten is of the same collection, and brings no more.
LikeBrought(c, new) ==
    /\ new.op = c.op /\ new.coll = c.coll /\ new.relist = c.relist
    /\ new.waits # "nobody" => c.waits # "nobody"

\* The calls are served, given up or left, the panel stays as it is.
LEMMA MembersRest ==
    ASSUME MembersInv, UNCHANGED <<selected, members, crossed>>,
           \A d \in calls' : d \in calls \/ (\E c \in calls : LikeBrought(c, d))
                            \/ (Brings(d) => selected \in {d.coll, NoColl}),
           \A c \in calls : c.op = "select" => \E d \in calls' : d.op = "select"
    PROVE  MembersInv'
<1>1. ASSUME ~crossed, NEW d \in calls', Brings(d) PROVE selected \in {d.coll, NoColl}
  BY <1>1 DEF MembersInv, LikeBrought, Brings
<1>. QED  BY <1>1 DEF MembersInv, Brings

\* The server's answers; a call nobody waits for is gone, unless it is a load.
LEMMA MembersServed ==
    ASSUME AnyAdminInv, MembersInv, NEW call \in calls, ServerStep(call), ~Refuse(call)
    PROVE  MembersInv'
<1>0. CallShape(call)
  BY DEF AnyAdminInv, CallFits
<1>1. UNCHANGED <<selected, members, crossed>>
  BY DEF ServerStep, ServeAdminLoad, ServeCreate, ServeReissue, ServeStatus, ServeReset, ServeUsers,
         ServeDelete, ServeAudit, ServePanelLoad, ServeMembers, ServeFulfil, ServeAdd, ServeRemove,
         panelVars, ghosts
<1>2. ASSUME NEW new, Serve(call, new) \/ calls' = Becomes(call, new), LikeBrought(call, new)
      PROVE  MembersInv'
  <2>1. \A d \in calls' : d \in calls \/ \E c \in calls : LikeBrought(c, d)
    BY <1>2 DEF Serve, Becomes
  <2>2. \A c \in calls : c.op = "select" => \E d \in calls' : d.op = "select"
    BY <1>0, <1>2 DEF Serve, Becomes, LikeBrought, CallShape, Live, Loads
  <2>. QED  BY <1>1, <2>1, <2>2, MembersRest
<1>3. \E new : (Serve(call, new) \/ calls' = Becomes(call, new)) /\ LikeBrought(call, new)
  <2>1. CASE ServeAdminLoad(call)
    <3>1. PICK r, p, new : /\ new = [call EXCEPT !.at = "served", !.rows = r, !.page = p]
                           /\ Serve(call, new)
      BY <2>1 DEF ServeAdminLoad
    <3>2. LikeBrought(call, new)
      BY <1>0, <3>1 DEF CallShape, LikeBrought
    <3>. QED  BY <3>1, <3>2
  <2>2. CASE ServeUsers(call)
    <3>1. PICK r, new : new = [call EXCEPT !.at = "listed", !.rows = r] /\ calls' = Becomes(call, new)
      BY <2>2 DEF ServeUsers
    <3>2. LikeBrought(call, new)
      BY <1>0, <3>1 DEF CallShape, LikeBrought
    <3>. QED  BY <3>1, <3>2
  <2>3. CASE ServeAudit(call)
    <3>1. PICK p, new : new = [call EXCEPT !.at = "served", !.page = p] /\ Serve(call, new)
      BY <2>3 DEF ServeAudit
    <3>2. LikeBrought(call, new)
      BY <1>0, <3>1 DEF CallShape, LikeBrought
    <3>. QED  BY <3>1, <3>2
  <2>4. CASE ServePanelLoad(call)
    <3>1. PICK e, g, new : new = [call EXCEPT !.at = "served", !.dir = e, !.grants = g] /\ Serve(call, new)
      BY <2>4 DEF ServePanelLoad
    <3>2. LikeBrought(call, new)
      BY <1>0, <3>1 DEF CallShape, LikeBrought
    <3>. QED  BY <3>1, <3>2
  <2>5. CASE ServeMembers(call)
    <3>1. PICK l, a, new : new = [call EXCEPT !.list = l, !.at = a] /\ calls' = Becomes(call, new)
      BY <2>5 DEF ServeMembers
    <3>2. LikeBrought(call, new)
      BY <1>0, <3>1 DEF CallShape, LikeBrought
    <3>. QED  BY <3>1, <3>2
  <2>6. CASE ServeCreate(call) \/ ServeReissue(call) \/ ServeReset(call)
    <3>1. PICK i, new : new = [call EXCEPT !.at = "served", !.invite = i] /\ Serve(call, new)
      BY <2>6 DEF ServeCreate, ServeReissue, ServeReset
    <3>2. LikeBrought(call, new)
      BY <1>0, <3>1 DEF CallShape, LikeBrought
    <3>. QED  BY <3>1, <3>2
  <2>7. CASE ServeStatus(call) \/ ServeDelete(call) \/ ServeFulfil(call) \/ ServeAdd(call)
             \/ ServeRemove(call)
    <3>1. PICK new : new = [call EXCEPT !.at = "served"] /\ Serve(call, new)
      BY <2>7 DEF ServeStatus, ServeDelete, ServeFulfil, ServeAdd, ServeRemove
    <3>2. LikeBrought(call, new)
      BY <1>0, <3>1 DEF CallShape, LikeBrought
    <3>. QED  BY <3>1, <3>2
  <2>. QED  BY <2>1, <2>2, <2>3, <2>4, <2>5, <2>6, <2>7 DEF ServerStep
<1>. QED  BY <1>2, <1>3

\* A list of members is shown, or emptied: of the open collection, or with
\* nothing left to be shown.
LEMMA MembersShown ==
    ASSUME MembersInv, NEW call \in calls, calls' \subseteq calls,
           UNCHANGED <<selected, crossed>>,
           \/ members'.list = {}
           \/ Brings(call) /\ members'.of = call.coll
    PROVE  MembersInv'
BY DEF MembersInv, Brings

\* A request is refused or lost; an answer arrives.
LEMMA MembersSettle ==
    ASSUME AnyAdminInv, MembersInv, NEW call \in calls, Refuse(call) \/ Settle(call)
    PROVE  MembersInv'
<1>0. CallShape(call) /\ ScreenShape
  BY DEF AnyAdminInv, CallFits
<1>1. UNCHANGED <<selected, crossed>>
  BY DEF Refuse, Settle, AdminLoaded, Created, Reissued, StatusSet, ResetAnswered, Deleted,
         OlderLoaded, PanelLoaded, Selected, Fulfilled, Added, Removed, ResetDone, Relisted,
         Fails, ListShown, panelVars, ghosts
<1>2. /\ LikeBrought(call, [call EXCEPT !.waits = "nobody"])
      /\ LikeBrought(call, [call EXCEPT !.at = "listing"])
  BY <1>0 DEF CallShape, LikeBrought
<1>3. NoMembers.list = {}
  BY DEF NoMembers
\* What is no list of members leaves those shown.
<1>4. ASSUME members' = members, call.op # "select",
             \/ calls' = calls \ {call}
             \/ calls' = Becomes(call, [call EXCEPT !.waits = "nobody"])
             \/ calls' = Becomes(call, [call EXCEPT !.at = "listing"])
      PROVE  MembersInv'
  <2>1. \A d \in calls' : d \in calls \/ \E c \in calls : LikeBrought(c, d)
    BY <1>2, <1>4 DEF Becomes
  <2>2. \A c \in calls : c.op = "select" => \E d \in calls' : d.op = "select"
    BY <1>4 DEF Becomes
  <2>. QED  BY <1>1, <1>4, <2>1, <2>2, MembersRest
<1>5. CASE Refuse(call)
  <2>1. call.op = "select" => call.waits # "nobody"
    BY <1>0 DEF CallShape, Live
  <2>2. calls' = calls \ {call} /\ (call.op = "select" => members' = NoMembers)
        /\ (call.op # "select" => members' = members)
    BY <1>5, <2>1 DEF Refuse
  <2>. QED  BY <1>1, <1>3, <1>4, <2>2, MembersShown
<1>6. ASSUME NEW b \in BOOLEAN, Fails(call, b) PROVE MembersInv'
  <2>1. CASE call.op = "select"
    <3>1. calls' \subseteq calls /\ members' = NoMembers
      BY <1>6, <2>1 DEF Fails, Reads
    <3>. QED  BY <1>1, <1>3, <3>1, MembersShown
  <2>2. CASE call.op # "select"
    BY <1>4, <1>6, <2>2 DEF Fails
  <2>. QED  BY <2>1, <2>2
<1>7. ASSUME \/ AdminLoaded(call) \/ Created(call) \/ Reissued(call) \/ StatusSet(call)
             \/ ResetAnswered(call) \/ Deleted(call) \/ OlderLoaded(call) \/ PanelLoaded(call)
             \/ Fulfilled(call) \/ Added(call) \/ \E b \in BOOLEAN : ResetDone(call, b)
      PROVE  MembersInv'
  <2>1. /\ members' = members /\ call.op # "select"
        /\ \/ calls' = calls \ {call}
           \/ calls' = Becomes(call, [call EXCEPT !.at = "listing"])
    BY <1>7 DEF AdminLoaded, Created, Reissued, StatusSet, ResetAnswered, Deleted, OlderLoaded,
                PanelLoaded, Fulfilled, Added, ResetDone, Answered, Ended, ThenRelist, panelVars
  <2>. QED  BY <1>4, <2>1
<1>8. CASE Selected(call)
  <2>1. calls' \subseteq calls /\ members'.of = call.coll /\ Brings(call)
    BY <1>8 DEF Selected, Answered, Ended, Brings
  <2>. QED  BY <1>1, <2>1, MembersShown
<1>9. ASSUME NEW b \in BOOLEAN, Relisted(call, b) PROVE MembersInv'
  <2>1. calls' = calls \ {call} /\ call.op # "select" /\ call.at \in {"listing", "listed"}
    BY <1>9 DEF Relisted, Ended
  <2>2. Brings(call)
    BY <1>0, <1>9, <2>1 DEF CallShape, Live, Brings, Relisted
  <2>3. CASE b
    <3>1. members'.of = call.coll
      BY <1>9, <2>3 DEF Relisted
    <3>. QED  BY <1>1, <2>1, <2>2, <3>1, MembersShown
  <2>4. CASE ~b
    <3>1. members' = members
      BY <1>9, <2>4 DEF Relisted
    <3>. QED  BY <1>4, <2>1, <3>1
  <2>. QED  BY <2>3, <2>4
<1>10. CASE Removed(call)
  <2>1. /\ calls' = calls \ {call} /\ call.op # "select"
        /\ members' = [members EXCEPT !.list = @ \ {call.user}]
    BY <1>10 DEF Removed, Answered, Ended
  <2>2. members'.of = members.of /\ members'.list \subseteq members.list
    BY <1>0, <2>1 DEF ScreenShape
  <2>. QED  BY <1>1, <2>1, <2>2 DEF MembersInv, Brings
<1>. QED  BY <1>5, <1>6, <1>7, <1>8, <1>9, <1>10 DEF Settle

\* The administrator acts; the user of an account enrols.
LEMMA MembersUserSteps ==
    ASSUME AnyAdminInv, MembersInv, UserStep
    PROVE  MembersInv'
<1>0. ScreenShape /\ \A c \in calls : CallShape(c)
  BY DEF AnyAdminInv, CallFits
<1>1. ASSUME NEW new, calls' \subseteq calls \cup {new}, calls \subseteq calls',
             Brings(new) => selected \in {new.coll, NoColl},
             UNCHANGED <<selected, members, crossed>>
      PROVE  MembersInv'
  BY <1>1, MembersRest
<1>2. ASSUME NEW t \in Tabs, OpenTab(t) PROVE MembersInv'
  <2>1. PICK op, load :
           /\ op = (IF t = "admin" THEN "load-admin" ELSE "load-panel")
           /\ load = Call(op, NoUser, NoColl)
           /\ calls' = {Unmounted(c) : c \in calls} \cup (IF NeedsLoad(t) THEN {load} ELSE {})
    BY <1>2 DEF OpenTab
  <2>2. UNCHANGED <<selected, members, crossed>>
    BY <1>2 DEF OpenTab, panelVars, ghosts
  <2>3. ~Brings(load)
    BY <2>1 DEF Call, Brings
  <2>4. ASSUME NEW c \in calls, NEW d, d = Unmounted(c) PROVE LikeBrought(c, d)
    BY <1>0, <2>4 DEF Unmounted, CallShape, LikeBrought
  <2>5. \A d \in calls' : (\E c \in calls : LikeBrought(c, d)) \/ ~Brings(d)
    BY <2>1, <2>3, <2>4
  <2>6. \A c \in calls : c.op = "select" => \E d \in calls' : d.op = "select"
    BY <2>1, <2>4 DEF LikeBrought
  <2>. QED  BY <2>2, <2>5, <2>6, MembersRest
<1>3. ASSUME NEW u \in Users,
             \/ CreateUser(u) \/ ReissueInvite(u) \/ ResetUser(u) \/ DeleteUser(u) \/ RemoveMember(u)
      PROVE  MembersInv'
  <2>1. PICK op, c, new :
           /\ op \in {"create", "reissue", "reset", "delete", "remove"}
           /\ new = Call(op, u, c) /\ (Send(new) \/ Confirmed(new))
    BY <1>3 DEF CreateUser, ReissueInvite, ResetUser, DeleteUser, RemoveMember
  <2>2. UNCHANGED <<selected, members, crossed>>
    BY <1>3 DEF CreateUser, ReissueInvite, ResetUser, DeleteUser, RemoveMember, panelVars, ghosts
  <2>3. ~Brings(new)
    BY <2>1 DEF Call, Brings
  <2>. QED  BY <1>1, <2>1, <2>2, <2>3 DEF Send, Confirmed
<1>4. ASSUME NEW u \in Users, ToggleStatus(u) PROVE MembersInv'
  <2>1. PICK s, new : new = [Call("status", u, NoColl) EXCEPT !.status = s] /\ Send(new)
    BY <1>4 DEF ToggleStatus
  <2>2. ~Brings(new) /\ UNCHANGED <<selected, members, crossed>>
    BY <1>4, <2>1 DEF ToggleStatus, Call, Brings, panelVars, ghosts
  <2>. QED  BY <1>1, <2>1, <2>2 DEF Send
<1>5. CASE LoadOlder
  <2>1. PICK p, new : new = [Call("audit", NoUser, NoColl) EXCEPT !.page = p] /\ Send(new)
    BY <1>5 DEF LoadOlder
  <2>2. ~Brings(new) /\ UNCHANGED <<selected, members, crossed>>
    BY <1>5, <2>1 DEF LoadOlder, Call, Brings, panelVars, ghosts
  <2>. QED  BY <1>1, <2>1, <2>2 DEF Send
<1>6. ASSUME NEW c \in Collections, NEW u \in Users, AddMember(c, u) PROVE MembersInv'
  <2>1. PICK b, r, new : new = [Call("add", u, c) EXCEPT !.blob = b, !.relist = r] /\ Send(new)
    BY <1>6 DEF AddMember
  <2>2. new.coll = c /\ selected = c /\ UNCHANGED <<selected, members, crossed>>
    BY <1>6, <2>1 DEF AddMember, Call, panelVars, ghosts
  <2>. QED  BY <1>1, <2>1, <2>2 DEF Send
<1>7. ASSUME NEW g \in pending, NEW v \in Users, FulfilGrant(g, v) PROVE MembersInv'
  <2>1. PICK b, r, new : /\ new = [Call("fulfil", g[2], g[1]) EXCEPT !.blob = b, !.relist = r]
                         /\ Send(new) /\ r = (selected = g[1])
    BY <1>7 DEF FulfilGrant
  <2>2. /\ new.coll = g[1] /\ new.relist = r /\ new.op = "fulfil"
        /\ UNCHANGED <<selected, members, crossed>>
    BY <1>7, <2>1 DEF FulfilGrant, Call, panelVars, ghosts
  <2>3. Brings(new) => selected = new.coll
    BY <2>1, <2>2 DEF Brings
  <2>. QED  BY <1>1, <2>1, <2>2, <2>3 DEF Send
<1>8. ASSUME NEW c \in Collections, SelectCollection(c) PROVE MembersInv'
  <2>1. PICK new : new = Call("select", NoUser, c) /\ Send(new)
    BY <1>8 DEF SelectCollection
  <2>2. /\ new.op = "select" /\ new.coll = c /\ calls' = calls \cup {new} /\ selected' = c
        /\ crossed' = \E k \in calls : Brings(k) /\ k.coll # c
    BY <1>8, <2>1 DEF SelectCollection, Call, Send
  <2>. QED  BY <2>2 DEF MembersInv, Brings
<1>9. CASE CollapseCollection
  <2>1. /\ calls' = calls /\ selected' = NoColl /\ crossed' = crossed
    BY <1>9 DEF CollapseCollection, ghosts
  <2>. QED  BY <2>1 DEF MembersInv, Brings
<1>10. CASE DismissInvite \/ \E u \in Users : Enrol(u)
  <2>1. calls' = calls /\ UNCHANGED <<selected, members, crossed>>
    BY <1>10 DEF DismissInvite, Enrol, panelVars, ghosts
  <2>. QED  BY <2>1 DEF MembersInv, Brings
<1>. QED
  BY <1>2, <1>3, <1>4, <1>5, <1>6, <1>7, <1>8, <1>9, <1>10 DEF UserStep

-----------------------------------------------------------------------------
(***************************************************************************)
(* The theorems.                                                           *)
(***************************************************************************)
PanelsInv == AnyAdminInv /\ OfferInv /\ RowsInv /\ MembersInv

LEMMA PanelsInit == Init => PanelsInv
<1>. SUFFICES ASSUME Init PROVE PanelsInv
  OBVIOUS
<1>1. AnyAdminInv
  BY AnyAdminInit
<1>2. OfferInv
  BY DEF Init, OfferInv, OneLoad, NotOfferedAgain
<1>3. RowsInv
  <2>1. /\ calls = {} /\ heard = {} /\ overtaken = {} /\ invites = 0
        /\ \A u \in Users : account[u].invites = {} /\ users[u] = NoRow
    BY DEF Init
  <2>2. \A u \in Users : ~NeedsRow(u)
    BY <2>1 DEF NeedsRow
  <2>. QED  BY <2>1, <2>2 DEF RowsInv, Numbered
<1>4. MembersInv
  BY DEF Init, MembersInv
<1>. QED  BY <1>1, <1>2, <1>3, <1>4 DEF PanelsInv

LEMMA PanelsStep == PanelsInv /\ [Next]_vars => PanelsInv'
<1>. SUFFICES ASSUME PanelsInv, [Next]_vars PROVE PanelsInv'
  OBVIOUS
<1>0. AnyAdminInv /\ OfferInv /\ RowsInv /\ MembersInv /\ AnyAdminInv'
  BY AnyAdminStep DEF PanelsInv
<1>1. CASE UNCHANGED vars
  <2>1. UNCHANGED <<account, invites, users, calls, selected, members, pending, panelLoaded,
                    heard, fulfilled, overtaken, crossed>>
    BY <1>1 DEF vars, serverVars, adminVars, panelVars, ghosts
  <2>2. OfferInv'
    BY <1>0, <2>1, OfferRests
  <2>3. AccountsMove
    BY <1>0, <2>1 DEF AccountsMove, AnyAdminInv, AccountShape, RowsInv, Numbered
  <2>4. RowsInv'
    BY <1>0, <2>1, <2>3, RowsServed DEF AnyAdminInv
  <2>5. MembersInv'
    BY <1>0, <2>1 DEF MembersInv, Brings
  <2>. QED  BY <1>0, <2>2, <2>4, <2>5 DEF PanelsInv
<1>2. CASE UserStep
  BY <1>0, <1>2, OfferUserSteps, RowsUserSteps, MembersUserSteps DEF PanelsInv
<1>3. ASSUME NEW call \in calls, ServerStep(call) \/ Settle(call) PROVE PanelsInv'
  <2>1. OfferInv'
    BY <1>0, <1>3, OfferServed
  <2>2. RowsInv'
    BY <1>0, <1>3, RowsRead, RowsInvited, RowsWritten, RowsSettle DEF ServerStep
  <2>3. MembersInv'
    BY <1>0, <1>3, MembersServed, MembersSettle
  <2>. QED  BY <1>0, <2>1, <2>2, <2>3 DEF PanelsInv
<1>. QED  BY <1>1, <1>2, <1>3 DEF Next

LEMMA PanelsInvHolds == Spec => []PanelsInv
BY PanelsInit, PanelsStep, PTL DEF Spec

\* "It cannot be shown again -- reissue a new one if it is lost": an account that
\* waits to be set up, and whose invite the console was given, is in the table
\* that another can be got from, whatever calls are under way or were lost and
\* whichever tab is left; a list of the accounts that was on its way while the
\* account was created is what can take its row.
THEOREM StrandedAccountsAreListed == Spec => []StrandedAccountsStayListed
<1>1. PanelsInv => StrandedAccountsStayListed
  <2>. SUFFICES ASSUME PanelsInv, NEW u \in Users \ overtaken, account[u].st = "pending",
                       account[u].invites \cap heard # {}
                PROVE  users[u] # NoRow
    BY DEF StrandedAccountsStayListed
  <2>1. NeedsRow(u)
    BY DEF NeedsRow, Exists
  <2>. QED  BY <2>1 DEF PanelsInv, RowsInv, Rowed
<1>. QED  BY <1>1, PanelsInvHolds, PTL

\* The sharing panel of an administrator who waits for nothing: the tables, the
\* calls and the panels are what the code can hold, a key is sealed to the member
\* ("the intended member gets a membership whose key they can never open"), a
\* grant this device has fulfilled is not offered again, and the members shown are
\* of the open collection unless it was opened while others were on their way.
THEOREM SharingIsSound == Spec => []SharingInv
<1>1. PanelsInv => SharingInv
  <2>. SUFFICES ASSUME PanelsInv PROVE SharingInv
    OBVIOUS
  <2>1. \A call \in calls : call.at \in {"sent", "served", "listing", "listed"}
    BY DEF PanelsInv, AnyAdminInv, CallFits, CallShape
  <2>2. TypeOK /\ SealedToTheMember
    BY <2>1 DEF PanelsInv, AnyAdminInv, AccountShape, SealShape, ScreenShape, Accounts, Rows,
                OfferInv, RowsInv, Numbered, MembersInv, TypeOK
  <2>3. PanelShowsItsCollection
    <3>. SUFFICES ASSUME ~crossed, ~Busy, selected # NoColl, members.list # {}
                  PROVE  members.of = selected
      BY DEF PanelShowsItsCollection
    <3>1. \A c \in calls : c.op # "select"
      BY DEF PanelsInv, AnyAdminInv, CallFits, CallShape, Live, Busy
    <3>. QED  BY <3>1 DEF PanelsInv, MembersInv
  <2>. QED  BY <2>2, <2>3 DEF PanelsInv, OfferInv, SharingInv
<1>. QED  BY <1>1, PanelsInvHolds, PTL
=============================================================================
