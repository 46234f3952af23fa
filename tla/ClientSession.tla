---------------------------- MODULE ClientSession ----------------------------
(***************************************************************************)
(* One browser tab: the session that holds keys and tokens (session.ts),   *)
(* the API client that renews tokens (api.ts, App.tsx), the sync that      *)
(* adopts collection keys (store.ts, collections.ts), and the saves.       *)
(*                                                                         *)
(* Every await is a point where another call, a lock or a new sign-in may  *)
(* run, so a call is a record that remembers what it captured.  A key is a *)
(* buffer in a small heap: what is zeroised is the buffer, and whoever     *)
(* still points at it sees zeros.  userKey and privateKey are always       *)
(* opened and blanked together and are one buffer here.                    *)
(***************************************************************************)
EXTENDS Naturals, FiniteSets

CONSTANTS
    Users, Collections,
    Calls,          \* slots for calls in flight
    MaxBuffers,     \* bound on collection-key buffers alive at once
    MaxLogins,      \* bound on sign-ins
    MaxRotations,   \* bound on token rotations of one sign-in
    None

Logins == 1 .. MaxLogins
\* Each sign-in has a buffer for its key; collection keys share the others.
KeyPool == MaxLogins + 1 .. MaxLogins + MaxBuffers
Buffers == Logins \cup KeyPool
Tokens == [login : Logins, gen : 0 .. MaxRotations]
Zero == 0
Contents == Users \cup Collections \cup {Zero}
NoKeys == [c \in Collections |-> None]

ASSUME SessionAssumption ==
    /\ MaxBuffers \in Nat /\ MaxLogins \in Nat /\ MaxRotations \in Nat
    /\ None \notin Users \cup Collections \cup Buffers \cup Tokens

VARIABLES
    heap,       \* [Buffers -> Contents]: the key each buffer holds, Zero if blank
    session,    \* user, key buffer and tokens; None when locked
    ring,       \* collectionKeys: [Collections -> Buffers \cup {None}]
    shows,      \* whose personal plaintext the vault store holds
    calls,      \* [Calls -> call]
    server,     \* [Logins -> user, current generation, whether it expired]
    members     \* [Users -> SUBSET Collections]

clientVars == <<heap, session, ring, shows, calls>>
serverVars == <<server, members>>
vars == <<clientVars, serverVars>>

Idle == [op |-> "idle", pc |-> "idle", who |-> None, target |-> None,
         token |-> None, retried |-> FALSE, key |-> None, under |-> Zero,
         todo |-> {}, next |-> NoKeys]

Locked == [user |-> None, key |-> None, token |-> None]

Init ==
    /\ heap = [b \in Buffers |-> Zero]
    /\ session = Locked
    /\ ring = NoKeys
    /\ shows = {}
    /\ calls = [s \in Calls |-> Idle]
    /\ server = [l \in Logins |-> [user |-> None, gen |-> 0, expired |-> FALSE]]
    /\ members \in [Users -> SUBSET Collections]

-----------------------------------------------------------------------------
(***************************************************************************)
(* session.ts                                                              *)
(***************************************************************************)
IsUnlocked == session.key # None

Pointers(call) == {call.key} \cup {call.next[c] : c \in Collections}
Held == {session.key} \cup {ring[c] : c \in Collections}
Referenced == Held \cup UNION {Pointers(calls[s]) : s \in Calls}
FreeBuffers == {b \in KeyPool : heap[b] = Zero /\ b \notin Referenced}
Fresh == CHOOSE b \in FreeBuffers : TRUE

Zeroized(h, bs) == [b \in Buffers |-> IF b \in bs THEN Zero ELSE h[b]]

\* [bug] the keys the new map drops are forgotten, not blanked.
ZeroizedByNewMapForgotten(next) == heap

\* setCollectionKeys(): blank each held key the new map does not carry over as
\* the very same buffer.
ZeroizedByNewMap(next) ==
    Zeroized(heap, {ring[c] : c \in {d \in Collections : next[d] # ring[d]}})

\* open(): whatever was held is blanked first.
OpenSession(u, token) ==
    /\ heap' = [Zeroized(heap, Held) EXCEPT ![token.login] = u]
    /\ ring' = NoKeys
    /\ session' = [user |-> u, key |-> token.login, token |-> token]

\* [bug] lock() blanks the keys and keeps pointing at them.
LockSessionKeepingKeys ==
    /\ heap' = Zeroized(heap, Held)
    /\ ring' = NoKeys
    /\ session' = [session EXCEPT !.token = None]

LockSession ==
    /\ heap' = Zeroized(heap, Held)
    /\ ring' = NoKeys
    /\ session' = Locked

\* The two always come together: store.clear() then session.lock(), from the
\* lock button, the auto-lock, a revoked own session, a failed refresh.
ClearAndLock == LockSession /\ shows' = {}

Lock ==
    /\ IsUnlocked
    /\ ClearAndLock
    /\ UNCHANGED <<calls, serverVars>>

-----------------------------------------------------------------------------
(***************************************************************************)
(* Starting a call.                                                        *)
(***************************************************************************)
Begin(s, call) == calls[s] = Idle /\ calls' = [calls EXCEPT ![s] = call]
Preparing(op) == [Idle EXCEPT !.op = op, !.pc = "ready"]
\* The Authorization header is whatever token the session has at the moment of
\* sending.
Sent(op) == [Idle EXCEPT !.op = op, !.pc = "sent", !.token = session.token]

\* UnlockScreen is what a locked tab shows.  Leaving it for the recovery screen
\* and coming back mounts a new one, so its busy flag does not serialise.
StartUnlock(s, u) ==
    /\ ~IsUnlocked
    /\ Begin(s, [Sent("unlock") EXCEPT !.who = u])
    /\ UNCHANGED <<heap, session, ring, shows, serverVars>>

StartResync(s) ==
    /\ IsUnlocked
    /\ Begin(s, Sent("resync"))
    /\ UNCHANGED <<heap, session, ring, shows, serverVars>>

\* createItem / updateItem capture the parent key the session has now;
\* requireParentKey throws, and nothing starts, when there is none.
ParentKey(c) == IF c = None THEN session.key ELSE ring[c]
StartSave(s, c) ==
    /\ IsUnlocked
    /\ ParentKey(c) # None
    /\ Begin(s, [Preparing("save") EXCEPT !.who = session.user, !.target = c,
                                        !.key = ParentKey(c)])
    /\ UNCHANGED <<heap, session, ring, shows, serverVars>>

\* createCollection generates the key before it asks.
StartCreate(s, c) ==
    /\ IsUnlocked
    /\ \A u \in Users : c \notin members[u]
    /\ \A t \in Calls : calls[t].op = "create" => calls[t].target # c
    /\ FreeBuffers # {}
    /\ Begin(s, [Preparing("create") EXCEPT !.who = session.user, !.target = c,
                                          !.key = Fresh])
    /\ heap' = [heap EXCEPT ![Fresh] = c]
    /\ UNCHANGED <<session, ring, shows, serverVars>>

-----------------------------------------------------------------------------
(***************************************************************************)
(* request(): send, at most one refresh, at most one resend.               *)
(***************************************************************************)
Valid(token) ==
    /\ token # None
    /\ server[token.login].gen = token.gen
    /\ ~server[token.login].expired

\* Encryption and sealing are awaited before the request is sent.  encryptItem
\* reads the parent key only for its second await, when it wraps the item key.
Send(s) ==
    /\ calls[s].pc = "ready"
    /\ calls' = [calls EXCEPT ![s].pc = "sent", ![s].token = session.token,
                              ![s].under = IF calls[s].op = "save"
                                           THEN heap[calls[s].key] ELSE Zero,
                              ![s].key = IF calls[s].op = "save" THEN None ELSE @]
    /\ UNCHANGED <<heap, session, ring, shows, serverVars>>

UserOfToken(token) == server[token.login].user
Answered(s) == [calls EXCEPT ![s].pc = "answered", ![s].token = None,
                             ![s].retried = FALSE]

ServeLogin(s, l) ==
    /\ calls[s].op = "unlock" /\ calls[s].pc = "sent"
    /\ server[l].user = None /\ \A k \in Logins : k < l => server[k].user # None
    /\ server' = [server EXCEPT ![l].user = calls[s].who]
    /\ calls' = [Answered(s) EXCEPT ![s].token = [login |-> l, gen |-> 0]]
    /\ UNCHANGED <<heap, session, ring, shows, members>>

ServeSync(s) ==
    /\ calls[s].op \in {"load", "resync"} /\ calls[s].pc = "sent"
    /\ Valid(calls[s].token)
    /\ LET u == UserOfToken(calls[s].token) IN
       calls' = [Answered(s) EXCEPT ![s].who = u, ![s].todo = members[u]]
    /\ UNCHANGED <<heap, session, ring, shows, serverVars>>

\* The item lands in the vault of whoever the token names, or in the collection
\* if that user is a member.
VaultOf(call) ==
    IF call.target = None THEN UserOfToken(call.token) ELSE call.target
ServeSave(s) ==
    LET call == calls[s] IN
    /\ call.op = "save" /\ call.pc = "sent" /\ Valid(call.token)
    /\ call.target # None => call.target \in members[UserOfToken(call.token)]
    /\ calls' = Answered(s)
    /\ UNCHANGED <<heap, session, ring, shows, serverVars>>

ServeCreate(s) ==
    LET call == calls[s] IN
    /\ call.op = "create" /\ call.pc = "sent" /\ Valid(call.token)
    /\ members' = [members EXCEPT ![UserOfToken(call.token)] = @ \cup {call.target}]
    /\ calls' = Answered(s)
    /\ UNCHANGED <<heap, session, ring, shows, server>>

\* 401: the token is not (or no longer) good, or the master password is wrong.
Deny(s) ==
    /\ calls[s].pc = "sent"
    /\ calls[s].op = "unlock" \/ ~Valid(calls[s].token)
    /\ calls' = [calls EXCEPT ![s].pc = "denied"]
    /\ UNCHANGED <<heap, session, ring, shows, serverVars>>

\* The call rejects.  createCollection blanks the key it generated.
AfterFailure(s) == [calls EXCEPT ![s] = Idle]
OwnedKey(call) == IF call.op = "create" THEN {call.key} ELSE {}

\* Refused (403, 404, 409), a server fault, no network, or a lost answer.
Fail(s) ==
    /\ calls[s].pc \in {"sent", "answered"}
    /\ calls' = AfterFailure(s)
    /\ heap' = Zeroized(heap, OwnedKey(calls[s]))
    /\ UNCHANGED <<session, ring, shows, serverVars>>

\* [bug] without a refresh token the request is simply sent again.
UnauthorizedResending(s) ==
    /\ calls[s].pc = "denied"
    /\ IF session.token # None
       THEN calls' = [calls EXCEPT ![s].pc = "rotating", ![s].token = session.token]
       ELSE calls' = [calls EXCEPT ![s].pc = "sent"]
    /\ UNCHANGED <<heap, session, ring, shows, serverVars>>

\* onUnauthorized, once per request: spend the refresh token of this moment.
Unauthorized(s) ==
    /\ calls[s].pc = "denied"
    /\ IF ~calls[s].retried /\ session.token # None
       THEN /\ calls' = [calls EXCEPT ![s].pc = "rotating",
                                      ![s].token = session.token]
            /\ heap' = heap
       ELSE /\ calls' = AfterFailure(s)
            /\ heap' = Zeroized(heap, OwnedKey(calls[s]))
    /\ UNCHANGED <<session, ring, shows, serverVars>>

\* RotateSession matches the refresh token and replaces both tokens.
Rotate(s) ==
    LET t == calls[s].token IN
    /\ calls[s].pc = "rotating"
    /\ server[t.login].gen = t.gen /\ t.gen < MaxRotations
    /\ server' = [server EXCEPT ![t.login].gen = @ + 1, ![t.login].expired = FALSE]
    /\ calls' = [calls EXCEPT ![s].pc = "rotated", ![s].token.gen = @ + 1]
    /\ UNCHANGED <<heap, session, ring, shows, members>>

ReplaceTokens(s) ==
    /\ calls[s].pc = "rotated"
    /\ session' = [session EXCEPT !.token = calls[s].token]
    /\ calls' = [calls EXCEPT ![s].pc = "sent", ![s].retried = TRUE]
    /\ UNCHANGED <<heap, ring, shows, serverVars>>

\* The refresh was refused, or its answer lost: lock the tab, then reject.
RefreshFails(s) ==
    /\ calls[s].pc \in {"rotating", "rotated"}
    /\ heap' = Zeroized(heap, Held \cup OwnedKey(calls[s]))
    /\ ring' = NoKeys
    /\ session' = Locked
    /\ shows' = {}
    /\ calls' = AfterFailure(s)
    /\ UNCHANGED serverVars

-----------------------------------------------------------------------------
(***************************************************************************)
(* What the answers do.                                                    *)
(***************************************************************************)

\* unlock() opens the session and handleUnlock goes on to load the vault.
FinishUnlock(s) ==
    /\ calls[s].op = "unlock" /\ calls[s].pc = "answered"
    /\ OpenSession(calls[s].who, calls[s].token)
    /\ calls' = [calls EXCEPT ![s] =
          [Idle EXCEPT !.op = "load", !.pc = "sent", !.token = calls[s].token]]
    /\ UNCHANGED <<shows, serverVars>>

\* adoptCollections: getKeys throws in a locked tab; otherwise the private key
\* of this moment is used for the whole loop.
AdoptCollections(s) ==
    /\ calls[s].op \in {"load", "resync"} /\ calls[s].pc = "answered"
    /\ calls' = IF IsUnlocked
                THEN [calls EXCEPT ![s].pc = "adopting", ![s].key = session.key]
                ELSE AfterFailure(s)
    /\ UNCHANGED <<heap, session, ring, shows, serverVars>>

\* One turn of the loop: reuse the held buffer, or open the sealed blob, which
\* only the private key of the user it was sealed to can do.
AdoptKey(s, c) ==
    LET call == calls[s] IN
    /\ call.pc = "adopting" /\ c \in call.todo
    /\ IF ring[c] # None
       THEN /\ calls' = [calls EXCEPT ![s].todo = @ \ {c}, ![s].next[c] = ring[c]]
            /\ heap' = heap
       ELSE \/ /\ heap[call.key] = call.who
               /\ FreeBuffers # {}
               /\ calls' = [calls EXCEPT ![s].todo = @ \ {c}, ![s].next[c] = Fresh]
               /\ heap' = [heap EXCEPT ![Fresh] = c]
            \/ /\ calls' = [calls EXCEPT ![s].todo = @ \ {c}]
               /\ heap' = heap
    /\ UNCHANGED <<session, ring, shows, serverVars>>

\* setCollectionKeys(next) has no lock check.
InstallKeys(s) ==
    /\ calls[s].pc = "adopting" /\ calls[s].todo = {}
    /\ heap' = ZeroizedByNewMap(calls[s].next)
    /\ ring' = calls[s].next
    /\ calls' = [calls EXCEPT ![s].pc = "decrypting", ![s].key = None,
                              ![s].next = NoKeys]
    /\ UNCHANGED <<session, shows, serverVars>>

\* decryptRecords and decryptFolders: getKeys throws in a locked tab; rows under
\* another key come out unreadable.
DecryptRecords(s) ==
    /\ calls[s].pc = "decrypting"
    /\ calls' = IF IsUnlocked
                THEN [calls EXCEPT ![s].pc = "merging", ![s].under = heap[session.key]]
                ELSE AfterFailure(s)
    /\ UNCHANGED <<heap, session, ring, shows, serverVars>>

\* set({...}): a full load replaces, a resync merges.
MergeSync(s) ==
    LET call == calls[s]
        read == IF call.under = call.who THEN {call.who} ELSE {} IN
    /\ call.pc = "merging"
    /\ shows' = IF call.op = "load" THEN read ELSE shows \cup read
    /\ calls' = AfterFailure(s)
    /\ UNCHANGED <<heap, session, ring, serverVars>>

\* store.upsert(record) with the plaintext that was typed.
Upsert(s) ==
    /\ calls[s].op = "save" /\ calls[s].pc = "answered"
    /\ shows' = shows \cup {calls[s].who}
    /\ calls' = AfterFailure(s)
    /\ UNCHANGED <<heap, session, ring, serverVars>>

\* createCollection adds its key to the ring as it is now.
InstallCreated(s) ==
    LET call == calls[s] next == [ring EXCEPT ![call.target] = call.key] IN
    /\ call.op = "create" /\ call.pc = "answered"
    /\ heap' = ZeroizedByNewMap(next)
    /\ ring' = next
    /\ calls' = AfterFailure(s)
    /\ UNCHANGED <<session, shows, serverVars>>

-----------------------------------------------------------------------------
\* Elsewhere: an access token expires, a membership changes.
Expire(l) ==
    /\ server[l].user # None /\ ~server[l].expired
    /\ server' = [server EXCEPT ![l].expired = TRUE]
    /\ UNCHANGED <<clientVars, members>>

ChangeMembership(u, c) ==
    /\ members' = [members EXCEPT ![u] = IF c \in @ THEN @ \ {c} ELSE @ \cup {c}]
    /\ UNCHANGED <<clientVars, server>>

CallStep(s) ==
    \/ Send(s)
    \/ \E l \in Logins : ServeLogin(s, l)
    \/ ServeSync(s) \/ ServeSave(s) \/ ServeCreate(s) \/ Deny(s) \/ Fail(s)
    \/ Unauthorized(s) \/ Rotate(s) \/ ReplaceTokens(s) \/ RefreshFails(s)
    \/ FinishUnlock(s)
    \/ AdoptCollections(s) \/ InstallKeys(s)
    \/ \E c \in Collections : AdoptKey(s, c)
    \/ DecryptRecords(s) \/ MergeSync(s) \/ Upsert(s) \/ InstallCreated(s)

StartStep(s) ==
    \/ \E u \in Users : StartUnlock(s, u)
    \/ StartResync(s)
    \/ \E c \in Collections \cup {None} : StartSave(s, c)
    \/ \E c \in Collections : StartCreate(s, c)

Next ==
    \/ \E s \in Calls : StartStep(s) \/ CallStep(s)
    \/ Lock
    \/ \E l \in Logins : Expire(l)
    \/ \E u \in Users, c \in Collections : ChangeMembership(u, c)

Spec == Init /\ [][Next]_vars

-----------------------------------------------------------------------------
(***************************************************************************)
(* Properties.                                                             *)
(***************************************************************************)
CallType ==
    [op : {"idle", "unlock", "load", "resync", "save", "create"},
     pc : {"idle", "ready", "sent", "denied", "rotating", "rotated", "answered",
           "adopting", "decrypting", "merging"},
     who : Users \cup {None}, target : Collections \cup {None},
     token : Tokens \cup {None}, retried : BOOLEAN,
     key : Buffers \cup {None}, under : Contents,
     todo : SUBSET Collections, next : [Collections -> Buffers \cup {None}]]

\* The tab and the server are in states session.ts and request() can be in.
TypeOK ==
    /\ heap \in [Buffers -> Contents]
    /\ session \in [user : Users \cup {None}, key : Buffers \cup {None},
                    token : Tokens \cup {None}]
    /\ ring \in [Collections -> Buffers \cup {None}]
    /\ shows \subseteq Users
    /\ calls \in [Calls -> CallType]
    /\ server \in [Logins -> [user : Users \cup {None}, gen : 0 .. MaxRotations,
                              expired : BOOLEAN]]
    /\ members \in [Users -> SUBSET Collections]

\* "Without this, the first unlock's keys stay live in the heap ... with no
\* reference left to clear them": whatever overlaps, a key that is not blank is
\* held by the session or by a call that will still install or blank it.
OwnedBy(call) == OwnedKey(call) \cup {call.next[c] : c \in Collections}
Owners == Held \cup UNION {OwnedBy(calls[s]) : s \in Calls}
NoOrphanKeys == \A b \in Buffers : heap[b] # Zero => b \in Owners

\* No adoption, creation or late failure blanks the key of an open session: as
\* long as the tab is unlocked its key is its user's.
OpenKeyIsWhole == IsUnlocked => heap[session.key] = session.user

\* The invariant of the tab: it is well-formed, and its own key is never blanked
\* under it by setCollectionKeys, open or a late failure.
SessionInv == TypeOK /\ OpenKeyIsWhole

\* Why they hold.  A token in use was issued by a sign-in; what a call points at
\* is what its kind and its place say; collection keys and the keys of sign-ins
\* are different buffers; and only a call in the loop of adoptCollections holds
\* keys that are not installed, none for a collection it has still to do.
Issued(token) == token # None => server[token.login].user \in Users
CallInv(call) ==
    /\ call.pc = "idle" <=> call.op = "idle"
    /\ Issued(call.token)
    /\ call.pc \in {"rotating", "rotated"} => call.token # None
    /\ call.op = "unlock" /\ call.pc = "answered" => call.token # None
    /\ call.op \in {"unlock", "save"} => call.who \in Users
    /\ call.op \in {"load", "resync"} /\ call.pc = "answered" => call.who \in Users
    /\ call.pc \in {"adopting", "decrypting", "merging"} =>
          call.op \in {"load", "resync"} /\ call.who \in Users
    /\ call.pc = "adopting" => call.key # None
    /\ call.op = "save" /\ call.pc = "ready" => call.key # None
    /\ call.op = "create" => call.key \in KeyPool /\ call.target # None
    /\ call.pc # "adopting" => call.next = NoKeys
    /\ \A c \in Collections : call.next[c] \in KeyPool \cup {None}
    /\ \A c \in call.todo : call.next[c] = None
TabInv ==
    /\ TypeOK
    /\ Issued(session.token)
    /\ IsUnlocked => session.key \in Logins /\ session.user \in Users
    /\ \A c \in Collections : ring[c] \in KeyPool \cup {None}
    /\ \A s \in Calls : CallInv(calls[s])

\* How far a call is from its end: the place it has reached, and what is left of
\* the loop over the collections.
Place(call) ==
    CASE call.pc = "idle" -> 0
      [] call.pc = "merging" -> 1
      [] call.pc = "decrypting" -> 2
      [] call.pc = "adopting" -> 3
      [] call.pc = "answered" -> 4
      [] call.pc = "denied" /\ call.retried -> 5
      [] call.pc = "sent" /\ call.retried -> 6
      [] call.pc = "rotated" -> 7
      [] call.pc = "rotating" -> 8
      [] call.pc = "denied" /\ ~call.retried -> 9
      [] call.pc = "sent" /\ ~call.retried -> 10
      [] OTHER -> 11
Closer(before, after) ==
    \/ before.op = "unlock" /\ after.op # "unlock"
    \/ after.op \in {before.op, "idle"} /\ Place(after) < Place(before)
    \/ /\ after.op = before.op /\ Place(after) = Place(before)
       /\ after.todo \subseteq before.todo /\ after.todo # before.todo

\* Every request ends, whatever expires or is revoked meanwhile: a 401 costs at
\* most one refresh and one resend, an unopenable key does not hold up the rest,
\* and every step of a call brings it closer to its end.
EveryCallEnds ==
    [][\A s \in Calls : calls[s] # Idle /\ calls'[s] # calls[s]
                         => Closer(calls[s], calls'[s])]_vars

\* "writing an item nobody can open is not something to do quietly": what is
\* stored is under the key of the vault it is in.
StoredItemsOpen ==
    [][\A s \in Calls : ServeSave(s) => calls[s].under = VaultOf(calls[s])]_vars

\* "Its lifetime is tied to clear(), which the UI calls whenever the session
\* locks": a locked tab holds no plaintext, no key and no token, an open one
\* only its own user's.
TabHoldsOnlyItsSession ==
    /\ shows \subseteq {session.user}
    /\ ~IsUnlocked => ring = NoKeys /\ session.token = None
    /\ IsUnlocked => UserOfToken(session.token) = session.user
=============================================================================
