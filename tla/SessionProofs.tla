---------------------------- MODULE SessionProofs ----------------------------
(***************************************************************************)
(* Proofs about ClientSession and AutoLock: the session of a browser tab   *)
(* and the timer that ends it.                                             *)
(*                                                                         *)
(* Whatever calls overlap with locking, signing in again and each other,   *)
(* the key of an open session stays whole, no key is left live without an  *)
(* owner, and every call ends; for any number of users, collections, calls *)
(* in flight, sign-ins and rotations.  The timer that runs is the one of   *)
(* the setting in force and is never early, for any timed settings.        *)
(***************************************************************************)
EXTENDS ClientSession, AutoLock, TLAPS

\* The heap has distinct places for the keys of sign-ins and of collections.
LEMMA BufferFacts ==
    /\ Logins \subseteq Buffers /\ KeyPool \subseteq Buffers /\ Logins \cap KeyPool = {}
    /\ None \notin Buffers /\ None \notin Users /\ None \notin Collections
    /\ None \notin Tokens
  BY SessionAssumption DEF Logins, KeyPool, Buffers

\* generateCollectionKey and open() return a buffer nobody holds.
LEMMA FreshIsFree ==
    ASSUME FreeBuffers # {}
    PROVE  Fresh \in KeyPool /\ heap[Fresh] = Zero /\ Fresh \notin Referenced
  BY DEF Fresh, FreeBuffers

\* Blanking keys leaves a heap.
LEMMA ZeroizedType ==
    ASSUME heap \in [Buffers -> Contents], NEW bs
    PROVE  /\ Zeroized(heap, bs) \in [Buffers -> Contents]
           /\ \A b \in Buffers : Zeroized(heap, bs)[b] = IF b \in bs THEN Zero ELSE heap[b]
  BY DEF Zeroized, Contents

\* A token once issued stays the token of a user.
LEMMA IssuedStable ==
    ASSUME TypeOK, NEW token \in Tokens \cup {None}, Issued(token),
           \A l \in Logins : server[l].user \in Users => server'[l].user \in Users
    PROVE  Issued(token)'
  BY DEF Issued, Tokens

\* The state of a tab that has just been opened.
LEMMA TabInit == Init => TabInv
<1>. SUFFICES ASSUME Init PROVE TabInv
  OBVIOUS
<1>1. Idle \in CallType
  BY DEF Idle, CallType, NoKeys, Contents
<1>2. \A s \in Calls : calls[s] = Idle
  BY DEF Init
<1>3. CallInv(Idle)
  BY DEF CallInv, Idle, NoKeys, Issued
<1>4. TypeOK
  BY <1>1, SessionAssumption DEF Init, TypeOK, Locked, NoKeys, Contents
<1>. QED
  BY <1>2, <1>3, <1>4 DEF Init, TabInv, Locked, NoKeys, Issued, IsUnlocked

\* One call moves: the others, and the tokens they carry, are as they were.
LEMMA OneCallMoves ==
    ASSUME TabInv, NEW s \in Calls,
           \A l \in Logins : server[l].user \in Users => server'[l].user \in Users,
           \A t \in Calls \ {s} : calls'[t] = calls[t],
           CallInv(calls[s])'
    PROVE  \A t \in Calls : CallInv(calls[t])'
<1>1. ASSUME NEW t \in Calls, t # s PROVE CallInv(calls[t])'
  <2>1. calls'[t] = calls[t] /\ CallInv(calls[t]) /\ calls[t].token \in Tokens \cup {None}
    BY <1>1 DEF TabInv, TypeOK, CallType
  <2>2. Issued(calls[t].token)'
    BY <2>1, IssuedStable DEF TabInv, CallInv, Issued
  <2>. QED  BY <2>1, <2>2 DEF CallInv
<1>. QED  BY <1>1

\* A call that ends leaves its slot free.
LEMMA CallEnds ==
    ASSUME TabInv, NEW s \in Calls, calls' = AfterFailure(s), UNCHANGED server
    PROVE  calls' \in [Calls -> CallType] /\ \A t \in Calls : CallInv(calls[t])'
<1>1. Idle \in CallType
  BY DEF Idle, CallType, NoKeys, Contents
<1>2. CallInv(Idle)'
  BY BufferFacts DEF CallInv, Idle, NoKeys, Issued
<1>3. calls \in [Calls -> CallType] /\ calls' = [calls EXCEPT ![s] = Idle]
  BY DEF TabInv, TypeOK, AfterFailure
<1>4. /\ calls' \in [Calls -> CallType] /\ calls'[s] = Idle
      /\ \A t \in Calls \ {s} : calls'[t] = calls[t]
  BY <1>1, <1>3
<1>. QED  BY <1>2, <1>4, OneCallMoves

\* Each step of request() leaves the tab well-formed.
LEMMA RequestKeepsTab ==
    ASSUME TabInv, NEW s \in Calls,
           \/ Send(s) \/ \E l \in Logins : ServeLogin(s, l)
           \/ ServeSync(s) \/ ServeSave(s) \/ ServeCreate(s) \/ Deny(s) \/ Fail(s)
           \/ Unauthorized(s) \/ Rotate(s) \/ ReplaceTokens(s) \/ RefreshFails(s)
    PROVE  TabInv'
<1>0. calls \in [Calls -> CallType] /\ calls[s] \in CallType /\ CallInv(calls[s])
  BY DEF TabInv, TypeOK
<1>1. CASE Send(s)
  <2>0. /\ session.token \in Tokens \cup {None}
        /\ calls[s].op = "save" => heap[calls[s].key] \in Contents
        /\ Zero \in Contents
    BY <1>0, <1>1 DEF Send, TabInv, TypeOK, CallInv, CallType, Contents
  <2>1. /\ calls' \in [Calls -> CallType]
        /\ \A t \in Calls \ {s} : calls'[t] = calls[t]
    BY <1>0, <1>1, <2>0 DEF Send, CallType
  <2>2. CallInv(calls[s])'
    BY <1>0, <1>1 DEF Send, CallType, CallInv, Issued, serverVars, TabInv
  <2>3. \A t \in Calls : CallInv(calls[t])'
    BY <1>1, <2>1, <2>2, OneCallMoves DEF Send, serverVars
  <2>. QED
    BY <1>1, <2>1, <2>3 DEF Send, serverVars, Issued, IsUnlocked, TabInv, TypeOK
<1>2. ASSUME NEW l \in Logins, ServeLogin(s, l) PROVE TabInv'
  <2>0. /\ [login |-> l, gen |-> 0] \in Tokens /\ calls[s].who \in Users
        /\ server' = [server EXCEPT ![l].user = calls[s].who]
        /\ server \in [Logins -> [user : Users \cup {None}, gen : 0 .. MaxRotations,
                                  expired : BOOLEAN]]
    BY <1>0, <1>2, SessionAssumption DEF ServeLogin, CallInv, Tokens, TabInv, TypeOK
  <2>1. /\ server' \in [Logins -> [user : Users \cup {None}, gen : 0 .. MaxRotations,
                                   expired : BOOLEAN]]
        /\ server'[l].user \in Users
        /\ \A k \in Logins : server[k].user \in Users => server'[k].user \in Users
    BY <2>0
  <2>2. /\ calls' \in [Calls -> CallType]
        /\ \A t \in Calls \ {s} : calls'[t] = calls[t]
    BY <1>0, <1>2, <2>0 DEF ServeLogin, Answered, CallType
  <2>3. CallInv(calls[s])'
    <3>1. PICK k \in Tokens : k = [login |-> l, gen |-> 0]
      BY <2>0
    <3>2. /\ calls'[s].token = k /\ calls'[s].pc = "answered"
          /\ calls[s].pc = "sent" /\ calls'[s].op = "unlock" /\ calls'[s].who = calls[s].who
          /\ calls'[s].next = calls[s].next /\ calls'[s].todo = calls[s].todo
      <4>1. calls' = [Answered(s) EXCEPT ![s].token = k]
        BY <1>2, <3>1 DEF ServeLogin
      <4>2. /\ Answered(s) \in [Calls -> CallType] /\ Answered(s)[s].pc = "answered"
            /\ Answered(s)[s].op = calls[s].op /\ Answered(s)[s].who = calls[s].who
            /\ Answered(s)[s].next = calls[s].next /\ Answered(s)[s].todo = calls[s].todo
        BY <1>0 DEF CallType, Answered
      <4>3. calls[s].op = "unlock" /\ calls[s].pc = "sent"
        BY <1>2 DEF ServeLogin
      <4>. QED  BY <4>1, <4>2, <4>3 DEF CallType
    <3>3. calls'[s].token # None /\ Issued(calls[s].token)'
      BY <2>0, <2>1, <3>1, <3>2, BufferFacts DEF Issued
    <3>. QED  BY <1>0, <2>0, <3>2, <3>3 DEF CallInv
  <2>4. \A t \in Calls : CallInv(calls[t])'
    BY <2>1, <2>2, <2>3, OneCallMoves
  <2>5. Issued(session.token)'
    BY <1>2, <2>1, IssuedStable DEF ServeLogin, TabInv, TypeOK, Issued
  <2>. QED
    BY <1>2, <2>1, <2>2, <2>4, <2>5 DEF ServeLogin, IsUnlocked, TabInv, TypeOK
<1>3. CASE ServeSync(s)
  <2>0. UserOfToken(calls[s].token) \in Users
    BY <1>0, <1>3 DEF ServeSync, Valid, CallInv, Issued, UserOfToken
  <2>1. members[UserOfToken(calls[s].token)] \in SUBSET Collections
    BY <2>0 DEF TabInv, TypeOK
  <2>2. /\ calls' \in [Calls -> CallType]
        /\ \A t \in Calls \ {s} : calls'[t] = calls[t]
    BY <1>0, <1>3, <2>0, <2>1 DEF ServeSync, Answered, CallType
  <2>3. CallInv(calls[s])'
    BY <1>0, <1>3, <2>0, <2>1 DEF ServeSync, Answered, CallType, CallInv, Issued, NoKeys
  <2>4. \A t \in Calls : CallInv(calls[t])'
    BY <1>3, <2>2, <2>3, OneCallMoves DEF ServeSync, serverVars
  <2>. QED
    BY <1>3, <2>2, <2>4 DEF ServeSync, serverVars, Issued, IsUnlocked, TabInv, TypeOK
<1>4. CASE ServeSave(s)
  <2>1. /\ calls' \in [Calls -> CallType]
        /\ \A t \in Calls \ {s} : calls'[t] = calls[t]
    BY <1>0, <1>4 DEF ServeSave, Answered, CallType
  <2>2. CallInv(calls[s])'
    BY <1>0, <1>4 DEF ServeSave, Answered, CallType, CallInv, Issued
  <2>3. \A t \in Calls : CallInv(calls[t])'
    BY <1>4, <2>1, <2>2, OneCallMoves DEF ServeSave, serverVars
  <2>. QED
    BY <1>4, <2>1, <2>3 DEF ServeSave, serverVars, Issued, IsUnlocked, TabInv, TypeOK
<1>5. CASE ServeCreate(s)
  <2>0. UserOfToken(calls[s].token) \in Users /\ calls[s].target \in Collections
    BY <1>0, <1>5 DEF ServeCreate, Valid, CallInv, Issued, UserOfToken, CallType
  <2>1. members' \in [Users -> SUBSET Collections]
    BY <1>5, <2>0 DEF ServeCreate, TabInv, TypeOK
  <2>2. /\ calls' \in [Calls -> CallType]
        /\ \A t \in Calls \ {s} : calls'[t] = calls[t]
    BY <1>0, <1>5 DEF ServeCreate, Answered, CallType
  <2>3. CallInv(calls[s])'
    BY <1>0, <1>5 DEF ServeCreate, Answered, CallType, CallInv, Issued
  <2>4. \A t \in Calls : CallInv(calls[t])'
    BY <1>5, <2>2, <2>3, OneCallMoves DEF ServeCreate
  <2>. QED
    BY <1>5, <2>1, <2>2, <2>4 DEF ServeCreate, Issued, IsUnlocked, TabInv, TypeOK
<1>6. CASE Deny(s)
  <2>1. /\ calls' \in [Calls -> CallType]
        /\ \A t \in Calls \ {s} : calls'[t] = calls[t]
    BY <1>0, <1>6 DEF Deny, CallType
  <2>2. CallInv(calls[s])'
    BY <1>0, <1>6 DEF Deny, CallType, CallInv, Issued, serverVars
  <2>3. \A t \in Calls : CallInv(calls[t])'
    BY <1>6, <2>1, <2>2, OneCallMoves DEF Deny, serverVars
  <2>. QED
    BY <1>6, <2>1, <2>3 DEF Deny, serverVars, Issued, IsUnlocked, TabInv, TypeOK
<1>7. CASE Fail(s)
  <2>1. calls' \in [Calls -> CallType] /\ \A t \in Calls : CallInv(calls[t])'
    BY <1>7, CallEnds DEF Fail, serverVars
  <2>2. heap' \in [Buffers -> Contents]
    BY <1>7, ZeroizedType DEF Fail, TabInv, TypeOK
  <2>. QED
    BY <1>7, <2>1, <2>2 DEF Fail, serverVars, Issued, IsUnlocked, TabInv, TypeOK
<1>8. CASE Unauthorized(s)
  <2>1. CASE ~calls[s].retried /\ session.token # None
    <3>0. session.token \in Tokens /\ Issued(session.token)
      BY <2>1 DEF TabInv, TypeOK
    <3>1. /\ calls' \in [Calls -> CallType] /\ heap' = heap
          /\ \A t \in Calls \ {s} : calls'[t] = calls[t]
      BY <1>0, <1>8, <2>1, <3>0 DEF Unauthorized, CallType
    <3>2. CallInv(calls[s])'
      BY <1>0, <1>8, <2>1, <3>0 DEF Unauthorized, CallType, CallInv, Issued, serverVars
    <3>3. \A t \in Calls : CallInv(calls[t])'
      BY <1>8, <3>1, <3>2, OneCallMoves DEF Unauthorized, serverVars
    <3>. QED
      BY <1>8, <3>1, <3>3 DEF Unauthorized, serverVars, Issued, IsUnlocked, TabInv, TypeOK
  <2>2. CASE ~(~calls[s].retried /\ session.token # None)
    <3>1. calls' \in [Calls -> CallType] /\ \A t \in Calls : CallInv(calls[t])'
      BY <1>8, <2>2, CallEnds DEF Unauthorized, serverVars
    <3>2. heap' \in [Buffers -> Contents]
      BY <1>8, <2>2, ZeroizedType DEF Unauthorized, TabInv, TypeOK
    <3>. QED
      BY <1>8, <3>1, <3>2 DEF Unauthorized, serverVars, Issued, IsUnlocked, TabInv, TypeOK
  <2>. QED  BY <2>1, <2>2
<1>9. CASE Rotate(s)
  <2>. DEFINE t == calls[s].token
  <2>0. /\ t \in Tokens /\ t.login \in Logins /\ t.gen \in 0 .. MaxRotations
        /\ t.gen < MaxRotations /\ t.gen + 1 \in 0 .. MaxRotations
        /\ server[t.login].gen = t.gen
        /\ server \in [Logins -> [user : Users \cup {None}, gen : 0 .. MaxRotations,
                                  expired : BOOLEAN]]
    BY <1>0, <1>9, SessionAssumption DEF Rotate, CallInv, CallType, Tokens, TabInv, TypeOK
  <2>1. /\ server' \in [Logins -> [user : Users \cup {None}, gen : 0 .. MaxRotations,
                                   expired : BOOLEAN]]
        /\ \A k \in Logins : server'[k].user = server[k].user
    BY <1>9, <2>0 DEF Rotate
  <2>2. /\ calls' \in [Calls -> CallType]
        /\ \A o \in Calls \ {s} : calls'[o] = calls[o]
    BY <1>0, <1>9, <2>0 DEF Rotate, CallType, Tokens
  <2>3. CallInv(calls[s])'
    <3>1. calls'[s] = [calls[s] EXCEPT !.pc = "rotated",
                                       !.token = [t EXCEPT !.gen = @ + 1]]
      BY <1>0, <1>9 DEF Rotate, CallType
    <3>2. calls'[s].token \in Tokens /\ calls'[s].token.login = t.login
      BY <1>0, <2>0, <3>1 DEF Tokens, CallType
    <3>3. Issued(calls[s].token)'
      <4>1. t # None /\ server[t.login].user \in Users
        BY <1>0, <2>0, BufferFacts DEF Issued, CallInv
      <4>2. server'[calls'[s].token.login].user \in Users
        BY <2>0, <2>1, <3>2, <4>1
      <4>. QED  BY <4>2 DEF Issued
    <3>4. calls'[s].token # None
      BY <3>2, BufferFacts
    <3>. QED
      BY <1>0, <1>9, <3>1, <3>3, <3>4 DEF Rotate, CallType, CallInv
  <2>4. \A o \in Calls : CallInv(calls[o])'
    BY <2>1, <2>2, <2>3, OneCallMoves
  <2>5. Issued(session.token)'
    BY <1>9, <2>1, IssuedStable DEF Rotate, TabInv, TypeOK, Issued
  <2>. QED
    BY <1>9, <2>1, <2>2, <2>4, <2>5 DEF Rotate, IsUnlocked, TabInv, TypeOK
<1>10. CASE ReplaceTokens(s)
  <2>1. /\ calls' \in [Calls -> CallType]
        /\ \A t \in Calls \ {s} : calls'[t] = calls[t]
    BY <1>0, <1>10 DEF ReplaceTokens, CallType
  <2>2. CallInv(calls[s])'
    BY <1>0, <1>10 DEF ReplaceTokens, CallType, CallInv, Issued, serverVars
  <2>3. \A t \in Calls : CallInv(calls[t])'
    BY <1>10, <2>1, <2>2, OneCallMoves DEF ReplaceTokens, serverVars
  <2>4. /\ session' \in [user : Users \cup {None}, key : Buffers \cup {None},
                          token : Tokens \cup {None}]
        /\ session'.key = session.key /\ session'.user = session.user
        /\ session'.token = calls[s].token
    BY <1>0, <1>10 DEF ReplaceTokens, CallType, TabInv, TypeOK
  <2>. QED
    BY <1>0, <1>10, <2>1, <2>3, <2>4
    DEF ReplaceTokens, serverVars, Issued, IsUnlocked, TabInv, TypeOK, CallInv
<1>11. CASE RefreshFails(s)
  <2>1. calls' \in [Calls -> CallType] /\ \A t \in Calls : CallInv(calls[t])'
    BY <1>11, CallEnds DEF RefreshFails, serverVars
  <2>2. heap' \in [Buffers -> Contents]
    BY <1>11, ZeroizedType DEF RefreshFails, TabInv, TypeOK
  <2>. QED
    BY <1>11, <2>1, <2>2
    DEF RefreshFails, Locked, NoKeys, serverVars, Issued, IsUnlocked, TabInv, TypeOK
<1>. QED
  BY <1>1, <1>2, <1>3, <1>4, <1>5, <1>6, <1>7, <1>8, <1>9, <1>10, <1>11

\* Starting a call: it points at what the session holds at that moment.
LEMMA StartKeepsTab ==
    ASSUME TabInv, NEW s \in Calls, StartStep(s) PROVE TabInv'
<1>0. /\ calls \in [Calls -> CallType] /\ session.token \in Tokens \cup {None}
      /\ Issued(session.token) /\ Zero \in Contents /\ NoKeys \in [Collections -> {None}]
  BY DEF TabInv, TypeOK, Contents, NoKeys
<1>1. ASSUME NEW u \in Users, StartUnlock(s, u) PROVE TabInv'
  <2>1. /\ calls' \in [Calls -> CallType]
        /\ \A t \in Calls \ {s} : calls'[t] = calls[t]
    BY <1>0, <1>1 DEF StartUnlock, Begin, Sent, Idle, CallType
  <2>2. CallInv(calls[s])'
    BY <1>0, <1>1 DEF StartUnlock, Begin, Sent, Idle, CallInv, Issued, serverVars
  <2>3. \A t \in Calls : CallInv(calls[t])'
    BY <1>1, <2>1, <2>2, OneCallMoves DEF StartUnlock, serverVars
  <2>. QED
    BY <1>1, <2>1, <2>3 DEF StartUnlock, serverVars, Issued, IsUnlocked, TabInv, TypeOK
<1>2. CASE StartResync(s)
  <2>1. /\ calls' \in [Calls -> CallType]
        /\ \A t \in Calls \ {s} : calls'[t] = calls[t]
    BY <1>0, <1>2 DEF StartResync, Begin, Sent, Idle, CallType
  <2>2. CallInv(calls[s])'
    BY <1>0, <1>2 DEF StartResync, Begin, Sent, Idle, CallInv, Issued, serverVars
  <2>3. \A t \in Calls : CallInv(calls[t])'
    BY <1>2, <2>1, <2>2, OneCallMoves DEF StartResync, serverVars
  <2>. QED
    BY <1>2, <2>1, <2>3 DEF StartResync, serverVars, Issued, IsUnlocked, TabInv, TypeOK
<1>3. ASSUME NEW c \in Collections \cup {None}, StartSave(s, c) PROVE TabInv'
  <2>0. ParentKey(c) \in Buffers /\ session.user \in Users
    BY <1>3 DEF StartSave, ParentKey, TabInv, TypeOK
  <2>1. /\ calls' \in [Calls -> CallType]
        /\ \A t \in Calls \ {s} : calls'[t] = calls[t]
    BY <1>0, <1>3, <2>0 DEF StartSave, Begin, Preparing, Idle, CallType
  <2>2. CallInv(calls[s])'
    BY <1>0, <1>3, <2>0, BufferFacts
    DEF StartSave, Begin, Preparing, Idle, CallInv, Issued, serverVars
  <2>3. \A t \in Calls : CallInv(calls[t])'
    BY <1>3, <2>1, <2>2, OneCallMoves DEF StartSave, serverVars
  <2>. QED
    BY <1>3, <2>1, <2>3 DEF StartSave, serverVars, Issued, IsUnlocked, TabInv, TypeOK
<1>4. ASSUME NEW c \in Collections, StartCreate(s, c) PROVE TabInv'
  <2>0. Fresh \in KeyPool /\ Fresh \in Buffers /\ session.user \in Users
    BY <1>4, FreshIsFree, BufferFacts DEF StartCreate, TabInv
  <2>1. /\ calls' \in [Calls -> CallType]
        /\ \A t \in Calls \ {s} : calls'[t] = calls[t]
    BY <1>0, <1>4, <2>0 DEF StartCreate, Begin, Preparing, Idle, CallType
  <2>2. CallInv(calls[s])'
    <3>1. /\ calls'[s].op = "create" /\ calls'[s].pc = "ready" /\ calls'[s].target = c
          /\ calls'[s].key \in KeyPool /\ calls'[s].next = NoKeys /\ calls'[s].todo = {}
          /\ calls'[s].token = None
      BY <1>0, <1>4, <2>0 DEF StartCreate, Begin, Preparing, Idle
    <3>. QED  BY <1>0, <3>1, BufferFacts DEF CallInv, Issued
  <2>3. \A t \in Calls : CallInv(calls[t])'
    BY <1>4, <2>1, <2>2, OneCallMoves DEF StartCreate, serverVars
  <2>4. heap' \in [Buffers -> Contents]
    BY <1>4, <2>0 DEF StartCreate, Contents, TabInv, TypeOK
  <2>. QED
    BY <1>4, <2>1, <2>3, <2>4 DEF StartCreate, serverVars, Issued, IsUnlocked, TabInv, TypeOK
<1>. QED  BY <1>1, <1>2, <1>3, <1>4 DEF StartStep

\* setCollectionKeys and lock() blank keys and nothing else.
LEMMA BlankingType ==
    ASSUME TabInv, NEW next
    PROVE  ZeroizedByNewMap(next) \in [Buffers -> Contents]
  BY ZeroizedType DEF ZeroizedByNewMap, TabInv, TypeOK

\* What the answers do leaves the tab well-formed, also when it was locked or
\* opened again since.
LEMMA AnswerKeepsTab ==
    ASSUME TabInv, NEW s \in Calls,
           \/ FinishUnlock(s) \/ AdoptCollections(s) \/ InstallKeys(s)
           \/ \E c \in Collections : AdoptKey(s, c)
           \/ DecryptRecords(s) \/ MergeSync(s) \/ Upsert(s) \/ InstallCreated(s)
    PROVE  TabInv'
<1>0. /\ calls \in [Calls -> CallType] /\ calls[s] \in CallType /\ CallInv(calls[s])
      /\ Zero \in Contents /\ NoKeys \in [Collections -> {None}]
      /\ heap \in [Buffers -> Contents] /\ ring \in [Collections -> Buffers \cup {None}]
  BY DEF TabInv, TypeOK, Contents, NoKeys
<1>1. CASE FinishUnlock(s)
  <2>. DEFINE token == calls[s].token
              u == calls[s].who
  <2>0. token \in Tokens /\ u \in Users /\ Issued(token) /\ token.login \in Logins
    BY <1>0, <1>1 DEF FinishUnlock, CallInv, CallType, Tokens
  <2>1. /\ calls' \in [Calls -> CallType]
        /\ \A t \in Calls \ {s} : calls'[t] = calls[t]
    BY <1>0, <1>1, <2>0 DEF FinishUnlock, Idle, CallType
  <2>2. CallInv(calls[s])'
    <3>1. /\ calls'[s].op = "load" /\ calls'[s].pc = "sent" /\ calls'[s].token = token
          /\ calls'[s].next = NoKeys /\ calls'[s].todo = {}
      BY <1>0, <1>1 DEF FinishUnlock, Idle
    <3>. QED  BY <1>0, <1>1, <2>0, <3>1 DEF CallInv, Issued, FinishUnlock, serverVars
  <2>3. \A t \in Calls : CallInv(calls[t])'
    BY <1>1, <2>1, <2>2, OneCallMoves DEF FinishUnlock, serverVars
  <2>4. heap' \in [Buffers -> Contents]
    BY <1>0, <1>1, <2>0, ZeroizedType, BufferFacts DEF FinishUnlock, OpenSession, Contents
  <2>5. /\ session' = [user |-> u, key |-> token.login, token |-> token]
        /\ ring' = NoKeys /\ UNCHANGED <<shows, server, members>>
    BY <1>1 DEF FinishUnlock, OpenSession, serverVars
  <2>6. /\ session'.user \in Users /\ session'.key \in Logins
        /\ session'.token = token
        /\ session' \in [user : Users \cup {None}, key : Buffers \cup {None},
                          token : Tokens \cup {None}]
    BY <2>0, <2>5, BufferFacts
  <2>7. Issued(session.token)'
    BY <2>0, <2>5, <2>6 DEF Issued
  <2>8. ring' \in [Collections -> Buffers \cup {None}] /\ \A c \in Collections : ring'[c] = None
    BY <1>0, <2>5
  <2>. QED
    BY <2>1, <2>3, <2>4, <2>5, <2>6, <2>7, <2>8 DEF IsUnlocked, TabInv, TypeOK
<1>2. CASE AdoptCollections(s)
  <2>1. CASE IsUnlocked
    <3>0. session.key \in Buffers
      BY <2>1, BufferFacts DEF TabInv
    <3>1. /\ calls' \in [Calls -> CallType]
          /\ \A t \in Calls \ {s} : calls'[t] = calls[t]
      BY <1>0, <1>2, <2>1, <3>0 DEF AdoptCollections, CallType
    <3>2. CallInv(calls[s])'
      <4>1. calls'[s] = [calls[s] EXCEPT !.pc = "adopting", !.key = session.key]
        BY <1>0, <1>2, <2>1 DEF AdoptCollections
      <4>2. /\ calls'[s].pc = "adopting" /\ calls'[s].key = session.key
            /\ calls'[s].op = calls[s].op /\ calls'[s].who = calls[s].who
            /\ calls'[s].token = calls[s].token /\ calls'[s].next = calls[s].next
            /\ calls'[s].todo = calls[s].todo /\ calls[s].todo \subseteq Collections
        BY <1>0, <4>1 DEF CallType
      <4>3. calls[s].op \in {"load", "resync"} /\ calls[s].pc = "answered" /\ server' = server
        BY <1>2 DEF AdoptCollections, serverVars
      <4>. QED
        BY <1>0, <3>0, <4>2, <4>3, BufferFacts DEF CallInv, Issued
    <3>3. \A t \in Calls : CallInv(calls[t])'
      BY <1>2, <3>1, <3>2, OneCallMoves DEF AdoptCollections, serverVars
    <3>. QED
      BY <1>2, <3>1, <3>3 DEF AdoptCollections, serverVars, Issued, IsUnlocked, TabInv, TypeOK
  <2>2. CASE ~IsUnlocked
    <3>1. calls' \in [Calls -> CallType] /\ \A t \in Calls : CallInv(calls[t])'
      BY <1>2, <2>2, CallEnds DEF AdoptCollections, serverVars
    <3>. QED
      BY <1>2, <3>1 DEF AdoptCollections, serverVars, Issued, IsUnlocked, TabInv, TypeOK
  <2>. QED  BY <2>1, <2>2
<1>3. CASE InstallKeys(s)
  <2>1. /\ calls' \in [Calls -> CallType]
        /\ \A t \in Calls \ {s} : calls'[t] = calls[t]
    BY <1>0, <1>3 DEF InstallKeys, CallType
  <2>2. CallInv(calls[s])'
    <3>1. calls'[s] = [calls[s] EXCEPT !.pc = "decrypting", !.key = None, !.next = NoKeys]
      BY <1>0, <1>3 DEF InstallKeys
    <3>. QED  BY <1>0, <1>3, <3>1 DEF InstallKeys, CallInv, CallType, Issued, serverVars
  <2>3. \A t \in Calls : CallInv(calls[t])'
    BY <1>3, <2>1, <2>2, OneCallMoves DEF InstallKeys, serverVars
  <2>4. heap' \in [Buffers -> Contents]
    BY <1>3, BlankingType DEF InstallKeys
  <2>5. /\ ring' \in [Collections -> Buffers \cup {None}]
        /\ \A c \in Collections : ring'[c] \in KeyPool \cup {None}
    BY <1>0, <1>3 DEF InstallKeys, CallType, CallInv
  <2>. QED
    BY <1>3, <2>1, <2>3, <2>4, <2>5
    DEF InstallKeys, serverVars, Issued, IsUnlocked, TabInv, TypeOK
<1>4. ASSUME NEW c \in Collections, AdoptKey(s, c) PROVE TabInv'
  <2>0. calls[s].pc = "adopting" /\ c \in calls[s].todo
    BY <1>4 DEF AdoptKey
  <2>1. calls[s].next \in [Collections -> Buffers \cup {None}] /\ calls[s].todo \subseteq Collections
    BY <1>0 DEF CallType
  <2>2. PICK k \in KeyPool \cup {None} :
           /\ calls' \in [Calls -> CallType]
           /\ \A t \in Calls \ {s} : calls'[t] = calls[t]
           /\ calls'[s].next = [calls[s].next EXCEPT ![c] = k]
           /\ calls'[s].todo = calls[s].todo \ {c} /\ calls'[s].op = calls[s].op
           /\ calls'[s].pc = "adopting" /\ calls'[s].token = calls[s].token
           /\ calls'[s].who = calls[s].who /\ calls'[s].key = calls[s].key
           /\ heap' \in [Buffers -> Contents]
    <3>1. ASSUME NEW k \in KeyPool \cup {None},
                 calls' = [calls EXCEPT ![s].todo = @ \ {c}, ![s].next[c] = k]
          PROVE  /\ calls' \in [Calls -> CallType]
                 /\ \A t \in Calls \ {s} : calls'[t] = calls[t]
                 /\ calls'[s].next = [calls[s].next EXCEPT ![c] = k]
                 /\ calls'[s].todo = calls[s].todo \ {c} /\ calls'[s].op = calls[s].op
                 /\ calls'[s].pc = "adopting" /\ calls'[s].token = calls[s].token
                 /\ calls'[s].who = calls[s].who /\ calls'[s].key = calls[s].key
      BY <1>0, <2>0, <3>1, BufferFacts DEF CallType
    <3>2. CASE ring[c] # None
      <4>1. ring[c] \in KeyPool \cup {None} /\ heap' = heap
            /\ calls' = [calls EXCEPT ![s].todo = @ \ {c}, ![s].next[c] = ring[c]]
        BY <1>4, <3>2 DEF AdoptKey, TabInv
      <4>. QED  BY <1>0, <3>1, <4>1
    <3>3. CASE /\ FreeBuffers # {}
               /\ calls' = [calls EXCEPT ![s].todo = @ \ {c}, ![s].next[c] = Fresh]
               /\ heap' = [heap EXCEPT ![Fresh] = c]
      <4>1. Fresh \in KeyPool \cup {None} /\ heap' \in [Buffers -> Contents]
        BY <1>0, <3>3, FreshIsFree, BufferFacts DEF Contents
      <4>. QED  BY <3>1, <3>3, <4>1
    <3>4. CASE calls' = [calls EXCEPT ![s].todo = @ \ {c}] /\ heap' = heap
      <4>1. calls[s].next = [calls[s].next EXCEPT ![c] = None]
        BY <1>0, <2>0, <2>1 DEF CallInv
      <4>. QED  BY <1>0, <2>0, <3>4, <4>1 DEF CallType
    <3>. QED  BY <1>4, <3>2, <3>3, <3>4 DEF AdoptKey
  <2>3. CallInv(calls[s])'
    <3>1. /\ \A d \in Collections : calls'[s].next[d] \in KeyPool \cup {None}
          /\ \A d \in calls'[s].todo : calls'[s].next[d] = None
      BY <1>0, <2>1, <2>2 DEF CallInv
    <3>. QED
      BY <1>0, <1>4, <2>0, <2>2, <3>1 DEF CallInv, Issued, AdoptKey, serverVars
  <2>4. \A t \in Calls : CallInv(calls[t])'
    BY <1>4, <2>2, <2>3, OneCallMoves DEF AdoptKey, serverVars
  <2>. QED
    BY <1>4, <2>2, <2>4 DEF AdoptKey, serverVars, Issued, IsUnlocked, TabInv, TypeOK
<1>5. CASE DecryptRecords(s)
  <2>1. CASE IsUnlocked
    <3>0. heap[session.key] \in Contents
      BY <1>0, <2>1, BufferFacts DEF TabInv
    <3>1. /\ calls' \in [Calls -> CallType]
          /\ \A t \in Calls \ {s} : calls'[t] = calls[t]
      BY <1>0, <1>5, <2>1, <3>0 DEF DecryptRecords, CallType
    <3>2. CallInv(calls[s])'
      <4>1. calls'[s] = [calls[s] EXCEPT !.pc = "merging", !.under = heap[session.key]]
        BY <1>0, <1>5, <2>1 DEF DecryptRecords
      <4>. QED
        BY <1>0, <1>5, <4>1 DEF DecryptRecords, CallInv, CallType, Issued, serverVars
    <3>3. \A t \in Calls : CallInv(calls[t])'
      BY <1>5, <3>1, <3>2, OneCallMoves DEF DecryptRecords, serverVars
    <3>. QED
      BY <1>5, <3>1, <3>3 DEF DecryptRecords, serverVars, Issued, IsUnlocked, TabInv, TypeOK
  <2>2. CASE ~IsUnlocked
    <3>1. calls' \in [Calls -> CallType] /\ \A t \in Calls : CallInv(calls[t])'
      BY <1>5, <2>2, CallEnds DEF DecryptRecords, serverVars
    <3>. QED
      BY <1>5, <3>1 DEF DecryptRecords, serverVars, Issued, IsUnlocked, TabInv, TypeOK
  <2>. QED  BY <2>1, <2>2
<1>6. CASE MergeSync(s)
  <2>1. calls' \in [Calls -> CallType] /\ \A t \in Calls : CallInv(calls[t])'
    BY <1>6, CallEnds DEF MergeSync, serverVars
  <2>2. shows' \subseteq Users
    BY <1>0, <1>6 DEF MergeSync, CallInv, TabInv, TypeOK
  <2>. QED
    BY <1>6, <2>1, <2>2 DEF MergeSync, serverVars, Issued, IsUnlocked, TabInv, TypeOK
<1>7. CASE Upsert(s)
  <2>1. calls' \in [Calls -> CallType] /\ \A t \in Calls : CallInv(calls[t])'
    BY <1>7, CallEnds DEF Upsert, serverVars
  <2>2. shows' \subseteq Users
    BY <1>0, <1>7 DEF Upsert, CallInv, TabInv, TypeOK
  <2>. QED
    BY <1>7, <2>1, <2>2 DEF Upsert, serverVars, Issued, IsUnlocked, TabInv, TypeOK
<1>8. CASE InstallCreated(s)
  <2>1. calls' \in [Calls -> CallType] /\ \A t \in Calls : CallInv(calls[t])'
    BY <1>8, CallEnds DEF InstallCreated, serverVars
  <2>2. heap' \in [Buffers -> Contents]
    BY <1>8, BlankingType DEF InstallCreated
  <2>3. calls[s].key \in KeyPool /\ calls[s].target \in Collections
    BY <1>0, <1>8 DEF InstallCreated, CallInv, CallType
  <2>4. /\ ring' \in [Collections -> Buffers \cup {None}]
        /\ \A c \in Collections : ring'[c] \in KeyPool \cup {None}
    BY <1>0, <1>8, <2>3, BufferFacts DEF InstallCreated, TabInv
  <2>. QED
    BY <1>8, <2>1, <2>2, <2>4
    DEF InstallCreated, serverVars, Issued, IsUnlocked, TabInv, TypeOK
<1>. QED  BY <1>1, <1>2, <1>3, <1>4, <1>5, <1>6, <1>7, <1>8

\* Locking, and what happens on the server meanwhile, leaves the tab well-formed.
LEMMA TabStep == TabInv /\ [Next]_vars => TabInv'
<1>. SUFFICES ASSUME TabInv, [Next]_vars PROVE TabInv'
  OBVIOUS
<1>1. ASSUME NEW s \in Calls, StartStep(s) \/ CallStep(s) PROVE TabInv'
  BY <1>1, StartKeepsTab, RequestKeepsTab, AnswerKeepsTab DEF CallStep
<1>2. ASSUME UNCHANGED calls,
             \A l \in Logins : server[l].user \in Users => server'[l].user \in Users
      PROVE  \A t \in Calls : CallInv(calls[t])'
  <2>1. ASSUME NEW t \in Calls PROVE CallInv(calls[t])'
    <3>1. calls[t].token \in Tokens \cup {None} /\ CallInv(calls[t])
      BY DEF TabInv, TypeOK, CallType
    <3>2. Issued(calls[t].token)'
      BY <1>2, <3>1, IssuedStable DEF TabInv, CallInv, Issued
    <3>. QED  BY <1>2, <3>1, <3>2 DEF CallInv
  <2>. QED  BY <2>1
<1>3. CASE Lock
  <2>1. \A t \in Calls : CallInv(calls[t])'
    BY <1>2, <1>3 DEF Lock, serverVars
  <2>2. heap' \in [Buffers -> Contents]
    BY <1>3, ZeroizedType DEF Lock, ClearAndLock, LockSession, TabInv, TypeOK
  <2>. QED
    BY <1>3, <2>1, <2>2 DEF Lock, ClearAndLock, LockSession, Locked, NoKeys, serverVars,
                            Issued, IsUnlocked, TabInv, TypeOK
<1>4. ASSUME NEW l \in Logins, Expire(l) PROVE TabInv'
  <2>1. /\ server' \in [Logins -> [user : Users \cup {None}, gen : 0 .. MaxRotations,
                                   expired : BOOLEAN]]
        /\ \A k \in Logins : server'[k].user = server[k].user
    BY <1>4 DEF Expire, TabInv, TypeOK
  <2>2. \A t \in Calls : CallInv(calls[t])'
    BY <1>2, <1>4, <2>1 DEF Expire, clientVars
  <2>3. Issued(session.token)'
    BY <1>4, <2>1, IssuedStable DEF Expire, clientVars, TabInv, TypeOK, Issued
  <2>. QED
    BY <1>4, <2>1, <2>2, <2>3 DEF Expire, clientVars, IsUnlocked, TabInv, TypeOK
<1>5. ASSUME NEW u \in Users, NEW c \in Collections, ChangeMembership(u, c) PROVE TabInv'
  <2>1. \A t \in Calls : CallInv(calls[t])'
    BY <1>2, <1>5 DEF ChangeMembership, clientVars
  <2>2. members' \in [Users -> SUBSET Collections]
    BY <1>5 DEF ChangeMembership, TabInv, TypeOK
  <2>. QED
    BY <1>5, <2>1, <2>2 DEF ChangeMembership, clientVars, Issued, IsUnlocked, TabInv, TypeOK
<1>6. CASE UNCHANGED vars
  <2>1. \A t \in Calls : CallInv(calls[t])'
    BY <1>2, <1>6 DEF vars, clientVars, serverVars
  <2>. QED
    BY <1>6, <2>1 DEF vars, clientVars, serverVars, Issued, IsUnlocked, TabInv, TypeOK
<1>. QED  BY <1>1, <1>3, <1>4, <1>5, <1>6 DEF Next

\* The tab is well-formed at every moment.
LEMMA TabInvHolds == Spec => []TabInv
  BY TabInit, TabStep, PTL DEF Spec

-----------------------------------------------------------------------------
(***************************************************************************)
(* The key of an open session.                                             *)
(***************************************************************************)

\* Only buffers of the session itself are ever blanked with the session's key.
LEMMA WholeStep == TabInv /\ OpenKeyIsWhole /\ [Next]_vars => OpenKeyIsWhole'
<1>. SUFFICES ASSUME TabInv, OpenKeyIsWhole, [Next]_vars PROVE OpenKeyIsWhole'
  OBVIOUS
<1>0. /\ heap \in [Buffers -> Contents]
      /\ IsUnlocked => session.key \in Logins /\ session.key \in Buffers
                        /\ session.key \notin KeyPool
      /\ session \in [user : Users \cup {None}, key : Buffers \cup {None},
                       token : Tokens \cup {None}]
  BY BufferFacts DEF TabInv, TypeOK
\* The key stays where it is unless the step blanks or writes its buffer.
<1>1. ASSUME session'.key = session.key, session'.user = session.user,
             IsUnlocked => heap'[session.key] = heap[session.key]
      PROVE  OpenKeyIsWhole'
  BY <1>1 DEF OpenKeyIsWhole, IsUnlocked
<1>2. ASSUME session' = Locked PROVE OpenKeyIsWhole'
  BY <1>2 DEF OpenKeyIsWhole, IsUnlocked, Locked
<1>3. ASSUME NEW s \in Calls, StartStep(s) PROVE OpenKeyIsWhole'
  <2>1. UNCHANGED session
    BY <1>3 DEF StartStep, StartUnlock, StartResync, StartSave, StartCreate
  <2>2. IsUnlocked => heap'[session.key] = heap[session.key]
    <3>1. CASE \E c \in Collections : StartCreate(s, c)
      BY <1>0, <3>1, FreshIsFree DEF StartCreate
    <3>2. CASE ~\E c \in Collections : StartCreate(s, c)
      BY <1>3, <3>2 DEF StartStep, StartUnlock, StartResync, StartSave
    <3>. QED  BY <3>1, <3>2
  <2>. QED  BY <1>1, <2>1, <2>2
<1>4. ASSUME NEW s \in Calls, CallStep(s) PROVE OpenKeyIsWhole'
  <2>0. calls[s] \in CallType /\ CallInv(calls[s])
    BY DEF TabInv, TypeOK
  <2>1. session.key \in OwnedKey(calls[s]) => ~IsUnlocked
    BY <1>0, <2>0 DEF OwnedKey, CallInv
  <2>2. ASSUME NEW next, heap' = ZeroizedByNewMap(next), UNCHANGED session
        PROVE  OpenKeyIsWhole'
    <3>1. \A c \in Collections : IsUnlocked => ring[c] # session.key
      BY <1>0, BufferFacts DEF TabInv, IsUnlocked
    <3>. QED  BY <1>0, <1>1, <2>2, <3>1, ZeroizedType DEF ZeroizedByNewMap
  <2>3. CASE Fail(s) \/ Unauthorized(s)
    <3>1. UNCHANGED session /\ heap' \in {heap, Zeroized(heap, OwnedKey(calls[s]))}
      BY <2>3 DEF Fail, Unauthorized
    <3>. QED  BY <1>0, <1>1, <2>1, <3>1, ZeroizedType
  <2>4. CASE ReplaceTokens(s)
    BY <1>0, <1>1, <2>4 DEF ReplaceTokens
  <2>5. CASE RefreshFails(s)
    BY <1>2, <2>5 DEF RefreshFails
  <2>6. CASE FinishUnlock(s)
    <3>1. calls[s].token.login \in Buffers
      BY <2>0, <2>6, BufferFacts DEF FinishUnlock, CallInv, CallType, Tokens
    <3>2. /\ session'.key = calls[s].token.login /\ session'.user = calls[s].who
          /\ heap'[calls[s].token.login] = calls[s].who
      BY <1>0, <2>6, <3>1, ZeroizedType DEF FinishUnlock, OpenSession
    <3>. QED  BY <3>2 DEF OpenKeyIsWhole
  <2>7. ASSUME NEW c \in Collections, AdoptKey(s, c) PROVE OpenKeyIsWhole'
    <3>1. /\ UNCHANGED session
          /\ heap' = heap \/ (FreeBuffers # {} /\ heap' = [heap EXCEPT ![Fresh] = c])
      BY <2>7 DEF AdoptKey
    <3>. QED  BY <1>0, <1>1, <3>1, FreshIsFree
  <2>8. CASE InstallKeys(s) \/ InstallCreated(s)
    BY <2>2, <2>8 DEF InstallKeys, InstallCreated
  <2>9. CASE UNCHANGED <<session, heap>>
    BY <1>1, <2>9
  <2>. QED
    BY <1>4, <2>3, <2>4, <2>5, <2>6, <2>7, <2>8, <2>9
    DEF CallStep, Send, ServeLogin, ServeSync, ServeSave, ServeCreate, Deny, Rotate,
        AdoptCollections, DecryptRecords, MergeSync, Upsert
<1>5. CASE Lock
  BY <1>2, <1>5 DEF Lock, ClearAndLock, LockSession
<1>6. CASE UNCHANGED clientVars
  BY <1>1, <1>6 DEF clientVars
<1>. QED
  BY <1>3, <1>4, <1>5, <1>6 DEF Next, Expire, ChangeMembership, vars

\* As long as a tab is unlocked its own key is whole: no late answer, failed
\* creation, key adoption or second sign-in blanks it (session.ts).
THEOREM OpenSessionKeepsItsKey == Spec => []SessionInv
<1>1. Init => OpenKeyIsWhole
  BY DEF Init, OpenKeyIsWhole, IsUnlocked, Locked
<1>2. TabInv /\ OpenKeyIsWhole => SessionInv
  BY DEF TabInv, SessionInv
<1>. QED  BY <1>1, <1>2, WholeStep, TabInvHolds, PTL DEF Spec

-----------------------------------------------------------------------------
(***************************************************************************)
(* No key is left behind.                                                  *)
(***************************************************************************)

\* Who owns a key: the session, the call that created it, or the adoption that
\* opened it; before a step and after it.
LEMMA OwnersAre ==
    ASSUME NEW b
    PROVE  /\ b \in Owners <=> \/ b \in Held
                               \/ \E s \in Calls : b \in OwnedKey(calls[s])
                               \/ \E s \in Calls, c \in Collections : b = calls[s].next[c]
           /\ b \in Owners' <=> \/ b \in Held'
                                \/ \E s \in Calls : b \in OwnedKey(calls'[s])
                                \/ \E s \in Calls, c \in Collections : b = calls'[s].next[c]
<1>1. \A call : b \in OwnedBy(call) <=> \/ b \in OwnedKey(call)
                                        \/ \E c \in Collections : b = call.next[c]
  BY DEF OwnedBy
<1>2. /\ b \in Owners <=> b \in Held \/ \E s \in Calls : b \in OwnedBy(calls[s])
      /\ b \in Owners' <=> b \in Held' \/ \E s \in Calls : b \in OwnedBy(calls'[s])
  BY DEF Owners, OwnedBy, OwnedKey
<1>. QED  BY <1>1, <1>2

\* A step of one call orphans nothing if what it writes, what the session held
\* and what the call held is blanked by it or has an owner after it.
LEMMA NothingDropped ==
    ASSUME TabInv, NoOrphanKeys, NEW s \in Calls,
           \A t \in Calls \ {s} : calls'[t] = calls[t],
           \A b \in Buffers : heap'[b] # Zero => heap[b] # Zero \/ b \in Owners',
           \A b \in Buffers : heap'[b] # Zero /\ b \in Held => b \in Owners',
           \A b \in Buffers : heap'[b] # Zero /\ b \in OwnedKey(calls[s]) => b \in Owners',
           \A b \in Buffers, c \in Collections :
              heap'[b] # Zero /\ b = calls[s].next[c] => b \in Owners'
    PROVE  NoOrphanKeys'
<1>. SUFFICES ASSUME NEW b \in Buffers, heap'[b] # Zero, heap[b] # Zero PROVE b \in Owners'
  BY DEF NoOrphanKeys
<1>1. b \in Owners
  BY DEF NoOrphanKeys
<1>2. \A t \in Calls \ {s} : b \in OwnedKey(calls[t]) => b \in Owners'
  BY OwnersAre
<1>3. \A t \in Calls \ {s}, c \in Collections : b = calls[t].next[c] => b \in Owners'
  BY OwnersAre
<1>. QED  BY <1>1, <1>2, <1>3, OwnersAre

\* A step of a call that leaves the heap and the session's keys alone and keeps
\* what the call owns orphans nothing.
LEMMA OwnershipCarried ==
    ASSUME TabInv, NoOrphanKeys, NEW s \in Calls,
           \A t \in Calls \ {s} : calls'[t] = calls[t],
           heap' = heap, ring' = ring, session'.key = session.key,
           OwnedKey(calls[s]) \subseteq OwnedKey(calls'[s]),
           \A c \in Collections : calls[s].next[c] \in {None, calls'[s].next[c]}
    PROVE  NoOrphanKeys'
<1>1. \A b \in Held : b \in Owners'
  BY DEF Held, Owners
<1>2. \A b \in OwnedKey(calls[s]) : b \in Owners'
  BY OwnersAre
<1>3. \A b \in Buffers, c \in Collections : b = calls[s].next[c] => b \in Owners'
  BY BufferFacts, OwnersAre
<1>. QED  BY <1>1, <1>2, <1>3, NothingDropped

\* Every step, late answers and failures included, leaves each live key with an
\* owner.
LEMMA OrphanStep == TabInv /\ TabInv' /\ NoOrphanKeys /\ [Next]_vars => NoOrphanKeys'
<1>. SUFFICES ASSUME TabInv, TabInv', NoOrphanKeys, [Next]_vars PROVE NoOrphanKeys'
  OBVIOUS
<1>0. /\ heap \in [Buffers -> Contents] /\ calls \in [Calls -> CallType]
      /\ \A s \in Calls : calls[s] \in CallType /\ CallInv(calls[s])
      /\ \A c \in Collections : NoKeys[c] = None
  BY DEF TabInv, TypeOK, NoKeys
\* What a call that ends or has not reached the loop points at.
<1>1. ASSUME NEW s \in Calls, calls[s].pc # "adopting"
      PROVE  \A b \in Buffers, c \in Collections : b # calls[s].next[c]
  BY <1>0, <1>1, BufferFacts DEF CallInv
<1>2. ASSUME NEW s \in Calls, NEW r, calls' = [calls EXCEPT ![s] = r]
      PROVE  calls'[s] = r /\ \A t \in Calls \ {s} : calls'[t] = calls[t]
  BY <1>0, <1>2
\* The session's keys and the call's own are blanked, or the call owns none.
<1>3. ASSUME NEW s \in Calls, calls[s].pc # "adopting",
             calls' = AfterFailure(s),
             \/ heap' = Zeroized(heap, Held \cup OwnedKey(calls[s]))
             \/ /\ heap' = Zeroized(heap, OwnedKey(calls[s]))
                /\ UNCHANGED <<session, ring>>
             \/ /\ heap' = heap /\ OwnedKey(calls[s]) = {}
                /\ UNCHANGED <<session, ring>>
      PROVE  NoOrphanKeys'
  <2>1. \A t \in Calls \ {s} : calls'[t] = calls[t]
    BY <1>2, <1>3 DEF AfterFailure
  <2>2. \A b \in Buffers : heap'[b] # Zero => heap[b] # Zero /\ b \notin OwnedKey(calls[s])
    BY <1>0, <1>3, ZeroizedType
  <2>3. \A b \in Buffers : heap'[b] # Zero /\ b \in Held => b \in Owners'
    <3>1. UNCHANGED <<session, ring>> => \A b \in Held : b \in Owners'
      BY DEF Held, Owners
    <3>. QED  BY <1>0, <1>3, <3>1, ZeroizedType
  <2>. QED  BY <1>1, <1>3, <2>1, <2>2, <2>3, NothingDropped
<1>4. ASSUME NEW s \in Calls, StartStep(s) PROVE NoOrphanKeys'
  <2>1. calls[s] = Idle
    BY <1>4 DEF StartStep, StartUnlock, StartResync, StartSave, StartCreate, Begin
  <2>2. OwnedKey(calls[s]) = {} /\ calls[s].pc # "adopting" /\ \A c \in Collections : calls[s].next[c] = None
    BY <1>0, <2>1 DEF Idle, OwnedKey
  <2>3. ASSUME NEW c \in Collections, StartCreate(s, c) PROVE NoOrphanKeys'
    <3>1. /\ \A t \in Calls \ {s} : calls'[t] = calls[t]
          /\ calls'[s].op = "create" /\ calls'[s].key = Fresh
      BY <1>0, <2>3 DEF StartCreate, Begin, Preparing, Idle
    <3>2. Fresh \in OwnedKey(calls'[s])
      BY <3>1 DEF OwnedKey
    <3>5. Fresh \in Owners'
      BY <3>2, OwnersAre
    <3>3. \A b \in Buffers : heap'[b] # Zero => heap[b] # Zero \/ b \in Owners'
      BY <1>0, <2>3, <3>5 DEF StartCreate
    <3>4. \A b \in Held : b \in Owners'
      BY <2>3 DEF StartCreate, Held, Owners
    <3>. QED  BY <1>1, <2>2, <3>1, <3>3, <3>4, NothingDropped
  <2>4. CASE ~\E c \in Collections : StartCreate(s, c)
    <3>1. /\ \A t \in Calls \ {s} : calls'[t] = calls[t]
          /\ UNCHANGED <<heap, ring, session>>
      BY <1>0, <1>4, <2>4 DEF StartStep, StartUnlock, StartResync, StartSave, Begin
    <3>. QED  BY <2>2, <3>1, OwnershipCarried
  <2>. QED  BY <2>3, <2>4
<1>5. ASSUME NEW s \in Calls, CallStep(s) PROVE NoOrphanKeys'
  <2>0. calls[s] \in CallType /\ CallInv(calls[s])
    BY <1>0
  \* A step that only moves the call.
  <2>1. ASSUME \A t \in Calls \ {s} : calls'[t] = calls[t],
               UNCHANGED <<heap, ring>>, session'.key = session.key,
               calls'[s].op = calls[s].op, calls'[s].next = calls[s].next,
               calls[s].op = "create" => calls'[s].key = calls[s].key
        PROVE  NoOrphanKeys'
    BY <2>1, OwnershipCarried DEF OwnedKey
  <2>2. CASE Send(s)
    BY <1>0, <2>1, <2>2 DEF Send, CallType
  <2>3. ASSUME NEW l \in Logins, ServeLogin(s, l) PROVE NoOrphanKeys'
    <3>1. /\ Answered(s) \in [Calls -> CallType] /\ Answered(s)[s].op = calls[s].op
          /\ Answered(s)[s].next = calls[s].next
      <4>1. calls \in [Calls -> CallType] /\ calls[s] \in CallType
        BY <1>0
      <4>. QED  BY <4>1 DEF CallType, Answered
    <3>4. calls[s].op # "create" /\ \A t \in Calls \ {s} : Answered(s)[t] = calls[t]
      BY <1>0, <2>3 DEF Answered, ServeLogin
    <3>2. PICK k : calls' = [Answered(s) EXCEPT ![s].token = k]
      BY <2>3 DEF ServeLogin
    <3>3. /\ \A t \in Calls \ {s} : calls'[t] = calls[t]
          /\ calls'[s].op = calls[s].op /\ calls'[s].next = calls[s].next
      BY <3>1, <3>2, <3>4 DEF CallType
    <3>. QED  BY <2>1, <2>3, <3>3, <3>4 DEF ServeLogin
  <2>4. CASE ServeSync(s)
    BY <1>0, <2>1, <2>4 DEF ServeSync, Answered, CallType
  <2>5. CASE ServeSave(s) \/ ServeCreate(s)
    BY <1>0, <2>1, <2>5 DEF ServeSave, ServeCreate, Answered, CallType
  <2>6. CASE Deny(s)
    BY <1>0, <2>1, <2>6 DEF Deny, CallType
  <2>7. CASE Fail(s)
    BY <1>3, <2>7 DEF Fail
  <2>8. CASE Unauthorized(s)
    <3>1. CASE ~calls[s].retried /\ session.token # None
      BY <1>0, <2>1, <2>8, <3>1 DEF Unauthorized, CallType
    <3>2. CASE ~(~calls[s].retried /\ session.token # None)
      BY <1>3, <2>8, <3>2 DEF Unauthorized
    <3>. QED  BY <3>1, <3>2
  <2>9. CASE Rotate(s)
    BY <1>0, <2>1, <2>9 DEF Rotate, CallType
  <2>10. CASE ReplaceTokens(s)
    <3>1. session'.key = session.key
      BY <2>10 DEF ReplaceTokens, TabInv, TypeOK
    <3>. QED  BY <1>0, <2>1, <2>10, <3>1 DEF ReplaceTokens, CallType
  <2>11. CASE RefreshFails(s)
    BY <1>3, <2>11 DEF RefreshFails
  <2>12. CASE FinishUnlock(s)
    <3>1. /\ OwnedKey(calls[s]) = {} /\ calls[s].pc # "adopting"
          /\ \A t \in Calls \ {s} : calls'[t] = calls[t]
      BY <1>0, <2>12 DEF FinishUnlock, OwnedKey
    <3>2. calls[s].token.login \in Owners'
      BY <2>12 DEF FinishUnlock, OpenSession, Owners, Held
    <3>3. \A b \in Buffers : heap'[b] # Zero =>
             b = calls[s].token.login \/ (heap[b] # Zero /\ b \notin Held)
      BY <1>0, <2>12, ZeroizedType DEF FinishUnlock, OpenSession
    <3>. QED  BY <1>1, <3>1, <3>2, <3>3, NothingDropped
  <2>13. CASE AdoptCollections(s)
    <3>1. CASE IsUnlocked
      <4>1. calls'[s] = [calls[s] EXCEPT !.pc = "adopting", !.key = session.key]
        BY <1>0, <2>13, <3>1 DEF AdoptCollections
      <4>2. calls'[s].op = calls[s].op /\ calls'[s].next = calls[s].next
        BY <2>0, <4>1 DEF CallType
      <4>3. \A t \in Calls \ {s} : calls'[t] = calls[t]
        BY <1>0, <2>13, <3>1 DEF AdoptCollections
      <4>. QED  BY <2>1, <2>13, <4>2, <4>3 DEF AdoptCollections
    <3>2. CASE ~IsUnlocked
      BY <1>3, <2>13, <3>2 DEF AdoptCollections, OwnedKey
    <3>. QED  BY <3>1, <3>2
  <2>14. CASE DecryptRecords(s)
    <3>0. calls[s].op # "create"
      BY <2>0, <2>14 DEF CallInv, DecryptRecords
    <3>1. CASE IsUnlocked
      BY <1>0, <2>1, <2>14, <3>1 DEF DecryptRecords, CallType
    <3>2. CASE ~IsUnlocked
      BY <1>3, <2>14, <3>0, <3>2 DEF DecryptRecords, OwnedKey
    <3>. QED  BY <3>1, <3>2
  <2>15. CASE MergeSync(s) \/ Upsert(s)
    <3>1. calls[s].pc # "adopting" /\ OwnedKey(calls[s]) = {}
      BY <2>0, <2>15 DEF CallInv, MergeSync, Upsert, OwnedKey
    <3>. QED  BY <1>3, <2>15, <3>1 DEF MergeSync, Upsert
  \* The new map keeps every held key that it does not blank.
  <2>16. ASSUME NEW next, ring' = next, heap' = ZeroizedByNewMap(next), UNCHANGED session
         PROVE  /\ \A b \in Buffers : heap'[b] # Zero => heap[b] # Zero
                /\ \A b \in Buffers : heap'[b] # Zero /\ b \in Held => b \in Owners'
    <3>1. \A b \in Buffers : heap'[b] # Zero =>
             heap[b] # Zero /\ \A c \in Collections : b = ring[c] => next[c] = b
      BY <1>0, <2>16, ZeroizedType DEF ZeroizedByNewMap
    <3>2. \A c \in Collections : next[c] \in Owners'
      BY <2>16 DEF Owners, Held
    <3>3. session.key \in Owners'
      BY <2>16 DEF Owners, Held
    <3>. QED  BY <3>1, <3>2, <3>3 DEF Held
  <2>17. CASE InstallKeys(s)
    <3>1. /\ OwnedKey(calls[s]) = {}
          /\ \A t \in Calls \ {s} : calls'[t] = calls[t]
      BY <1>0, <2>0, <2>17 DEF InstallKeys, CallInv, OwnedKey
    <3>2. \A c \in Collections : calls[s].next[c] \in Owners'
      BY <2>17 DEF InstallKeys, Owners, Held
    <3>3. /\ \A b \in Buffers : heap'[b] # Zero => heap[b] # Zero
          /\ \A b \in Buffers : heap'[b] # Zero /\ b \in Held => b \in Owners'
      BY <2>16, <2>17 DEF InstallKeys
    <3>. QED  BY <3>1, <3>2, <3>3, NothingDropped
  <2>18. CASE InstallCreated(s)
    <3>1. /\ calls[s].pc # "adopting" /\ calls[s].target \in Collections
          /\ \A t \in Calls \ {s} : calls'[t] = calls[t]
      BY <1>0, <2>0, <2>18 DEF InstallCreated, CallInv, CallType, AfterFailure
    <3>2. OwnedKey(calls[s]) = {calls[s].key} /\ ring'[calls[s].target] = calls[s].key
      BY <2>18, <3>1 DEF InstallCreated, OwnedKey, TabInv, TypeOK
    <3>3. \A b \in OwnedKey(calls[s]) : b \in Owners'
      BY <3>1, <3>2 DEF Owners, Held
    <3>4. /\ \A b \in Buffers : heap'[b] # Zero => heap[b] # Zero
          /\ \A b \in Buffers : heap'[b] # Zero /\ b \in Held => b \in Owners'
      BY <2>16, <2>18 DEF InstallCreated
    <3>. QED  BY <1>1, <3>1, <3>3, <3>4, NothingDropped
  <2>19. ASSUME NEW c \in Collections, AdoptKey(s, c) PROVE NoOrphanKeys'
    <3>0. /\ calls[s].next \in [Collections -> Buffers \cup {None}]
          /\ calls[s].op # "create" /\ calls[s].next[c] = None
      BY <2>0, <2>19 DEF AdoptKey, CallInv, CallType
    <3>1. ASSUME NEW k, calls' = [calls EXCEPT ![s].todo = @ \ {c}, ![s].next[c] = k]
          PROVE  /\ \A t \in Calls \ {s} : calls'[t] = calls[t]
                 /\ calls'[s].next[c] = k
                 /\ \A d \in Collections : calls[s].next[d] \in {None, calls'[s].next[d]}
      BY <1>0, <3>0, <3>1 DEF CallType
    <3>2. OwnedKey(calls[s]) = {}
      BY <3>0 DEF OwnedKey
    <3>3. CASE ring[c] # None
      BY <2>19, <3>1, <3>2, <3>3, OwnershipCarried DEF AdoptKey
    <3>4. CASE /\ FreeBuffers # {}
               /\ calls' = [calls EXCEPT ![s].todo = @ \ {c}, ![s].next[c] = Fresh]
               /\ heap' = [heap EXCEPT ![Fresh] = c]
      <4>1. Fresh \in Owners'
        BY <3>1, <3>4, OwnersAre
      <4>2. \A b \in Buffers : heap'[b] # Zero => heap[b] # Zero \/ b \in Owners'
        BY <1>0, <3>4, <4>1
      <4>3. \A b \in Held : b \in Owners'
        BY <2>19 DEF AdoptKey, Held, Owners
      <4>4. \A b \in Buffers, d \in Collections : b = calls[s].next[d] => b \in Owners'
        <5>1. \A d \in Collections : calls[s].next[d] \in {None, calls'[s].next[d]}
          BY <3>1, <3>4
        <5>. QED  BY <5>1, BufferFacts, OwnersAre
      <4>. QED  BY <3>1, <3>2, <3>4, <4>2, <4>3, <4>4, NothingDropped
    <3>5. CASE calls' = [calls EXCEPT ![s].todo = @ \ {c}] /\ heap' = heap
      <4>1. /\ \A t \in Calls \ {s} : calls'[t] = calls[t]
            /\ calls'[s].next = calls[s].next
        BY <1>0, <3>5 DEF CallType
      <4>. QED  BY <2>19, <3>2, <3>5, <4>1, OwnershipCarried DEF AdoptKey
    <3>. QED  BY <2>19, <3>3, <3>4, <3>5 DEF AdoptKey
  <2>. QED
    BY <1>5, <2>2, <2>3, <2>4, <2>5, <2>6, <2>7, <2>8, <2>9, <2>10, <2>11, <2>12, <2>13,
       <2>14, <2>15, <2>17, <2>18, <2>19 DEF CallStep
<1>6. CASE Lock
  <2>1. \A b \in Buffers : heap'[b] # Zero => heap[b] # Zero /\ b \notin Held
    BY <1>0, <1>6, ZeroizedType DEF Lock, ClearAndLock, LockSession
  <2>2. calls' = calls
    BY <1>6 DEF Lock
  <2>. QED  BY <2>1, <2>2 DEF NoOrphanKeys, Owners
<1>7. CASE UNCHANGED clientVars
  BY <1>7 DEF clientVars, NoOrphanKeys, Owners, Held
<1>. QED
  BY <1>4, <1>5, <1>6, <1>7 DEF Next, Expire, ChangeMembership, vars

\* "Without this, the first unlock's keys stay live in the heap" (session.ts):
\* however sign-ins, locks, syncs and creations overlap, a key that is not
\* blank is held by the session or by a call that will still install or blank it.
THEOREM NoKeyIsOrphaned == Spec => []NoOrphanKeys
<1>1. Init => NoOrphanKeys
  BY DEF Init, NoOrphanKeys
<1>2. TabInv /\ NoOrphanKeys /\ [Next]_vars => NoOrphanKeys'
  BY OrphanStep, TabStep
<1>. QED  BY <1>1, <1>2, TabInvHolds, PTL DEF Spec

-----------------------------------------------------------------------------
(***************************************************************************)
(* Every call ends.                                                        *)
(***************************************************************************)

\* The places of a call, from the last to the first.
LEMMA PlaceOf ==
    ASSUME NEW call \in CallType
    PROVE  /\ call.pc = "idle" => Place(call) = 0
           /\ call.pc = "merging" => Place(call) = 1
           /\ call.pc = "decrypting" => Place(call) = 2
           /\ call.pc = "adopting" => Place(call) = 3
           /\ call.pc = "answered" => Place(call) = 4
           /\ call.pc = "denied" => Place(call) = IF call.retried THEN 5 ELSE 9
           /\ call.pc = "sent" => Place(call) = IF call.retried THEN 6 ELSE 10
           /\ call.pc = "rotated" => Place(call) = 7
           /\ call.pc = "rotating" => Place(call) = 8
           /\ call.pc = "ready" => Place(call) = 11
<1>1. call.retried \in BOOLEAN
  BY DEF CallType
<1>. QED  BY <1>1 DEF Place

\* A call that has not ended and steps comes closer to its end; a refresh and a
\* resend happen at most once, and the loop over the collections only shrinks.
LEMMA CallerStep ==
    ASSUME TabInv, TabInv', NEW s \in Calls, CallStep(s)
    PROVE  Closer(calls[s], calls'[s])
<1>0. /\ calls \in [Calls -> CallType] /\ calls[s] \in CallType /\ CallInv(calls[s])
      /\ calls'[s] \in CallType
  BY DEF TabInv, TypeOK
<1>. DEFINE place == Place(calls[s])
            place2 == Place(calls'[s])
<1>1. calls'[s].op = calls[s].op /\ place2 < place => Closer(calls[s], calls'[s])
  BY DEF Closer
<1>2. ASSUME calls[s].pc # "idle", calls' = AfterFailure(s) PROVE Closer(calls[s], calls'[s])
  <2>1. calls'[s].op = "idle" /\ calls'[s].pc = "idle"
    BY <1>0, <1>2 DEF AfterFailure, Idle
  <2>2. place2 = 0
    BY <1>0, <2>1, PlaceOf
  <2>3. place \in 1 .. 11
    BY <1>0, <1>2, PlaceOf DEF CallType
  <2>. QED  BY <2>1, <2>2, <2>3 DEF Closer
<1>3. CASE Send(s)
  <2>1. calls[s].pc = "ready" /\ calls'[s].pc = "sent" /\ calls'[s].op = calls[s].op
    BY <1>0, <1>3 DEF Send, CallType
  <2>2. place = 11 /\ place2 \in {6, 10}
    BY <1>0, <2>1, PlaceOf
  <2>. QED  BY <1>1, <2>1, <2>2
<1>4. CASE (\E l \in Logins : ServeLogin(s, l)) \/ ServeSync(s) \/ ServeSave(s) \/ ServeCreate(s)
  <2>1. calls[s].pc = "sent" /\ calls'[s].pc = "answered" /\ calls'[s].op = calls[s].op
    <3>1. /\ Answered(s) \in [Calls -> CallType] /\ Answered(s)[s].pc = "answered"
          /\ Answered(s)[s].op = calls[s].op /\ Answered(s)[s] \in CallType
      BY <1>0 DEF CallType, Answered
    <3>2. CASE \E l \in Logins : ServeLogin(s, l)
      <4>1. PICK k : calls' = [Answered(s) EXCEPT ![s].token = k]
        BY <3>2 DEF ServeLogin
      <4>2. calls'[s] = [Answered(s)[s] EXCEPT !.token = k]
        BY <3>1, <4>1
      <4>3. calls[s].pc = "sent"
        BY <3>2 DEF ServeLogin
      <4>. QED  BY <3>1, <4>2, <4>3 DEF CallType
    <3>3. CASE ServeSync(s)
      BY <1>0, <3>3 DEF ServeSync, Answered, CallType
    <3>4. CASE ServeSave(s) \/ ServeCreate(s)
      BY <3>1, <3>4 DEF ServeSave, ServeCreate
    <3>. QED  BY <1>4, <3>2, <3>3, <3>4
  <2>2. place \in {6, 10} /\ place2 = 4
    BY <1>0, <2>1, PlaceOf
  <2>. QED  BY <1>1, <2>1, <2>2
<1>5. CASE Deny(s)
  <2>1. /\ calls[s].pc = "sent" /\ calls'[s].pc = "denied" /\ calls'[s].op = calls[s].op
        /\ calls'[s].retried = calls[s].retried
    BY <1>0, <1>5 DEF Deny, CallType
  <2>2. place2 < place
    BY <1>0, <2>1, PlaceOf
  <2>. QED  BY <1>1, <2>1, <2>2
<1>6. CASE Fail(s) \/ RefreshFails(s) \/ MergeSync(s) \/ Upsert(s) \/ InstallCreated(s)
  BY <1>2, <1>6 DEF Fail, RefreshFails, MergeSync, Upsert, InstallCreated
<1>7. CASE Unauthorized(s)
  <2>1. CASE ~calls[s].retried /\ session.token # None
    <3>1. calls[s].pc = "denied" /\ calls'[s].pc = "rotating" /\ calls'[s].op = calls[s].op
      BY <1>0, <1>7, <2>1 DEF Unauthorized, CallType
    <3>2. place = 9 /\ place2 = 8
      BY <1>0, <2>1, <3>1, PlaceOf
    <3>. QED  BY <1>1, <3>1, <3>2
  <2>2. CASE ~(~calls[s].retried /\ session.token # None)
    BY <1>2, <1>7, <2>2 DEF Unauthorized
  <2>. QED  BY <2>1, <2>2
<1>8. CASE Rotate(s)
  <2>1. calls[s].pc = "rotating" /\ calls'[s].pc = "rotated" /\ calls'[s].op = calls[s].op
    BY <1>0, <1>8 DEF Rotate, CallType
  <2>2. place = 8 /\ place2 = 7
    BY <1>0, <2>1, PlaceOf
  <2>. QED  BY <1>1, <2>1, <2>2
<1>9. CASE ReplaceTokens(s)
  <2>1. /\ calls[s].pc = "rotated" /\ calls'[s].pc = "sent" /\ calls'[s].op = calls[s].op
        /\ calls'[s].retried = TRUE
    BY <1>0, <1>9 DEF ReplaceTokens, CallType
  <2>2. place = 7 /\ place2 = 6
    BY <1>0, <2>1, PlaceOf
  <2>. QED  BY <1>1, <2>1, <2>2
<1>10. CASE FinishUnlock(s)
  <2>1. calls[s].op = "unlock" /\ calls'[s].op = "load"
    BY <1>0, <1>10 DEF FinishUnlock, Idle
  <2>. QED  BY <2>1 DEF Closer
<1>11. CASE AdoptCollections(s)
  <2>1. CASE IsUnlocked
    <3>1. calls'[s] = [calls[s] EXCEPT !.pc = "adopting", !.key = session.key]
      BY <1>0, <1>11, <2>1 DEF AdoptCollections
    <3>2. calls[s].pc = "answered" /\ calls'[s].pc = "adopting" /\ calls'[s].op = calls[s].op
      BY <1>0, <1>11, <3>1 DEF AdoptCollections, CallType
    <3>3. place = 4 /\ place2 = 3
      BY <1>0, <3>2, PlaceOf
    <3>. QED  BY <1>1, <3>2, <3>3
  <2>2. CASE ~IsUnlocked
    BY <1>2, <1>11, <2>2 DEF AdoptCollections
  <2>. QED  BY <2>1, <2>2
<1>12. CASE InstallKeys(s)
  <2>1. calls[s].pc = "adopting" /\ calls'[s].pc = "decrypting" /\ calls'[s].op = calls[s].op
    BY <1>0, <1>12 DEF InstallKeys, CallType
  <2>2. place = 3 /\ place2 = 2
    BY <1>0, <2>1, PlaceOf
  <2>. QED  BY <1>1, <2>1, <2>2
<1>13. ASSUME NEW c \in Collections, AdoptKey(s, c) PROVE Closer(calls[s], calls'[s])
  <2>1. /\ calls[s].pc = "adopting" /\ calls'[s].pc = "adopting" /\ c \in calls[s].todo
        /\ calls'[s].op = calls[s].op /\ calls'[s].todo = calls[s].todo \ {c}
    BY <1>0, <1>13 DEF AdoptKey, CallType
  <2>2. place = 3 /\ place2 = 3
    BY <1>0, <2>1, PlaceOf
  <2>. QED  BY <2>1, <2>2 DEF Closer
<1>14. CASE DecryptRecords(s)
  <2>1. CASE IsUnlocked
    <3>1. calls[s].pc = "decrypting" /\ calls'[s].pc = "merging" /\ calls'[s].op = calls[s].op
      BY <1>0, <1>14, <2>1 DEF DecryptRecords, CallType
    <3>2. place = 2 /\ place2 = 1
      BY <1>0, <3>1, PlaceOf
    <3>. QED  BY <1>1, <3>1, <3>2
  <2>2. CASE ~IsUnlocked
    BY <1>2, <1>14, <2>2 DEF DecryptRecords
  <2>. QED  BY <2>1, <2>2
<1>. QED
  BY <1>3, <1>4, <1>5, <1>6, <1>7, <1>8, <1>9, <1>10, <1>11, <1>12, <1>13, <1>14
  DEF CallStep

\* A step moves one call at most.
LEMMA OthersWait ==
    ASSUME TabInv, NEW t \in Calls, StartStep(t) \/ CallStep(t)
    PROVE  \A s \in Calls \ {t} : calls'[s] = calls[s]
<1>0. calls \in [Calls -> CallType]
  BY DEF TabInv, TypeOK
<1>1. \A l \in Logins : ServeLogin(t, l) => \A s \in Calls \ {t} : calls'[s] = calls[s]
  BY <1>0 DEF ServeLogin, Answered
<1>2. ServeSync(t) \/ ServeSave(t) \/ ServeCreate(t) => \A s \in Calls \ {t} : calls'[s] = calls[s]
  BY <1>0 DEF ServeSync, ServeSave, ServeCreate, Answered
<1>3. AdoptCollections(t) \/ DecryptRecords(t) => \A s \in Calls \ {t} : calls'[s] = calls[s]
  BY <1>0 DEF AdoptCollections, DecryptRecords, AfterFailure
<1>4. \A c \in Collections : AdoptKey(t, c) => \A s \in Calls \ {t} : calls'[s] = calls[s]
  BY <1>0 DEF AdoptKey
<1>5. Unauthorized(t) => \A s \in Calls \ {t} : calls'[s] = calls[s]
  BY <1>0 DEF Unauthorized, AfterFailure
<1>6. StartStep(t) => \A s \in Calls \ {t} : calls'[s] = calls[s]
  BY <1>0 DEF StartStep, StartUnlock, StartResync, StartSave, StartCreate, Begin
<1>. QED
  BY <1>0, <1>1, <1>2, <1>3, <1>4, <1>5, <1>6
  DEF CallStep, Send, Deny, Fail, Rotate, ReplaceTokens, RefreshFails, FinishUnlock,
      InstallKeys, MergeSync, Upsert, InstallCreated, AfterFailure

\* request() costs at most one refresh and one resend, and an unopenable key does
\* not hold up adoptCollections: every step of a call brings it closer to its
\* end, whatever locks, expires or is revoked meanwhile.
THEOREM CallsComeToAnEnd == Spec => EveryCallEnds
<1>1. TabInv /\ TabInv' /\ [Next]_vars
        => [\A s \in Calls : calls[s] # Idle /\ calls'[s] # calls[s]
                               => Closer(calls[s], calls'[s])]_vars
  <2>. SUFFICES ASSUME TabInv, TabInv', Next, NEW s \in Calls,
                       calls[s] # Idle, calls'[s] # calls[s]
                PROVE  Closer(calls[s], calls'[s])
    OBVIOUS
  <2>1. PICK t \in Calls : StartStep(t) \/ CallStep(t)
    BY DEF Next, Lock, Expire, ChangeMembership, clientVars
  <2>2. s = t
    BY <2>1, OthersWait
  <2>3. ~StartStep(s)
    BY DEF StartStep, StartUnlock, StartResync, StartSave, StartCreate, Begin
  <2>. QED  BY <2>1, <2>2, <2>3, CallerStep
<1>2. TabInv /\ [Next]_vars => TabInv'
  BY TabStep
<1>. QED  BY <1>1, <1>2, TabInvHolds, PTL DEF Spec, EveryCallEnds

-----------------------------------------------------------------------------
(***************************************************************************)
(* AutoLock.                                                               *)
(***************************************************************************)
\* Every setting counts a time the wall clock is followed for; the values that
\* are no setting are told apart from the settings.
LEMMA SettingFacts ==
    /\ \A v \in Settings \cup {NotRunning} : v.minutes \in 0 .. MaxIdle
    /\ NotRunning \notin Settings
    /\ NotRunning.kind # "timed"
    /\ Timed(DefaultMinutes) \in Settings
<1>1. ASSUME NEW m \in Minutes PROVE m \in 0 .. MaxIdle
  <2>1. m \in Nat /\ m <= MaxIdle /\ MaxIdle \in Nat
    BY AutoLockAssumption
  <2>. QED  BY <2>1
<1>2. \A v \in Settings : v.minutes \in 0 .. MaxIdle /\ v.kind # "stopped"
  BY <1>1, AutoLockAssumption DEF Settings, Timed, OnClose, Never
<1>3. NotRunning.minutes = 0 /\ NotRunning.kind = "stopped" /\ 0 \in 0 .. MaxIdle
  BY AutoLockAssumption DEF NotRunning
<1>4. Timed(DefaultMinutes) \in Settings
  BY AutoLockAssumption DEF Settings
<1>. QED  BY <1>2, <1>3, <1>4

\* startAutoLock and restart() begin a whole count.
LEMMA StartIsOnTime ==
    ASSUME NEW v \in Settings, Start(v)
    PROVE  /\ running' = v /\ idle' \in 0 .. MaxIdle /\ left' \in 0 .. MaxIdle
           /\ NoEarlyLock'
<1>1. v.minutes \in 0 .. MaxIdle
  BY SettingFacts
<1>. QED  BY <1>1, AutoLockAssumption DEF Start, NoEarlyLock, IsTimed

\* Locking stops the timer with the session.
LEMMA LockedIsStopped ==
    ASSUME LockTab
    PROVE  /\ running' = NotRunning /\ unlocked' = FALSE
           /\ idle' \in 0 .. MaxIdle /\ left' \in 0 .. MaxIdle /\ NoEarlyLock'
  BY SettingFacts, AutoLockAssumption DEF LockTab, NoEarlyLock, IsTimed

\* Every event of the tab and both clocks keep the timer right.
LEMMA TimerStep == TimerInv /\ [TimerNext]_timerVars => TimerInv'
<1>. SUFFICES ASSUME TimerInv, [TimerNext]_timerVars PROVE TimerInv'
  OBVIOUS
<1>0. /\ stored \in Settings \cup {Junk} /\ setting \in Settings
      /\ running \in Settings \cup {NotRunning}
      /\ idle \in 0 .. MaxIdle /\ left \in 0 .. MaxIdle /\ MaxIdle \in Nat
      /\ unlocked \in BOOLEAN /\ awake \in BOOLEAN /\ visible \in BOOLEAN
      /\ TimerFollowsSetting /\ NoEarlyLock
  BY AutoLockAssumption DEF TimerInv, TimerTypeOK
<1>1. IsTimed => running = setting /\ unlocked
  BY <1>0, SettingFacts DEF TimerFollowsSetting, IsTimed
<1>2. CASE Unlock
  BY <1>0, <1>2, StartIsOnTime DEF Unlock, TimerInv, TimerTypeOK, TimerFollowsSetting
<1>3. CASE LockNow
  BY <1>0, <1>3, LockedIsStopped DEF LockNow, TimerInv, TimerTypeOK, TimerFollowsSetting
<1>4. ASSUME NEW v \in Settings, ChangeSetting(v) PROVE TimerInv'
  BY <1>0, <1>4, StartIsOnTime DEF ChangeSetting, TimerInv, TimerTypeOK, TimerFollowsSetting
<1>5. CASE Touch
  BY <1>0, <1>1, <1>5, StartIsOnTime DEF Touch, TimerInv, TimerTypeOK, TimerFollowsSetting
<1>6. CASE ChangeVisibility
  <2>1. CASE LockTab
    BY <1>0, <1>6, <2>1, LockedIsStopped
    DEF ChangeVisibility, TimerInv, TimerTypeOK, TimerFollowsSetting
  <2>2. CASE IsTimed /\ Start(running) /\ UNCHANGED unlocked
    BY <1>0, <1>1, <1>6, <2>2, StartIsOnTime
    DEF ChangeVisibility, TimerInv, TimerTypeOK, TimerFollowsSetting
  <2>3. CASE UNCHANGED <<unlocked, running, idle, left>>
    BY <1>0, <1>6, <2>3
    DEF ChangeVisibility, TimerInv, TimerTypeOK, TimerFollowsSetting, NoEarlyLock, IsTimed
  <2>. QED  BY <1>6, <2>1, <2>2, <2>3 DEF ChangeVisibility
<1>7. CASE Fire
  BY <1>0, <1>7, LockedIsStopped DEF Fire, TimerInv, TimerTypeOK, TimerFollowsSetting
<1>8. CASE Tick
  <2>1. idle' \in 0 .. MaxIdle /\ left' \in 0 .. MaxIdle
    BY <1>0, <1>8 DEF Tick, Later
  <2>2. running.minutes \in 0 .. MaxIdle
    BY <1>0, SettingFacts
  <2>3. running.minutes <= idle' + left'
    BY <1>0, <1>8, <2>2 DEF Tick, Later, NoEarlyLock, IsTimed
  <2>. QED
    BY <1>0, <1>8, <2>1, <2>3 DEF Tick, TimerInv, TimerTypeOK, TimerFollowsSetting, NoEarlyLock
<1>9. CASE SleepTick
  <2>1. idle' \in 0 .. MaxIdle /\ running.minutes \in 0 .. MaxIdle
    BY <1>0, <1>9, SettingFacts DEF SleepTick, Later
  <2>2. running.minutes <= idle' + left
    BY <1>0, <1>9, <2>1 DEF SleepTick, Later, NoEarlyLock, IsTimed
  <2>. QED
    BY <1>0, <1>9, <2>1, <2>2
    DEF SleepTick, TimerInv, TimerTypeOK, TimerFollowsSetting, NoEarlyLock
<1>10. CASE SleepOrWake
  BY <1>0, <1>10 DEF SleepOrWake, TimerInv, TimerTypeOK, TimerFollowsSetting, NoEarlyLock, IsTimed
<1>11. CASE Reload
  <2>1. setting' \in Settings
    BY <1>11, SettingFacts DEF Reload, ReadAutoLock
  <2>. QED
    BY <1>0, <1>11, <2>1, LockedIsStopped DEF Reload, TimerInv, TimerTypeOK, TimerFollowsSetting
<1>12. CASE UNCHANGED timerVars
  BY <1>0, <1>12 DEF timerVars, TimerInv, TimerTypeOK, TimerFollowsSetting, NoEarlyLock, IsTimed
<1>. QED
  BY <1>2, <1>3, <1>4, <1>5, <1>6, <1>7, <1>8, <1>9, <1>10, <1>11, <1>12 DEF TimerNext

\* "a setting picked in SettingsScreen takes effect immediately" (App.tsx), and
\* nobody is locked out while working: the timer of startAutoLock is the one of
\* the setting in force, runs exactly while the tab is unlocked, and when it is
\* due the tab has been idle that long, through sleep, wake and hidden tabs.
THEOREM TimerIsRight == TimerSpec => []TimerInv
<1>1. TimerInit => TimerInv
  <2>1. 0 \in 0 .. MaxIdle
    BY AutoLockAssumption
  <2>2. TimerInit => setting \in Settings
    BY SettingFacts DEF TimerInit, ReadAutoLock
  <2>. QED
    BY <2>1, <2>2, SettingFacts
    DEF TimerInit, TimerInv, TimerTypeOK, TimerFollowsSetting, NoEarlyLock, IsTimed
<1>. QED  BY <1>1, TimerStep, PTL DEF TimerSpec
=============================================================================
