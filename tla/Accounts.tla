------------------------------ MODULE Accounts ------------------------------
(***************************************************************************)
(* Accounts, invites, sessions and recovery tokens: the users half of      *)
(* internal/store and the handlers of internal/httpapi that write it.      *)
(*                                                                         *)
(* Every handler works in two parts.  It first reads and checks (who is    *)
(* calling, is the token live, is the password right) and spends an        *)
(* Argon2id computation or a round trip; then it runs one transaction, on  *)
(* whatever the tables hold by then.  The first part leaves a job behind,  *)
(* the second consumes it, and other requests run in between.  A request   *)
(* that is refused, throttled or cut off is a job that is dropped, or no   *)
(* step at all.                                                            *)
(*                                                                         *)
(* A password, a recovery code and a user key are numbers drawn from one   *)
(* counter; of a wrapped blob all that is kept is which user key is in it. *)
(* Zero is SQL NULL.                                                       *)
(***************************************************************************)
EXTENDS Naturals

CONSTANTS
    Users,          \* account ids; NewID never repeats one
    Invites,        \* invite ids
    Sessions,       \* session ids
    RecoveryTokens, \* recovery token ids
    None,           \* no user, no session
    MaxSecret,      \* bound on the secrets ever chosen
    MaxPair,        \* bound on the token pairs of one session
    Requests        \* requests the server works on at once

ASSUME AccountsAssumption ==
    /\ None \notin Users \cup Sessions
    /\ MaxSecret \in Nat
    /\ MaxPair \in Nat

VARIABLES
    users,          \* [Users -> UserRow]
    invites,        \* [Invites -> TokenRow]
    sessions,       \* [Sessions -> SessionRow]
    recoveryTokens, \* [RecoveryTokens -> RecoveryRow]
    secrets,        \* the last password, code or key anyone chose
    jobs,           \* [Requests -> what each will commit]
    spent           \* single-use tokens that were redeemed (history)

tables == <<users, invites, sessions, recoveryTokens>>
vars == <<tables, secrets, jobs, spent>>

(***************************************************************************)
(* Rows.  userKey, recoveryKey and privateKey are the user key inside      *)
(* protected_user_key, inside recovery_protected_user_key and around       *)
(* encrypted_private_key.                                                  *)
(***************************************************************************)
UserRow == [st : {"none", "pending", "active", "disabled", "gone"},
            role : {"admin", "user"},
            password : Nat, userKey : Nat, code : Nat, recoveryKey : Nat,
            privateKey : Nat]

TokenRow == [st : {"none", "live", "expired", "used", "gone"},
             user : Users \cup {None}]

\* key is the user key its holder unwrapped with the code.
RecoveryRow == [st : {"none", "live", "expired", "used", "gone"},
                user : Users \cup {None}, key : Nat]

\* pair numbers the current token pair and held the last one handed out;
\* password and key are what the client behind the session logged in with.
SessionRow == [st : {"none", "live", "expired", "revoked", "gone"},
               user : Users \cup {None}, pair : Nat, held : Nat,
               password : Nat, key : Nat]

Blank(st, role) ==
    [st |-> st, role |-> role, password |-> 0, userKey |-> 0, code |-> 0,
     recoveryKey |-> 0, privateKey |-> 0]
NoToken(st) == [st |-> st, user |-> None]
NoRecovery(st) == [st |-> st, user |-> None, key |-> 0]
NoSession(st) == [st |-> st, user |-> None, pair |-> 0, held |-> 0,
                  password |-> 0, key |-> 0]

Exists(u) == users[u].st \in {"pending", "active", "disabled"}
ActiveAdmins == {u \in Users : users[u].st = "active" /\ users[u].role = "admin"}

Idle == [op |-> "idle"]

Init ==
    /\ users = [u \in Users |-> Blank("none", "user")]
    /\ invites = [i \in Invites |-> NoToken("none")]
    /\ sessions = [s \in Sessions |-> NoSession("none")]
    /\ recoveryTokens = [t \in RecoveryTokens |-> NoRecovery("none")]
    /\ secrets = 0
    /\ jobs = [r \in Requests |-> Idle]
    /\ spent = {}

-----------------------------------------------------------------------------
(***************************************************************************)
(* Requests in flight.                                                     *)
(***************************************************************************)
Start(r, request) ==
    /\ jobs[r] = Idle
    /\ jobs' = [jobs EXCEPT ![r] = request]
    /\ UNCHANGED <<tables, secrets, spent>>

Finish(r) == jobs' = [jobs EXCEPT ![r] = Idle]

DropJob(r) ==
    /\ jobs[r] # Idle
    /\ Finish(r)
    /\ UNCHANGED <<tables, secrets, spent>>

\* A fresh secret, chosen in the client of the request that is committing.
NewSecret ==
    /\ secrets < MaxSecret
    /\ secrets' = secrets + 1

\* requireAuth: the session is live, its access token is the current one, and
\* the account behind it is active.  TouchSession slides an expiry that the
\* model lets pass at any time.
Authenticated(s) ==
    /\ sessions[s].st = "live"
    /\ sessions[s].held = sessions[s].pair
    /\ users[sessions[s].user].st = "active"

AuthenticatedAdmin(s) ==
    Authenticated(s) /\ users[sessions[s].user].role = "admin"

-----------------------------------------------------------------------------
(***************************************************************************)
(* Sign-up: an account is created pending, then an invite is minted for    *)
(* it, in two transactions; whoever holds the invite enrols.               *)
(***************************************************************************)
CheckCreate(r, s, u, role) ==
    /\ AuthenticatedAdmin(s)
    /\ users[u].st = "none"
    /\ Start(r, [op |-> "create", user |-> u, role |-> role])

\* `keyhole admin create` runs beside the server and needs no session.  For an
\* account that is still pending it mints another invite.
RunAdminCreate(r, u) ==
    \/ /\ users[u].st = "none"
       /\ Start(r, [op |-> "create", user |-> u, role |-> "admin"])
    \/ /\ users[u].st = "pending"
       /\ Start(r, [op |-> "invite", user |-> u])

CreatePendingUser(r) ==
    /\ jobs[r].op = "create"
    /\ users[jobs[r].user].st = "none"
    /\ users' = [users EXCEPT ![jobs[r].user] = Blank("pending", jobs[r].role)]
    /\ jobs' = [jobs EXCEPT ![r] = [op |-> "invite", user |-> @.user]]
    /\ UNCHANGED <<invites, sessions, recoveryTokens, secrets, spent>>

CheckReissue(r, s, u) ==
    /\ AuthenticatedAdmin(s)
    /\ users[u].st = "pending"
    /\ Start(r, [op |-> "invite", user |-> u])

\* The status is not read again: the account may have enrolled meanwhile.
CreateInvite(r, i) ==
    /\ jobs[r].op = "invite"
    /\ Exists(jobs[r].user)
    /\ invites[i].st = "none"
    /\ invites' = [invites EXCEPT ![i] = [st |-> "live", user |-> jobs[r].user]]
    /\ Finish(r)
    /\ UNCHANGED <<users, sessions, recoveryTokens, secrets, spent>>

CheckEnroll(r, i) ==
    /\ invites[i].st = "live"
    /\ Start(r, [op |-> "enroll", invite |-> i])

\* What an enrolment writes: the client's fresh password, code and key.
Enrol(r) ==
    /\ NewSecret
    /\ users' = [users EXCEPT ![invites[jobs[r].invite].user] =
          [st |-> "active", role |-> @.role,
           password |-> secrets', userKey |-> secrets',
           code |-> secrets', recoveryKey |-> secrets',
           privateKey |-> secrets']]
    /\ invites' = [invites EXCEPT ![jobs[r].invite].st = "used"]
    /\ spent' = spent \cup {<<"invite", jobs[r].invite>>}
    /\ Finish(r)
    /\ UNCHANGED <<sessions, recoveryTokens>>

\* [bug] any account the invite names is enrolled, whatever its status.
CompleteEnrollmentAnyStatus(r) ==
    /\ jobs[r].op = "enroll"
    /\ invites[jobs[r].invite].st \in {"live", "expired"}
    /\ Enrol(r)

\* The transaction: used_at IS NULL claims the invite (its expiry was read
\* before), status = 'pending' protects an account already set up.
CompleteEnrollment(r) ==
    /\ jobs[r].op = "enroll"
    /\ invites[jobs[r].invite].st \in {"live", "expired"}
    /\ users[invites[jobs[r].invite].user].st = "pending"
    /\ Enrol(r)

-----------------------------------------------------------------------------
(***************************************************************************)
(* Sessions.                                                               *)
(***************************************************************************)

\* The password is right and the account active; the row it was compared with
\* is the one whose wrapped key the answer will carry.
CheckLogin(r, u) ==
    /\ users[u].st = "active"
    /\ users[u].password # 0
    /\ Start(r, [op |-> "login", user |-> u, password |-> users[u].password,
              key |-> users[u].userKey])

CreateSession(r, s) ==
    /\ jobs[r].op = "login"
    /\ Exists(jobs[r].user)
    /\ sessions[s].st = "none"
    /\ sessions' = [sessions EXCEPT ![s] =
          [st |-> "live", user |-> jobs[r].user, pair |-> 1, held |-> 1,
           password |-> jobs[r].password, key |-> jobs[r].key]]
    /\ Finish(r)
    /\ UNCHANGED <<users, invites, recoveryTokens, secrets, spent>>

\* RotateSession reads by the refresh token, then swaps the pair if that token
\* is still the current one.
CheckRefresh(r, s) ==
    /\ sessions[s].st = "live"
    /\ sessions[s].held = sessions[s].pair
    /\ Start(r, [op |-> "refresh", session |-> s, user |-> sessions[s].user,
              pair |-> sessions[s].pair])

SwapPair(r) ==
    /\ jobs[r].pair < MaxPair
    /\ sessions' = [sessions EXCEPT ![jobs[r].session].pair = @ + 1]
    /\ spent' = spent \cup {<<"refresh", jobs[r].session, jobs[r].pair>>}
    /\ jobs' = [jobs EXCEPT ![r] =
          [op |-> "refreshed", session |-> @.session, user |-> @.user,
           pair |-> sessions[@.session].pair + 1]]
    /\ UNCHANGED <<users, invites, recoveryTokens, secrets>>

\* [bug] the UPDATE names the session only.
RotateSessionAnyPair(r) ==
    /\ jobs[r].op = "refresh"
    /\ sessions[jobs[r].session].st \in {"live", "expired"}
    /\ SwapPair(r)

RotateSession(r) ==
    /\ jobs[r].op = "refresh"
    /\ sessions[jobs[r].session].st \in {"live", "expired"}
    /\ sessions[jobs[r].session].pair = jobs[r].pair
    /\ SwapPair(r)

\* handleRefresh looks at the account only now: if it is not active the new
\* pair is never handed out, and the session is dead.
AnswerRefresh(r) ==
    /\ jobs[r].op = "refreshed"
    /\ users[jobs[r].user].st = "active"
    /\ sessions' = [sessions EXCEPT ![jobs[r].session].held = jobs[r].pair]
    /\ Finish(r)
    /\ UNCHANGED <<users, invites, recoveryTokens, secrets, spent>>

\* Log out, or end another session of the same user from the settings.
CheckRevoke(r, s, other) ==
    /\ Authenticated(s)
    /\ sessions[other].user = sessions[s].user
    /\ Start(r, [op |-> "revoke", session |-> other])

RevokeSession(r) ==
    /\ jobs[r].op = "revoke"
    /\ sessions[jobs[r].session].st \in {"live", "expired"}
    /\ sessions' = [sessions EXCEPT ![jobs[r].session].st = "revoked"]
    /\ Finish(r)
    /\ UNCHANGED <<users, invites, recoveryTokens, secrets, spent>>

\* UPDATE sessions SET revoked_at ... WHERE user_id = u AND id != keep.
RevokedExcept(u, keep) ==
    [s \in Sessions |->
        IF sessions[s].user = u /\ s # keep /\ sessions[s].st \in {"live", "expired"}
        THEN [sessions[s] EXCEPT !.st = "revoked"] ELSE sessions[s]]

-----------------------------------------------------------------------------
(***************************************************************************)
(* Credentials.  The caller proves the current password in the check; what *)
(* it uploads is the user key its tab holds, wrapped anew.                 *)
(***************************************************************************)
CheckRotate(r, s, op) ==
    /\ Authenticated(s)
    /\ users[sessions[s].user].password # 0
    /\ Start(r, [op |-> op, user |-> sessions[s].user, session |-> s,
              key |-> sessions[s].key])

\* [bug] the credential is written whatever the account's status.
WritePasswordAnyStatus(u, key) ==
    /\ Exists(u)
    /\ users' = [users EXCEPT ![u].password = secrets', ![u].userKey = key]

\* writePasswordCredential: only an active account is written.
WritePassword(u, key) ==
    /\ users[u].st = "active"
    /\ users' = [users EXCEPT ![u].password = secrets', ![u].userKey = key]

\* The calling session survives, and its client knows the new password.
RotatePassword(r) ==
    /\ jobs[r].op = "password"
    /\ NewSecret
    /\ WritePassword(jobs[r].user, jobs[r].key)
    /\ sessions' = [RevokedExcept(jobs[r].user, jobs[r].session) EXCEPT
                       ![jobs[r].session].password = secrets']
    /\ Finish(r)
    /\ UNCHANGED <<invites, recoveryTokens, spent>>

RotateRecovery(r) ==
    /\ jobs[r].op = "recovery"
    /\ NewSecret
    /\ users[jobs[r].user].st = "active"
    /\ users' = [users EXCEPT ![jobs[r].user].code = secrets',
                              ![jobs[r].user].recoveryKey = jobs[r].key]
    /\ Finish(r)
    /\ UNCHANGED <<invites, sessions, recoveryTokens, spent>>

-----------------------------------------------------------------------------
(***************************************************************************)
(* Recovery: a caller who proves the code is given the blob it opens and a *)
(* token, and spends the token to replace both credentials.                *)
(***************************************************************************)
CheckRecover(r, u) ==
    /\ users[u].st = "active"
    /\ users[u].code # 0
    /\ Start(r, [op |-> "recover", user |-> u, key |-> users[u].recoveryKey])

CreateRecoveryToken(r, t) ==
    /\ jobs[r].op = "recover"
    /\ Exists(jobs[r].user)
    /\ recoveryTokens[t].st = "none"
    /\ recoveryTokens' = [recoveryTokens EXCEPT ![t] =
          [st |-> "live", user |-> jobs[r].user, key |-> jobs[r].key]]
    /\ Finish(r)
    /\ UNCHANGED <<users, invites, sessions, secrets, spent>>

CheckComplete(r, t) ==
    /\ recoveryTokens[t].st = "live"
    /\ Start(r, [op |-> "complete", token |-> t])

\* Both credentials, every session, and every other token of the account.
Recovered(u, t) ==
    /\ NewSecret
    /\ users[u].st = "active"
    /\ users' = [users EXCEPT ![u] =
          [st |-> "active", role |-> @.role,
           password |-> secrets', userKey |-> recoveryTokens[t].key,
           code |-> secrets', recoveryKey |-> recoveryTokens[t].key,
           privateKey |-> @.privateKey]]
    /\ sessions' = RevokedExcept(u, None)
    /\ recoveryTokens' = [k \in RecoveryTokens |->
          IF recoveryTokens[k].user = u
             /\ recoveryTokens[k].st \in {"live", "expired"}
          THEN [recoveryTokens[k] EXCEPT !.st = "used"] ELSE recoveryTokens[k]]
    /\ spent' = spent \cup {<<"recovery", t>>}

CompleteRecovery(r) ==
    /\ jobs[r].op = "complete"
    /\ recoveryTokens[jobs[r].token].st \in {"live", "expired"}
    /\ Recovered(recoveryTokens[jobs[r].token].user, jobs[r].token)
    /\ Finish(r)
    /\ UNCHANGED invites

-----------------------------------------------------------------------------
(***************************************************************************)
(* Administration.                                                         *)
(***************************************************************************)
CheckAdmin(r, s, request) ==
    /\ AuthenticatedAdmin(s)
    /\ Exists(request.user)
    /\ Start(r, request)

\* SELECT COUNT(*) ... role = 'admin' AND status = 'active' AND id != u
OtherActiveAdmin(u) == \E v \in Users \ {u} : v \in ActiveAdmins

\* An account that is disabled loses its sessions in the same transaction.
WriteStatus(r) ==
    /\ users' = [users EXCEPT ![jobs[r].user].st = jobs[r].status]
    /\ sessions' = IF jobs[r].status = "disabled"
                   THEN RevokedExcept(jobs[r].user, None) ELSE sessions
    /\ Finish(r)
    /\ UNCHANGED <<invites, recoveryTokens, secrets, spent>>

\* [bug] the count includes admins that are disabled or still pending.
SetUserStatusAnyAdmin(r) ==
    /\ jobs[r].op = "status"
    /\ Exists(jobs[r].user)
    /\ jobs[r].status = "disabled" /\ users[jobs[r].user].role = "admin" =>
          \E v \in Users \ {jobs[r].user} : Exists(v) /\ users[v].role = "admin"
    /\ WriteStatus(r)

\* Any status may precede: the screen offers a pending account "Activate".
SetUserStatus(r) ==
    /\ jobs[r].op = "status"
    /\ Exists(jobs[r].user)
    /\ jobs[r].status = "disabled" /\ users[jobs[r].user].role = "admin" =>
          OtherActiveAdmin(jobs[r].user)
    /\ WriteStatus(r)

\* Earlier invites and recovery tokens are left as they are.
ResetUser(r, i) ==
    /\ jobs[r].op = "reset"
    /\ Exists(jobs[r].user)
    /\ invites[i].st = "none"
    /\ users' = [users EXCEPT ![jobs[r].user] = Blank("pending", @.role)]
    /\ sessions' = RevokedExcept(jobs[r].user, None)
    /\ invites' = [invites EXCEPT ![i] = [st |-> "live", user |-> jobs[r].user]]
    /\ Finish(r)
    /\ UNCHANGED <<recoveryTokens, secrets, spent>>

\* [bug] ON DELETE SET NULL on sessions.user_id.
DeleteUserSetNull(r) ==
    /\ jobs[r].op = "delete"
    /\ Exists(jobs[r].user)
    /\ users[jobs[r].user].role = "admin" => OtherActiveAdmin(jobs[r].user)
    /\ users' = [users EXCEPT ![jobs[r].user] = Blank("gone", @.role)]
    /\ sessions' = [s \in Sessions |->
          IF sessions[s].user = jobs[r].user
          THEN [sessions[s] EXCEPT !.user = None] ELSE sessions[s]]
    /\ Finish(r)
    /\ UNCHANGED <<invites, recoveryTokens, secrets, spent>>

\* The cascade.  A user whom a collection, a membership or a grant names is
\* refused (VaultStore), which is no step here.
DeleteUser(r) ==
    /\ jobs[r].op = "delete"
    /\ Exists(jobs[r].user)
    /\ users[jobs[r].user].role = "admin" => OtherActiveAdmin(jobs[r].user)
    /\ users' = [users EXCEPT ![jobs[r].user] = Blank("gone", @.role)]
    /\ invites' = [i \in Invites |->
          IF invites[i].user = jobs[r].user THEN NoToken("gone") ELSE invites[i]]
    /\ sessions' = [s \in Sessions |->
          IF sessions[s].user = jobs[r].user THEN NoSession("gone") ELSE sessions[s]]
    /\ recoveryTokens' = [t \in RecoveryTokens |->
          IF recoveryTokens[t].user = jobs[r].user
          THEN NoRecovery("gone") ELSE recoveryTokens[t]]
    /\ Finish(r)
    /\ UNCHANGED <<secrets, spent>>

-----------------------------------------------------------------------------
(***************************************************************************)
(* Time: an unused token passes its deadline, a session its 30 days.       *)
(***************************************************************************)
Expire ==
    /\ \/ \E i \in Invites :
             /\ invites[i].st = "live"
             /\ invites' = [invites EXCEPT ![i].st = "expired"]
             /\ UNCHANGED <<sessions, recoveryTokens>>
       \/ \E t \in RecoveryTokens :
             /\ recoveryTokens[t].st = "live"
             /\ recoveryTokens' = [recoveryTokens EXCEPT ![t].st = "expired"]
             /\ UNCHANGED <<sessions, invites>>
       \/ \E s \in Sessions :
             /\ sessions[s].st = "live"
             /\ sessions' = [sessions EXCEPT ![s].st = "expired"]
             /\ UNCHANGED <<invites, recoveryTokens>>
    /\ UNCHANGED <<users, secrets, jobs, spent>>

-----------------------------------------------------------------------------
UserCheck(r) ==
    \/ \E i \in Invites : CheckEnroll(r, i)
    \/ \E u \in Users : CheckLogin(r, u) \/ CheckRecover(r, u)
    \/ \E t \in RecoveryTokens : CheckComplete(r, t)
    \/ \E s \in Sessions :
          \/ CheckRefresh(r, s)
          \/ \E other \in Sessions : CheckRevoke(r, s, other)
          \/ \E op \in {"password", "recovery"} : CheckRotate(r, s, op)

AdminCheck(r) ==
    \E u \in Users :
        \/ RunAdminCreate(r, u)
        \/ \E s \in Sessions :
              \/ \E role \in {"admin", "user"} : CheckCreate(r, s, u, role)
              \/ CheckReissue(r, s, u)
              \/ \E status \in {"active", "disabled"} :
                    CheckAdmin(r, s, [op |-> "status", user |-> u, status |-> status])
              \/ \E op \in {"reset", "delete"} :
                    CheckAdmin(r, s, [op |-> op, user |-> u])

Commit(r) ==
    \/ CreatePendingUser(r)
    \/ \E i \in Invites : CreateInvite(r, i) \/ ResetUser(r, i)
    \/ CompleteEnrollment(r)
    \/ \E s \in Sessions : CreateSession(r, s)
    \/ RotateSession(r)
    \/ AnswerRefresh(r)
    \/ RevokeSession(r)
    \/ RotatePassword(r)
    \/ RotateRecovery(r)
    \/ \E t \in RecoveryTokens : CreateRecoveryToken(r, t)
    \/ CompleteRecovery(r)
    \/ SetUserStatus(r)
    \/ DeleteUser(r)

Next ==
    \/ \E r \in Requests :
          UserCheck(r) \/ AdminCheck(r) \/ Commit(r) \/ DropJob(r)
    \/ Expire

Spec == Init /\ [][Next]_vars

-----------------------------------------------------------------------------
(***************************************************************************)
(* Properties.                                                             *)
(***************************************************************************)
IsJob(job) ==
    \/ job = Idle
    \/ job.op = "create" /\ job.user \in Users /\ job.role \in {"admin", "user"}
    \/ job.op = "invite" /\ job.user \in Users
    \/ job.op = "enroll" /\ job.invite \in Invites
    \/ /\ job.op = "login" /\ job.user \in Users
       /\ job.password \in Nat /\ job.key \in Nat
    \/ /\ job.op \in {"refresh", "refreshed"} /\ job.session \in Sessions
       /\ job.user \in Users /\ job.pair \in Nat
    \/ job.op = "revoke" /\ job.session \in Sessions
    \/ /\ job.op \in {"password", "recovery"} /\ job.user \in Users
       /\ job.session \in Sessions /\ job.key \in Nat
    \/ job.op = "recover" /\ job.user \in Users /\ job.key \in Nat
    \/ job.op = "complete" /\ job.token \in RecoveryTokens
    \/ /\ job.op = "status" /\ job.user \in Users
       /\ job.status \in {"active", "disabled"}
    \/ job.op \in {"reset", "delete"} /\ job.user \in Users

\* The tables hold rows of their schema, a row that is there names a user, and
\* every request in flight carries what its transaction will read.
TypeOK ==
    /\ users \in [Users -> UserRow]
    /\ invites \in [Invites -> TokenRow]
    /\ \A i \in Invites :
          invites[i].st \notin {"none", "gone"} => invites[i].user \in Users
    /\ sessions \in [Sessions -> SessionRow]
    /\ \A s \in Sessions :
          sessions[s].st \notin {"none", "gone"} => sessions[s].user \in Users
    /\ recoveryTokens \in [RecoveryTokens -> RecoveryRow]
    /\ \A t \in RecoveryTokens :
          recoveryTokens[t].st \notin {"none", "gone"}
          => recoveryTokens[t].user \in Users
    /\ secrets \in Nat
    /\ DOMAIN jobs = Requests
    /\ \A r \in Requests : IsJob(jobs[r])

\* An account that is not set up holds no key material at all, whichever
\* request was still on its way when it was created, reset or deleted: every
\* later write insists on an active account.
PendingIsBlank ==
    \A u \in Users :
        users[u].st \notin {"active", "disabled"}
        => users[u] = Blank(users[u].st, users[u].role)

\* No key pair is ever replaced by another: an invite that outlived its use,
\* a second link or a racing enrolment never sets up an account a second time.
\* Only a reset or a deletion wipes it first.
KeyPairNeverReplaced ==
    [][\A u \in Users :
          users'[u].privateKey # users[u].privateKey
          => users[u].privateKey = 0 \/ users'[u].privateKey = 0]_vars

\* Invites, recovery tokens and refresh tokens work once: of two requests that
\* both found the token live, one transaction claims it and the other fails.
SingleUse ==
    [][\A r \in Requests :
          /\ CompleteEnrollment(r) => <<"invite", jobs[r].invite>> \notin spent
          /\ CompleteRecovery(r) => <<"recovery", jobs[r].token>> \notin spent
          /\ RotateSession(r)
             => <<"refresh", jobs[r].session, jobs[r].pair>> \notin spent]_vars

\* Disabling and deleting never take the last active administrator away; a
\* reset is the one step that may.
LastAdminStays ==
    [][ActiveAdmins # {} /\ ActiveAdmins' = {}
       => \E r \in Requests, i \in Invites : ResetUser(r, i)]_vars

\* "Changing a master password is what a user does when they suspect a
\* compromise": a session that still works is one whose client knows the
\* current password, not one opened with an earlier one.
SessionsKnowPassword ==
    \A s \in Sessions :
        Authenticated(s)
        => sessions[s].password = users[sessions[s].user].password

\* The password, the recovery code and the private key of an account in use
\* all lead to one user key.
KeysAgree ==
    \A u \in Users :
        users[u].st = "active" =>
            /\ users[u].userKey = users[u].recoveryKey
            /\ users[u].userKey = users[u].privateKey

\* An account becomes active by its owner's enrolment, so it has credentials.
ActiveHasKeys ==
    \A u \in Users : users[u].st = "active" => users[u].password # 0

\* Once there is an administrator there always is one.
AdminRemains == [][ActiveAdmins # {} => ActiveAdmins' # {}]_vars
=============================================================================
