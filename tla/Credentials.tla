----------------------------- MODULE Credentials -----------------------------
(***************************************************************************)
(* Setting and replacing the credentials of one account from one browser   *)
(* tab: enrolment (enroll.ts), recovery (recover.ts, useRecoverScreen.ts), *)
(* the password and the recovery code of the settings screen (account.ts), *)
(* and App.tsx, which decides what is on the screen.                       *)
(*                                                                         *)
(* Each operation mints a secret on the client and asks the server to      *)
(* store it.  The request may be refused, its answer may be lost, and a    *)
(* request the client gave up may still be carried out later.  A form that *)
(* leaves the screen loses its state, while its call goes on.              *)
(***************************************************************************)
EXTENDS Naturals, FiniteSets

CONSTANTS
    MaxSecrets,     \* bound on secrets minted
    MaxTokens,      \* bound on redemptions
    MaxCalls        \* bound on calls in flight or abandoned

ASSUME CredentialsAssumption == {MaxSecrets, MaxTokens, MaxCalls} \subseteq Nat

Ops == {"enrol", "redeem", "complete", "regenerate", "change"}
Secrets == [n : 1 .. MaxSecrets, op : Ops]
None == [n |-> 0, op |-> "none"]
NoToken == 0
Tokens == 1 .. MaxTokens

VARIABLES
    account,    \* server: active, and the code and the password it holds
    tokens,     \* server: live recovery tokens
    issued,     \* server: tokens ever issued
    minted,     \* secrets ever minted
    calls,      \* calls in flight, and requests the client gave up
    tab,        \* App and VaultScreen: enrolled, recovering, session, settings
    held,       \* recovery.current: the token of the recovery session
    enrol, recover, regen, change,  \* the forms
    saved,      \* codes the user has written down
    heard       \* codes whose success the client was told of

serverVars == <<account, tokens, issued>>
formVars == <<enrol, recover, regen, change>>
vars == <<serverVars, minted, calls, tab, held, formVars, saved, heard>>

BlankRecover == [st |-> "code", code |-> None, confirmed |-> TRUE]
BlankRegen == [open |-> FALSE, busy |-> FALSE, code |-> None]
BlankChange == [busy |-> FALSE, success |-> None]

Init ==
    /\ account = [active |-> FALSE, code |-> None, password |-> None]
    /\ tokens = {} /\ issued = 0 /\ minted = 0
    /\ calls = {}
    /\ tab = [enrolled |-> FALSE, recovering |-> FALSE, session |-> "none",
              settings |-> FALSE]
    /\ held = NoToken
    /\ enrol = [st |-> "form", code |-> None]
    /\ recover = BlankRecover /\ regen = BlankRegen /\ change = BlankChange
    /\ saved = {} /\ heard = {}

-----------------------------------------------------------------------------
(***************************************************************************)
(* What is on the screen (App.tsx), and what leaving it does.              *)
(***************************************************************************)

\* The order of App's branches.
ScreenOf(t) ==
    IF ~t.enrolled THEN "enrol"
    ELSE IF t.recovering THEN "recover"
    ELSE IF t.session = "none" THEN "unlock"
    ELSE "vault"

Screen == ScreenOf(tab)
SettingsShown(t) == ScreenOf(t) = "vault" /\ t.settings

Form(op) == CASE op = "enrol" -> "enrol"
              [] op \in {"redeem", "complete"} -> "recover"
              [] OTHER -> "settings"
Mounted(t) == {ScreenOf(t)} \cup IF SettingsShown(t) THEN {"settings"} ELSE {}

\* A form that is no longer mounted has no state; an answer finds nobody.
Orphaned(cs, t) ==
    {[c EXCEPT !.waits = IF @ = "form" /\ Form(c.op) \notin Mounted(t)
                         THEN "promise" ELSE @] : c \in cs}
Show(t, cs, forms) ==
    /\ tab' = t
    /\ calls' = Orphaned(cs, t)
    /\ enrol' = IF ScreenOf(t) = "enrol" THEN forms.enrol
                ELSE [st |-> "gone", code |-> None]
    /\ recover' = IF ScreenOf(t) = "recover" THEN forms.recover ELSE BlankRecover
    /\ regen' = IF SettingsShown(t) THEN forms.regen ELSE BlankRegen
    /\ change' = IF SettingsShown(t) THEN forms.change ELSE BlankChange
Forms == [enrol |-> enrol, recover |-> recover, regen |-> regen, change |-> change]

\* unlock(), from the unlock screen or after a recovery or an enrolment.
Unlock ==
    /\ Screen = "unlock" /\ account.active
    /\ Show([tab EXCEPT !.session = "live"], calls, Forms)
    /\ UNCHANGED <<serverVars, minted, held, saved, heard>>

\* The lock button, the idle timer, a failed refresh.
Lock ==
    /\ tab.session # "none"
    /\ Show([tab EXCEPT !.session = "none", !.settings = FALSE], calls, Forms)
    /\ UNCHANGED <<serverVars, minted, held, saved, heard>>

SwitchTab ==
    /\ Screen = "vault"
    /\ Show([tab EXCEPT !.settings = ~@], calls, Forms)
    /\ UNCHANGED <<serverVars, minted, held, saved, heard>>

-----------------------------------------------------------------------------
(***************************************************************************)
(* Calls.                                                                  *)
(***************************************************************************)
Call(op, secret, token, authorised) ==
    [op |-> op, secret |-> secret, token |-> token, auth |-> authorised,
     current |-> account.password, at |-> "sent", waits |-> "form"]

Minted(op) == [n |-> minted + 1, op |-> op]
Mint == minted < MaxSecrets /\ minted' = minted + 1
Room == Cardinality(calls) < MaxCalls
Start(call) == Room /\ calls' = calls \cup {call}

Becomes(call, at) == (calls \ {call}) \cup {[call EXCEPT !.at = at]}
Ended(call) == calls \ {call}
\* What the client no longer waits for may still be carried out.
GivenUp(call) ==
    IF call.at = "sent" THEN (calls \ {call}) \cup {[call EXCEPT !.waits = "nobody"]}
    ELSE calls \ {call}
Serve(call, op) == call.op = op /\ call.at = "sent"
ServerSays(call, at) ==
    calls' = IF call.waits = "nobody" THEN calls \ {call} ELSE Becomes(call, at)
Pending(call, op) == call.op = op /\ call.waits # "nobody"

\* Any request may be refused with a 4xx: a wrong secret, a spent token, a
\* revoked session, a limit.
Refuse(call) ==
    /\ call.at = "sent"
    /\ ServerSays(call, "refused")
    /\ UNCHANGED <<serverVars, minted, tab, held, formVars, saved, heard>>

-----------------------------------------------------------------------------
(***************************************************************************)
(* Enrolment.                                                              *)
(***************************************************************************)
SubmitEnrol ==
    /\ Screen = "enrol" /\ enrol.st = "form"
    /\ Mint
    /\ Start(Call("enrol", Minted("enrol"), NoToken, TRUE))
    /\ enrol' = [enrol EXCEPT !.st = "busy"]
    /\ UNCHANGED <<serverVars, tab, held, recover, regen, change, saved, heard>>

\* CompleteEnrollment: the invite is consumed and the account active.
CommitEnrol(call) ==
    /\ Serve(call, "enrol") /\ ~account.active
    /\ account' = [active |-> TRUE, code |-> call.secret, password |-> call.secret]
    /\ ServerSays(call, "committed")
    /\ UNCHANGED <<tokens, issued, minted, tab, held, formVars, saved, heard>>

\* After the 200 the code is returned whatever becomes of the login.
EnrolAnswered(call, loggedIn) ==
    /\ Pending(call, "enrol") /\ call.at = "committed"
    /\ Show([tab EXCEPT !.session = IF loggedIn THEN "live" ELSE @], Ended(call),
            [Forms EXCEPT !.enrol = [st |-> "code", code |-> call.secret]])
    /\ heard' = heard \cup {call.secret}
    /\ UNCHANGED <<serverVars, minted, held, saved>>

EnrolFails(call) ==
    /\ Pending(call, "enrol")
    /\ calls' = GivenUp(call)
    /\ enrol' = [enrol EXCEPT !.st = "form"]
    /\ UNCHANGED <<serverVars, minted, tab, held, recover, regen, change, saved, heard>>

\* Only the acknowledged code can be left behind.
FinishEnrol ==
    /\ enrol.st = "code"
    /\ saved' = saved \cup {enrol.code}
    /\ Show([tab EXCEPT !.enrolled = TRUE], calls, Forms)
    /\ UNCHANGED <<serverVars, minted, held, heard>>

\* An account set up although the answer was lost: the reload goes to "/".
ReloadAfterEnrol ==
    /\ enrol.st = "form" /\ account.active
    /\ Show([tab EXCEPT !.enrolled = TRUE], calls, Forms)
    /\ UNCHANGED <<serverVars, minted, held, saved, heard>>

-----------------------------------------------------------------------------
(***************************************************************************)
(* Recovery: redeem the code, set a new password, save the new code.       *)
(***************************************************************************)
ForgotPassword ==
    /\ Screen = "unlock"
    /\ Show([tab EXCEPT !.recovering = TRUE], calls, Forms)
    /\ UNCHANGED <<serverVars, minted, held, saved, heard>>

\* leave(), from the first step only: the later ones have no way back.
CancelRecovery ==
    /\ Screen = "recover" /\ recover.st \in {"code", "checking"}
    /\ held' = NoToken
    /\ Show([tab EXCEPT !.recovering = FALSE], calls, Forms)
    /\ UNCHANGED <<serverVars, minted, saved, heard>>

\* onRedeemCode discards what an earlier attempt left.
SubmitCode(code) ==
    /\ Screen = "recover" /\ recover.st = "code"
    /\ code \in saved
    /\ Start(Call("redeem", code, NoToken, TRUE))
    /\ held' = NoToken
    /\ recover' = [recover EXCEPT !.st = "checking"]
    /\ UNCHANGED <<serverVars, minted, tab, enrol, regen, change, saved, heard>>

CreateRecoveryToken(call) ==
    /\ Serve(call, "redeem") /\ call.secret = account.code /\ issued < MaxTokens
    /\ issued' = issued + 1
    /\ tokens' = tokens \cup {issued + 1}
    /\ calls' = IF call.waits = "nobody" THEN calls \ {call}
                ELSE (calls \ {call}) \cup
                     {[call EXCEPT !.at = "committed", !.token = issued + 1]}
    /\ UNCHANGED <<account, minted, tab, held, formVars, saved, heard>>

\* The hook outlives the screen: an answer after Cancel still sets the ref.
Redeemed(call) ==
    /\ Pending(call, "redeem") /\ call.at = "committed"
    /\ held' = call.token
    /\ calls' = Ended(call)
    /\ recover' = IF call.waits = "form" THEN [recover EXCEPT !.st = "password"]
                  ELSE recover
    /\ UNCHANGED <<serverVars, minted, tab, enrol, regen, change, saved, heard>>

RedeemFails(call) ==
    /\ Pending(call, "redeem")
    /\ calls' = GivenUp(call)
    /\ recover' = IF call.waits = "form" THEN [recover EXCEPT !.st = "code"]
                  ELSE recover
    /\ UNCHANGED <<serverVars, minted, tab, held, enrol, regen, change, saved, heard>>

SubmitNewPassword ==
    /\ Screen = "recover" /\ recover.st = "password" /\ held # NoToken
    /\ Mint
    /\ Start(Call("complete", Minted("complete"), held, TRUE))
    /\ recover' = [recover EXCEPT !.st = "setting"]
    /\ UNCHANGED <<serverVars, tab, held, enrol, regen, change, saved, heard>>

RevokedCalls(cs) ==
    {[c EXCEPT !.auth = IF c.op \in {"regenerate", "change"} THEN FALSE ELSE @] : c \in cs}

\* CompleteRecovery: both credentials, every session, every token.
CommitComplete(call) ==
    /\ Serve(call, "complete") /\ call.token \in tokens
    /\ account' = [account EXCEPT !.code = call.secret, !.password = call.secret]
    /\ tokens' = {}
    /\ calls' = RevokedCalls(IF call.waits = "nobody" THEN calls \ {call}
                             ELSE Becomes(call, "committed"))
    /\ tab' = [tab EXCEPT !.session = IF @ = "live" THEN "revoked" ELSE @]
    /\ UNCHANGED <<issued, minted, held, formVars, saved, heard>>

\* completeRecovery returned: the recovery session is discarded and a sign-in
\* with the new password tried; store.load may fail after it.
CompleteReturned(call, confirmed, signedIn) ==
    /\ Pending(call, "complete")
    /\ IF confirmed THEN call.at = "committed" ELSE call.at \in {"sent", "committed"}
    /\ signedIn => account.password = call.secret
    /\ held' = NoToken
    /\ Show([tab EXCEPT !.session = IF signedIn THEN "live" ELSE @],
            (IF call.at = "sent" THEN GivenUp(call) ELSE Ended(call)) \cup
            {[call EXCEPT !.at = IF confirmed THEN "confirmed" ELSE "unconfirmed"]},
            Forms)
    /\ heard' = IF confirmed THEN heard \cup {call.secret} ELSE heard
    /\ UNCHANGED <<serverVars, minted, saved>>

Handoff(call) ==
    /\ Pending(call, "complete") /\ call.at \in {"confirmed", "unconfirmed"}
    /\ calls' = Ended(call)
    /\ recover' = IF call.waits = "form"
                  THEN [st |-> "new-code", code |-> call.secret,
                        confirmed |-> call.at = "confirmed"]
                  ELSE recover
    /\ UNCHANGED <<serverVars, minted, tab, held, enrol, regen, change, saved, heard>>

\* [bug] whatever went wrong is thrown, and the code with it.
CompleteRefusedOrLost(call) ==
    /\ Pending(call, "complete") /\ call.at \in {"refused", "sent", "committed"}
    /\ calls' = GivenUp(call)
    /\ recover' = [recover EXCEPT !.st = "password"]
    /\ UNCHANGED <<serverVars, minted, tab, held, enrol, regen, change, saved, heard>>

\* A 4xx: thrown, and the recovery session kept for another attempt.
CompleteRefused(call) ==
    /\ Pending(call, "complete") /\ call.at = "refused"
    /\ calls' = Ended(call)
    /\ recover' = [recover EXCEPT !.st = "password"]
    /\ UNCHANGED <<serverVars, minted, tab, held, enrol, regen, change, saved, heard>>

FinishRecovery ==
    /\ recover.st = "new-code"
    /\ saved' = saved \cup {recover.code}
    /\ held' = NoToken
    /\ Show([tab EXCEPT !.recovering = FALSE], calls, Forms)
    /\ UNCHANGED <<serverVars, minted, heard>>

-----------------------------------------------------------------------------
(***************************************************************************)
(* Settings: a new recovery code, a new master password.                   *)
(***************************************************************************)
OpenOrCloseRegen ==
    /\ SettingsShown(tab) /\ regen.code = None
    /\ regen' = [regen EXCEPT !.open = ~@]
    /\ UNCHANGED <<serverVars, minted, calls, tab, held, enrol, recover, change, saved, heard>>

SubmitRegen ==
    /\ SettingsShown(tab) /\ regen.open /\ ~regen.busy /\ regen.code = None
    /\ Mint
    /\ Start(Call("regenerate", Minted("regenerate"), NoToken, tab.session = "live"))
    /\ regen' = [regen EXCEPT !.busy = TRUE]
    /\ UNCHANGED <<serverVars, tab, held, enrol, recover, change, saved, heard>>

\* The current password is checked again, besides the session.
CommitRegen(call) ==
    /\ Serve(call, "regenerate") /\ call.auth /\ call.current = account.password
    /\ account' = [account EXCEPT !.code = call.secret]
    /\ ServerSays(call, "committed")
    /\ UNCHANGED <<tokens, issued, minted, tab, held, formVars, saved, heard>>

RegenAnswered(call) ==
    /\ Pending(call, "regenerate") /\ call.at = "committed"
    /\ calls' = Ended(call)
    /\ heard' = heard \cup {call.secret}
    /\ regen' = IF call.waits = "form"
                THEN [open |-> FALSE, busy |-> FALSE, code |-> call.secret] ELSE regen
    /\ UNCHANGED <<serverVars, minted, tab, held, enrol, recover, change, saved>>

RegenFails(call) ==
    /\ Pending(call, "regenerate")
    /\ calls' = GivenUp(call)
    /\ regen' = IF call.waits = "form" THEN [regen EXCEPT !.busy = FALSE] ELSE regen
    /\ UNCHANGED <<serverVars, minted, tab, held, enrol, recover, change, saved, heard>>

FinishRegen ==
    /\ regen.code # None
    /\ saved' = saved \cup {regen.code}
    /\ regen' = [regen EXCEPT !.code = None]
    /\ UNCHANGED <<serverVars, minted, calls, tab, held, enrol, recover, change, heard>>

SubmitChange ==
    /\ SettingsShown(tab) /\ ~change.busy
    /\ Mint
    /\ Start(Call("change", Minted("change"), NoToken, tab.session = "live"))
    /\ change' = [busy |-> TRUE, success |-> None]
    /\ UNCHANGED <<serverVars, tab, held, enrol, recover, regen, saved, heard>>

\* [bug] the session alone is taken for proof of the password.
CommitChangeUnchecked(call) ==
    /\ Serve(call, "change") /\ call.auth
    /\ account' = [account EXCEPT !.password = call.secret]
    /\ ServerSays(call, "committed")
    /\ UNCHANGED <<tokens, issued, minted, tab, held, formVars, saved, heard>>

\* RotatePassword: this session stays.
CommitChange(call) ==
    /\ Serve(call, "change") /\ call.auth /\ call.current = account.password
    /\ account' = [account EXCEPT !.password = call.secret]
    /\ ServerSays(call, "committed")
    /\ UNCHANGED <<tokens, issued, minted, tab, held, formVars, saved, heard>>

ChangeAnswered(call) ==
    /\ Pending(call, "change") /\ call.at = "committed"
    /\ calls' = Ended(call)
    /\ change' = IF call.waits = "form" THEN [busy |-> FALSE, success |-> call.secret]
                 ELSE change
    /\ UNCHANGED <<serverVars, minted, tab, held, enrol, recover, regen, saved, heard>>

ChangeFails(call) ==
    /\ Pending(call, "change")
    /\ calls' = GivenUp(call)
    /\ change' = IF call.waits = "form" THEN BlankChange ELSE change
    /\ UNCHANGED <<serverVars, minted, tab, held, enrol, recover, regen, saved, heard>>

-----------------------------------------------------------------------------
UserStep ==
    \/ SubmitEnrol \/ FinishEnrol \/ ReloadAfterEnrol
    \/ Unlock \/ Lock \/ SwitchTab
    \/ ForgotPassword \/ CancelRecovery \/ SubmitNewPassword \/ FinishRecovery
    \/ \E code \in saved : SubmitCode(code)
    \/ OpenOrCloseRegen \/ SubmitRegen \/ FinishRegen \/ SubmitChange

ServerStep(call) ==
    \/ CommitEnrol(call) \/ CreateRecoveryToken(call) \/ CommitComplete(call)
    \/ CommitRegen(call) \/ CommitChange(call) \/ Refuse(call)

\* The promise of a call settles: answered, refused, or given up.
Settle(call) ==
    \/ \E b \in BOOLEAN : EnrolAnswered(call, b)
    \/ EnrolFails(call)
    \/ Redeemed(call) \/ RedeemFails(call)
    \/ \E b, c \in BOOLEAN : CompleteReturned(call, b, c)
    \/ Handoff(call) \/ CompleteRefused(call)
    \/ RegenAnswered(call) \/ RegenFails(call)
    \/ ChangeAnswered(call) \/ ChangeFails(call)

Next ==
    \/ UserStep
    \/ \E call \in calls : ServerStep(call) \/ Settle(call)

\* Every request of fetch ends.
Spec == Init /\ [][Next]_vars /\ WF_vars(\E call \in calls : Settle(call))

-----------------------------------------------------------------------------
(***************************************************************************)
(* Properties.                                                             *)
(***************************************************************************)
CallType ==
    [op : Ops, secret : Secrets, token : Tokens \cup {NoToken}, auth : BOOLEAN,
     current : Secrets \cup {None},
     at : {"sent", "committed", "refused", "confirmed", "unconfirmed"},
     waits : {"form", "promise", "nobody"}]

\* The account, the calls and the forms are in states the code can be in; in
\* particular a form holds a code exactly while it shows it.
TypeOK ==
    /\ account \in [active : BOOLEAN, code : Secrets \cup {None},
                    password : Secrets \cup {None}]
    /\ tokens \subseteq Tokens /\ issued \in 0 .. MaxTokens /\ minted \in 0 .. MaxSecrets
    /\ calls \subseteq CallType
    /\ tab \in [enrolled : BOOLEAN, recovering : BOOLEAN,
                session : {"none", "live", "revoked"}, settings : BOOLEAN]
    /\ held \in Tokens \cup {NoToken}
    /\ enrol \in [st : {"form", "busy", "code", "gone"}, code : Secrets \cup {None}]
    /\ recover \in [st : {"code", "checking", "password", "setting", "new-code"},
                    code : Secrets \cup {None}, confirmed : BOOLEAN]
    /\ regen \in [open : BOOLEAN, busy : BOOLEAN, code : Secrets \cup {None}]
    /\ change \in [busy : BOOLEAN, success : Secrets \cup {None}]
    /\ saved \subseteq Secrets /\ heard \subseteq Secrets
    /\ enrol.code # None <=> enrol.st = "code"
    /\ recover.code # None <=> recover.st = "new-code"

\* The user has written it down, sees it, or will be shown it.
InHand(code) ==
    \/ code \in saved \cup {enrol.code, recover.code, regen.code}
    \/ \E c \in calls : c.secret = code /\ c.waits = "form"

\* "nothing may destroy recoveryCode", "Destroying the code here is the one
\* unrecoverable mistake": the code an enrolment answered with, or a recovery
\* set, answered or not, is in the user's hands for as long as it is the
\* account's.
NewCodeReachesUser ==
    LET code == account.code IN
    (code.op = "enrol" /\ code \in heard) \/ code.op = "complete" => InHand(code)

\* "Your old code no longer works": a code shown as confirmed is the account's,
\* whatever abandoned request arrives late.
ConfirmedCodeStands ==
    /\ enrol.st = "code" => account.code = enrol.code
    /\ recover.st = "new-code" /\ recover.confirmed => account.code = recover.code

\* "Master password changed.": while this session is good the password is the
\* one whose change was confirmed; an earlier attempt given up for lost does
\* not come back over it.
ConfirmedPasswordStands ==
    tab.session = "live" /\ change.success # None => account.password = change.success

\* What was confirmed stands: no request that was given up, no second redemption
\* and no form left open makes a credential shown as changed another one.
ConfirmedStands == TypeOK /\ ConfirmedCodeStands /\ ConfirmedPasswordStands

\* Why they hold.  A secret is new when it is minted, and each operation mints
\* its own.
Known(secret) == secret.n <= minted
FreshInv ==
    /\ Known(account.code) /\ Known(account.password)
    /\ \A x \in saved \cup heard \cup {enrol.code, recover.code, regen.code} : Known(x)
    /\ \A c \in calls : Known(c.secret) /\ Known(c.current)
    /\ \A c \in calls : IF c.op = "redeem" THEN c.secret \in saved ELSE c.secret.op = c.op
    /\ \A c, d \in calls :
          /\ c.op = d.op /\ c.secret = d.secret
          /\ c.op = "change" \/ (c.op = "complete" /\ c.waits = "form" /\ c.at \in {"sent", "refused"})
          => c = d

\* A form on the screen waits for one call of a kind, and says so; a form that
\* left the screen is blank, and no enrolment or completion is ever left behind.
Awaits(op) == CASE op = "enrol" -> enrol.st = "busy"
                [] op = "redeem" -> recover.st = "checking"
                [] op = "complete" -> recover.st = "setting"
                [] op = "regenerate" -> regen.busy
                [] OTHER -> change.busy
FormInv ==
    /\ \A c \in calls : c.waits = "form" => Form(c.op) \in Mounted(tab) /\ Awaits(c.op)
    /\ \A c, d \in calls : c.waits = "form" /\ d.waits = "form" /\ c.op = d.op => c = d
    /\ \A c \in calls : c.op \in {"enrol", "complete"} => c.waits # "promise"
    /\ \A c \in calls : c.waits = "nobody" => c.at = "sent"
    /\ tab.enrolled => enrol.st = "gone"
    /\ Screen # "recover" => recover = BlankRecover
    /\ ~SettingsShown(tab) => regen = BlankRegen /\ change = BlankChange
    /\ change.success # None => ~change.busy

\* Nothing but enrolment happens before the enrolment link is used.
EnrolInv ==
    /\ tab.enrolled => account.active
    /\ ~tab.enrolled => \A c \in calls : c.op = "enrol"
    /\ \A c \in calls : c.op = "enrol" /\ c.at = "committed" => account.active /\ account.code = c.secret
    /\ enrol.st = "code" => account.active /\ account.code = enrol.code
    /\ ~tab.enrolled /\ enrol.st # "code" => heard = {}

\* A recovery that was carried out left no token, no session and no copy of the
\* code that could replace it.
Stands(code) ==
    /\ account.code = code /\ tokens = {} /\ code \notin saved
    /\ \A c \in calls : c.op = "regenerate" /\ c.at = "sent" => ~c.auth
Kept(code) ==
    \/ code \in saved \cup {recover.code}
    \/ \E c \in calls : /\ c.op = "complete" /\ c.secret = code /\ c.waits = "form"
                        /\ c.at \notin {"sent", "refused"}
CodeInv ==
    /\ \A c \in calls : c.op = "complete" /\ c.waits = "form" =>
          c.secret \notin saved /\ (c.at \in {"sent", "refused"} => account.code # c.secret)
    /\ \A c \in calls : c.op = "complete" /\ c.at \in {"committed", "confirmed"} => Stands(c.secret)
    /\ recover.st = "new-code" /\ recover.confirmed => Stands(recover.code)
    /\ account.code.op = "enrol" /\ account.code \in heard => account.code \in saved \cup {enrol.code}
    /\ account.code.op = "complete" => Kept(account.code)
    /\ \A c \in calls : c.op = "complete" /\ c.waits = "nobody" => Kept(c.secret)

\* A change that was carried out is not replaced by one made from an older
\* password.
NoChangeFrom(password) ==
    \A c \in calls : c.op = "change" /\ c.at = "sent" => c.current # password
PasswordInv ==
    /\ \A c \in calls : c.op = "change" /\ c.waits = "form" /\ c.at = "sent" =>
          account.password # c.secret /\ \A d \in calls : d.current # c.secret
    /\ \A c \in calls : c.op = "change" /\ c.waits = "form" /\ c.at = "committed" /\ tab.session = "live" =>
          account.password = c.secret /\ NoChangeFrom(c.secret)
    /\ change.success # None /\ tab.session = "live" =>
          account.password = change.success /\ NoChangeFrom(change.success)

CredentialsInv == TypeOK /\ FreshInv /\ FormInv /\ EnrolInv /\ CodeInv /\ PasswordInv

\* No form stays busy for ever, whatever is lost.
NothingStaysBusy ==
    /\ [](enrol.st = "busy" => <>(enrol.st # "busy"))
    /\ [](recover.st \in {"checking", "setting"}
          => <>(recover.st \notin {"checking", "setting"}))
    /\ [](regen.busy => <>(~regen.busy))
    /\ [](change.busy => <>(~change.busy))

\* "letting someone click past this replaces their only other way in with
\* nothing, silently": the code the settings screen was given is in the user's
\* hands too.
SettingsCodeReachesUser ==
    account.code.op = "regenerate" /\ account.code \in heard => InHand(account.code)
=============================================================================
