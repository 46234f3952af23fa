-------------------------- MODULE CredentialsProofs --------------------------
(***************************************************************************)
(* Proofs about Credentials: what was confirmed stands, and the code that  *)
(* replaced the old one is in the user's hands, whatever is refused, lost, *)
(* given up or carried out late, for any number of secrets, tokens, calls. *)
(***************************************************************************)
EXTENDS Credentials, TLAPS

TabType == [enrolled : BOOLEAN, recovering : BOOLEAN,
            session : {"none", "live", "revoked"}, settings : BOOLEAN]

\* App.tsx shows one screen, and the settings only inside the vault.
LEMMA ScreenFacts ==
    ASSUME NEW t \in TabType
    PROVE  /\ ScreenOf(t) = "enrol" <=> ~t.enrolled
           /\ ScreenOf(t) = "recover" <=> t.enrolled /\ t.recovering
           /\ ScreenOf(t) = "unlock" <=> t.enrolled /\ ~t.recovering /\ t.session = "none"
           /\ SettingsShown(t) <=> /\ t.enrolled /\ ~t.recovering /\ t.session # "none"
                                   /\ t.settings
           /\ ScreenOf(t) # "settings"
<1>1. t.enrolled \in BOOLEAN /\ t.recovering \in BOOLEAN
  BY DEF TabType
<1>. QED  BY <1>1 DEF ScreenOf, SettingsShown

\* Which form each call belongs to.
LEMMA FormFacts ==
    /\ Form("enrol") = "enrol" /\ Form("redeem") = "recover" /\ Form("complete") = "recover"
    /\ Form("regenerate") = "settings" /\ Form("change") = "settings"
  BY DEF Form

\* Which forms are mounted.
LEMMA MountedFacts ==
    ASSUME NEW t \in TabType
    PROVE  /\ "enrol" \in Mounted(t) <=> ~t.enrolled
           /\ "recover" \in Mounted(t) <=> t.enrolled /\ t.recovering
           /\ "settings" \in Mounted(t) <=> SettingsShown(t)
  BY ScreenFacts DEF Mounted

\* Secrets are told apart from the value that stands for none.
LEMMA SecretFacts ==
    /\ None \notin Secrets /\ None.n = 0 /\ None.op = "none"
    /\ \A x \in Secrets : x.n \in Nat \ {0} /\ x.op \in Ops
    /\ \A x \in Secrets \cup {None} : x.n \in Nat
    /\ MaxSecrets \in Nat /\ MaxTokens \in Nat
  BY CredentialsAssumption DEF Secrets, None, Ops

\* A call as the form left behind sees it.
Left(c, t) ==
    [c EXCEPT !.waits = IF @ = "form" /\ Form(c.op) \notin Mounted(t) THEN "promise" ELSE @]

\* Leaving a screen changes who waits for a call, and nothing else of it.
LEMMA LeftFacts ==
    ASSUME NEW c \in CallType, NEW t
    PROVE  /\ Left(c, t) \in CallType
           /\ Left(c, t).op = c.op /\ Left(c, t).secret = c.secret /\ Left(c, t).at = c.at
           /\ Left(c, t).token = c.token /\ Left(c, t).auth = c.auth
           /\ Left(c, t).current = c.current
           /\ Left(c, t).waits = IF c.waits = "form" /\ Form(c.op) \notin Mounted(t)
                                 THEN "promise" ELSE c.waits
           /\ c.waits # "form" \/ Form(c.op) \in Mounted(t) => Left(c, t) = c
  BY DEF Left, CallType

\* The calls after a change of the screen.
LEMMA OrphanedIs ==
    ASSUME NEW cs, NEW t
    PROVE  Orphaned(cs, t) = {Left(c, t) : c \in cs}
  BY DEF Orphaned, Left

\* A call that goes on: its secret and what it was started from stay.
LEMMA CallFacts ==
    ASSUME NEW c \in CallType
    PROVE  /\ \A at \in {"sent", "committed", "refused", "confirmed", "unconfirmed"} :
                /\ [c EXCEPT !.at = at] \in CallType
                /\ [c EXCEPT !.at = at].at = at /\ [c EXCEPT !.at = at].op = c.op
                /\ [c EXCEPT !.at = at].secret = c.secret
                /\ [c EXCEPT !.at = at].current = c.current
                /\ [c EXCEPT !.at = at].auth = c.auth
                /\ [c EXCEPT !.at = at].token = c.token
                /\ [c EXCEPT !.at = at].waits = c.waits
           /\ LET d == [c EXCEPT !.waits = "nobody"]
              IN  /\ d \in CallType /\ d.waits = "nobody" /\ d.op = c.op
                  /\ d.secret = c.secret /\ d.current = c.current /\ d.auth = c.auth
                  /\ d.token = c.token /\ d.at = c.at
  BY DEF CallType

\* A minted secret is one.
LEMMA MintFacts ==
    ASSUME TypeOK, Mint, NEW op \in Ops
    PROVE  /\ Minted(op) \in Secrets /\ Minted(op).op = op /\ Minted(op).n = minted + 1
           /\ minted' = minted + 1 /\ minted' \in 0 .. MaxSecrets
  BY SecretFacts DEF Mint, Minted, Secrets, TypeOK

-----------------------------------------------------------------------------
(***************************************************************************)
(* Secrets are new when they are minted.                                   *)
(***************************************************************************)

\* One call goes on or ends.
LEMMA FreshOne ==
    ASSUME TypeOK, FreshInv, NEW call \in calls, NEW new \in CallType,
           new.op = call.op, new.secret = call.secret, new.current = call.current,
           new.waits = "form" /\ new.at \in {"sent", "refused"}
              => call.waits = "form" /\ call.at \in {"sent", "refused"},
           calls' \subseteq (calls \ {call}) \cup {new},
           UNCHANGED <<minted, saved>>, heard' \subseteq heard \cup {call.secret},
           {enrol'.code, recover'.code, regen'.code}
              \subseteq {enrol.code, recover.code, regen.code, None, call.secret},
           account'.code \in {account.code, call.secret},
           account'.password \in {account.password, call.secret}
    PROVE  FreshInv'
<1>0. Known(call.secret)
  BY DEF FreshInv
<1>1. \A x : Known(x)' <=> Known(x)
  BY DEF Known
<1>2. Known(account'.code) /\ Known(account'.password)
  BY <1>0 DEF FreshInv
<1>3. \A x \in saved' \cup heard' \cup {enrol'.code, recover'.code, regen'.code} : Known(x)
  <2>1. Known(None)
    BY SecretFacts DEF Known, TypeOK
  <2>. QED  BY <1>0, <2>1 DEF FreshInv
<1>4. \A c \in calls' : /\ Known(c.secret) /\ Known(c.current)
                        /\ IF c.op = "redeem" THEN c.secret \in saved' ELSE c.secret.op = c.op
  BY DEF FreshInv
<1>5. ASSUME NEW c \in calls', NEW d \in calls', c.op = d.op, c.secret = d.secret,
             c.op = "change"
               \/ (c.op = "complete" /\ c.waits = "form" /\ c.at \in {"sent", "refused"})
      PROVE  c = d
  BY <1>5 DEF FreshInv
<1>. QED  BY <1>1, <1>2, <1>3, <1>4, <1>5 DEF FreshInv

\* A call starts with a new secret.
LEMMA FreshMint ==
    ASSUME TypeOK, FreshInv, Mint, NEW op \in Ops \ {"redeem"}, NEW new \in CallType,
           new.op = op, new.secret = Minted(op), new.current = account.password,
           calls' = calls \cup {new}, UNCHANGED <<account, saved, heard>>,
           enrol'.code = enrol.code, recover'.code = recover.code, regen'.code = regen.code
    PROVE  FreshInv'
<1>0. /\ minted \in Nat /\ minted' = minted + 1 /\ Minted(op).n = minted + 1
      /\ Minted(op).op = op
  BY MintFacts DEF TypeOK
<1>1. \A x \in Secrets \cup {None} : Known(x) => Known(x)' /\ x # Minted(op)
  BY <1>0, SecretFacts DEF Known
<1>2. Known(account.code)' /\ Known(account.password)'
  BY <1>1 DEF FreshInv, TypeOK
<1>3. \A x \in saved' \cup heard' \cup {enrol'.code, recover'.code, regen'.code} : Known(x)'
  BY <1>1 DEF FreshInv, TypeOK
<1>4. \A c \in calls : Known(c.secret)' /\ Known(c.current)' /\ c.secret # Minted(op)
  BY <1>1 DEF FreshInv, TypeOK, CallType
<1>5. Known(new.secret)' /\ Known(new.current)'
  BY <1>0, <1>2 DEF Known
<1>6. \A c \in calls' : IF c.op = "redeem" THEN c.secret \in saved' ELSE c.secret.op = c.op
  BY <1>0 DEF FreshInv
<1>7. ASSUME NEW c \in calls', NEW d \in calls', c.op = d.op, c.secret = d.secret,
             c.op = "change"
               \/ (c.op = "complete" /\ c.waits = "form" /\ c.at \in {"sent", "refused"})
      PROVE  c = d
  BY <1>4, <1>7 DEF FreshInv
<1>8. \A c \in calls' : Known(c.secret)' /\ Known(c.current)'
  BY <1>4, <1>5
<1>. QED  BY <1>2, <1>3, <1>6, <1>7, <1>8 DEF FreshInv

-----------------------------------------------------------------------------
(***************************************************************************)
(* Changes of the screen.                                                  *)
(***************************************************************************)

\* Whatever is shown next, a screen that may be left leaves nothing behind that
\* only it knew: what waits in it waits on as a promise, its state is dropped.
LEMMA ShowKeeps ==
    ASSUME CredentialsInv, NEW t \in TabType, Show(t, calls, Forms),
           UNCHANGED <<serverVars, minted, heard>>, held' \in {held, NoToken},
           tab.enrolled => t.enrolled, t.enrolled => account.active,
           \A c \in calls : c.op \in {"enrol", "complete"} /\ c.waits = "form"
                              => Form(c.op) \in Mounted(t),
           NEW x, Known(x),
           \/ saved' = saved
           \/ /\ saved' = saved \cup {x} /\ x \in Secrets
              /\ \A c \in calls : ~(c.op = "complete" /\ c.waits = "form")
              /\ recover'.st # "new-code",
           enrol.st = "code" /\ t.enrolled => enrol.code \in saved',
           recover.code # None /\ ScreenOf(t) # "recover" => recover.code \in saved',
           t.session = "live" => tab.session = "live" \/ ~SettingsShown(tab)
    PROVE  CredentialsInv'
<1>0. TypeOK /\ FreshInv /\ FormInv /\ EnrolInv /\ CodeInv /\ PasswordInv
  BY DEF CredentialsInv
<1>1. /\ tab' = t /\ tab \in TabType /\ tab' \in TabType /\ calls \subseteq CallType
      /\ calls' = Orphaned(calls, t)
      /\ enrol' = IF ScreenOf(t) = "enrol" THEN enrol ELSE [st |-> "gone", code |-> None]
      /\ recover' = IF ScreenOf(t) = "recover" THEN recover ELSE BlankRecover
      /\ regen' = IF SettingsShown(t) THEN regen ELSE BlankRegen
      /\ change' = IF SettingsShown(t) THEN change ELSE BlankChange
      /\ UNCHANGED <<account, tokens, issued>>
  BY <1>0 DEF Show, Forms, TypeOK, TabType, serverVars
<1>2. \A c \in calls' : \E d \in calls : c = Left(d, t)
  BY <1>1, OrphanedIs
<1>3. \A d \in calls : /\ Left(d, t) \in CallType /\ Left(d, t).op = d.op
                       /\ Left(d, t).secret = d.secret /\ Left(d, t).auth = d.auth
                       /\ Left(d, t).current = d.current /\ Left(d, t).at = d.at
                       /\ Left(d, t).waits = IF d.waits = "form" /\ Form(d.op) \notin Mounted(t)
                                             THEN "promise" ELSE d.waits
                       /\ (d.waits # "form" \/ Form(d.op) \in Mounted(t) => Left(d, t) = d)
  BY <1>1, LeftFacts
<1>4. \A d \in calls : Left(d, t) \in calls'
  BY <1>1, OrphanedIs
\* Enrolments and completions are not left behind.
<1>5. /\ \A c \in calls' : c.op \in {"enrol", "complete"} => c \in calls
      /\ \A c \in calls : c.op \in {"enrol", "complete"} => c \in calls'
  BY <1>2, <1>3, <1>4
<1>6. TypeOK'
  <2>1. calls' \subseteq CallType
    BY <1>2, <1>3
  <2>2. /\ recover' \in [st : {"code", "checking", "password", "setting", "new-code"},
                          code : Secrets \cup {None}, confirmed : BOOLEAN]
        /\ (recover'.code # None <=> recover'.st = "new-code")
    BY <1>0, <1>1 DEF TypeOK, BlankRecover
  <2>3. /\ enrol' \in [st : {"form", "busy", "code", "gone"}, code : Secrets \cup {None}]
        /\ (enrol'.code # None <=> enrol'.st = "code")
    BY <1>0, <1>1 DEF TypeOK
  <2>4. /\ regen' \in [open : BOOLEAN, busy : BOOLEAN, code : Secrets \cup {None}]
        /\ change' \in [busy : BOOLEAN, success : Secrets \cup {None}]
    BY <1>0, <1>1 DEF TypeOK, BlankRegen, BlankChange
  <2>. QED
    BY <1>0, <1>1, <2>1, <2>2, <2>3, <2>4 DEF TypeOK, TabType
<1>7. FreshInv'
  <2>1. \A y : Known(y)' <=> Known(y)
    BY DEF Known
  <2>2. \A c \in calls' : /\ Known(c.secret) /\ Known(c.current)
                          /\ IF c.op = "redeem" THEN c.secret \in saved' ELSE c.secret.op = c.op
    BY <1>0, <1>2, <1>3 DEF FreshInv
  <2>3. ASSUME NEW c \in calls', NEW d \in calls', c.op = d.op, c.secret = d.secret,
               c.op = "change"
                 \/ (c.op = "complete" /\ c.waits = "form" /\ c.at \in {"sent", "refused"})
        PROVE  c = d
    <3>1. PICK c1 \in calls, d1 \in calls : c = Left(c1, t) /\ d = Left(d1, t)
      BY <1>2
    <3>2. c1 = d1
      BY <1>0, <1>3, <2>3, <3>1 DEF FreshInv
    <3>. QED  BY <3>1, <3>2
  <2>4. \A y \in saved' \cup heard' \cup {enrol'.code, recover'.code, regen'.code} : Known(y)
    <3>1. Known(None)
      BY <1>0, SecretFacts DEF Known, TypeOK
    <3>2. /\ enrol'.code \in {enrol.code, None} /\ recover'.code \in {recover.code, None}
          /\ regen'.code \in {regen.code, None}
      BY <1>1 DEF BlankRecover, BlankRegen
    <3>. QED  BY <1>0, <3>1, <3>2 DEF FreshInv
  <2>5. Known(account'.code) /\ Known(account'.password)
    BY <1>0, <1>1 DEF FreshInv
  <2>. QED  BY <2>1, <2>2, <2>3, <2>4, <2>5 DEF FreshInv
<1>8. FormInv'
  <2>1. ASSUME NEW c \in calls', c.waits = "form"
        PROVE  Form(c.op) \in Mounted(tab') /\ Awaits(c.op)' /\ c \in calls
    <3>1. PICK d \in calls : c = Left(d, t)
      BY <1>2
    <3>2. d.waits = "form" /\ Form(d.op) \in Mounted(t) /\ c = d
      BY <1>3, <2>1, <3>1
    <3>3. Awaits(c.op) /\ c.op \in Ops
      BY <1>0, <1>1, <3>2 DEF FormInv, CallType
    <3>4. Awaits(c.op)'
      BY <1>1, <3>2, <3>3, FormFacts, MountedFacts, ScreenFacts DEF Awaits, Ops
    <3>. QED  BY <1>1, <3>2, <3>4
  <2>2. \A c \in calls' : /\ c.op \in {"enrol", "complete"} => c.waits # "promise"
                          /\ c.waits = "nobody" => c.at = "sent"
    BY <1>0, <1>2, <1>3, <1>5 DEF FormInv
  <2>3. /\ tab'.enrolled => enrol'.st = "gone"
        /\ ScreenOf(tab') # "recover" => recover' = BlankRecover
        /\ ~SettingsShown(tab') => regen' = BlankRegen /\ change' = BlankChange
        /\ change'.success # None => ~change'.busy
    BY <1>0, <1>1, ScreenFacts DEF FormInv, BlankChange
  <2>4. \A c, d \in calls' : c.waits = "form" /\ d.waits = "form" /\ c.op = d.op => c = d
    BY <1>0, <2>1 DEF FormInv
  <2>. QED  BY <2>1, <2>2, <2>3, <2>4 DEF FormInv, Screen
<1>9. EnrolInv'
  <2>1. ~tab'.enrolled => \A c \in calls' : c.op = "enrol"
    BY <1>0, <1>1, <1>2, <1>3 DEF EnrolInv
  <2>2. \A c \in calls' : c.op = "enrol" /\ c.at = "committed"
           => account'.active /\ account'.code = c.secret
    BY <1>0, <1>1, <1>5 DEF EnrolInv
  <2>3. enrol'.st = "code" => account'.active /\ account'.code = enrol'.code
    BY <1>0, <1>1 DEF EnrolInv
  <2>4. ~tab'.enrolled /\ enrol'.st # "code" => heard' = {}
    BY <1>0, <1>1, ScreenFacts DEF EnrolInv
  <2>. QED  BY <1>1, <2>1, <2>2, <2>3, <2>4 DEF EnrolInv
<1>10. CodeInv'
  <2>1. \A c \in calls' : c.op = "complete" /\ c.waits = "form" =>
          c.secret \notin saved' /\ (c.at \in {"sent", "refused"} => account'.code # c.secret)
    BY <1>0, <1>1, <1>5 DEF CodeInv
  <2>2. ASSUME NEW code, Stands(code), code \notin saved' PROVE Stands(code)'
    BY <1>1, <1>2, <1>3, <2>2 DEF Stands
  <2>3. \A c \in calls' : c.op = "complete" /\ c.at \in {"committed", "confirmed"}
           => Stands(c.secret)'
    <3>1. \A c \in calls' : c.op = "complete" /\ c.at \in {"committed", "confirmed"}
             => c \in calls /\ c.waits = "form"
      BY <1>0, <1>1, <1>5 DEF FormInv, CallType
    <3>. QED  BY <1>0, <2>1, <2>2, <3>1 DEF CodeInv
  <2>4. recover'.st = "new-code" /\ recover'.confirmed => Stands(recover.code)'
    <3>1. recover'.st = "new-code" => recover' = recover /\ saved' = saved
      BY <1>1 DEF BlankRecover
    <3>2. Stands(recover.code) => recover.code \notin saved
      BY DEF Stands
    <3>. QED  BY <1>0, <2>2, <3>1, <3>2 DEF CodeInv
  <2>5. account'.code.op = "enrol" /\ account'.code \in heard'
           => account'.code \in saved' \cup {enrol'.code}
    <3>1. account.code.op = "enrol" => account.code # None
      BY SecretFacts
    <3>2. enrol.code # None => enrol.st = "code" /\ (enrol' = enrol \/ enrol.code \in saved')
      BY <1>0, <1>1, ScreenFacts DEF TypeOK
    <3>. QED  BY <1>0, <1>1, <3>1, <3>2 DEF CodeInv
  <2>6. ASSUME NEW code \in Secrets, Kept(code) PROVE Kept(code)'
    <3>1. recover.code = code => code \in saved' \cup {recover'.code}
      BY <1>1, SecretFacts
    <3>. QED  BY <1>5, <2>6, <3>1 DEF Kept
  <2>7. account'.code.op = "complete" => Kept(account.code)'
    <3>1. account.code.op = "complete" => account.code \in Secrets
      BY <1>0, SecretFacts DEF TypeOK
    <3>. QED  BY <1>0, <1>1, <2>6, <3>1 DEF CodeInv
  <2>8. \A c \in calls' : c.op = "complete" /\ c.waits = "nobody" => Kept(c.secret)'
    BY <1>0, <1>1, <1>5, <2>6 DEF CodeInv, CallType
  <2>. QED  BY <2>1, <2>3, <2>4, <2>5, <2>7, <2>8 DEF CodeInv
<1>11. PasswordInv'
  <2>0. \A c \in calls' : c.waits = "form" => c \in calls
    BY <1>2, <1>3
  <2>1. \A c \in calls' : c.op = "change" /\ c.waits = "form" /\ c.at = "sent" =>
          account'.password # c.secret /\ \A d \in calls' : d.current # c.secret
    BY <1>0, <1>1, <1>2, <1>3, <2>0 DEF PasswordInv
  <2>2. \A y : NoChangeFrom(y) => NoChangeFrom(y)'
    BY <1>2, <1>3 DEF NoChangeFrom
  <2>3. \A c \in calls' : c.op = "change" /\ c.waits = "form" => c \in calls /\ SettingsShown(tab)
    BY <1>0, <1>1, <2>0, FormFacts, MountedFacts DEF FormInv
  <2>4. change'.success # None => change' = change /\ SettingsShown(tab)
    BY <1>0, <1>1 DEF FormInv, BlankChange
  <2>5. ASSUME NEW c \in calls', c.op = "change", c.waits = "form", c.at = "committed",
               tab'.session = "live"
        PROVE  account'.password = c.secret /\ NoChangeFrom(c.secret)'
    BY <1>0, <1>1, <2>2, <2>3, <2>5 DEF PasswordInv
  <2>6. change'.success # None /\ tab'.session = "live" =>
          account'.password = change'.success /\ NoChangeFrom(change.success)'
    BY <1>0, <1>1, <2>2, <2>4 DEF PasswordInv
  <2>. QED  BY <2>1, <2>5, <2>6 DEF PasswordInv
<1>. QED  BY <1>6, <1>7, <1>8, <1>9, <1>10, <1>11 DEF CredentialsInv

\* Unlocking, locking, leaving a tab, and the four ways a form is finished or
\* left keep what the user must keep.
LEMMA ScreensKeep ==
    ASSUME CredentialsInv,
           \/ Unlock \/ Lock \/ SwitchTab \/ FinishEnrol \/ ReloadAfterEnrol
           \/ ForgotPassword \/ CancelRecovery \/ FinishRecovery
    PROVE  CredentialsInv'
<1>0. TypeOK /\ FreshInv /\ FormInv /\ EnrolInv /\ CodeInv /\ PasswordInv /\ tab \in TabType
  BY DEF CredentialsInv, TypeOK, TabType
<1>1. \A c \in calls : c.waits = "form" =>
         /\ c.op = "enrol" => ~tab.enrolled /\ enrol.st = "busy"
         /\ c.op = "complete" => tab.enrolled /\ tab.recovering /\ recover.st = "setting"
  BY <1>0, FormFacts, MountedFacts DEF FormInv, Awaits
<1>2. /\ enrol.st = "code" => ~tab.enrolled /\ enrol.code \in Secrets /\ Known(enrol.code)
      /\ recover.st = "new-code" => recover.code \in Secrets /\ Known(recover.code)
      /\ recover.st # "new-code" => recover.code = None
      /\ ScreenOf(tab) # "recover" => recover = BlankRecover
      /\ recover.code # None => ScreenOf(tab) = "recover" /\ recover.st = "new-code"
  BY <1>0 DEF FormInv, TypeOK, FreshInv, Screen, BlankRecover
<1>3. ASSUME NEW t \in TabType, Show(t, calls, Forms), UNCHANGED <<serverVars, minted, heard, saved>>,
             held' \in {held, NoToken},
             tab.enrolled => t.enrolled, t.enrolled => account.active,
             \A c \in calls : c.op \in {"enrol", "complete"} /\ c.waits = "form"
                                => Form(c.op) \in Mounted(t),
             enrol.st = "code" => ~t.enrolled,
             recover.code # None => ScreenOf(t) = "recover",
             t.session = "live" => tab.session = "live" \/ ~SettingsShown(tab)
      PROVE  CredentialsInv'
  <2>1. Known(None)
    BY <1>0, SecretFacts DEF Known, TypeOK
  <2>2. enrol.st = "code" /\ t.enrolled => enrol.code \in saved'
    BY <1>3
  <2>3. recover.code # None /\ ScreenOf(t) # "recover" => recover.code \in saved'
    BY <1>3
  <2>. QED  BY <1>3, <2>1, <2>2, <2>3, ShowKeeps
<1>4. CASE Unlock
  <2>. DEFINE t == [tab EXCEPT !.session = "live"]
  <2>1. /\ t \in TabType /\ t.enrolled = tab.enrolled /\ t.recovering = tab.recovering
        /\ tab.enrolled /\ ~tab.recovering /\ tab.session = "none"
    BY <1>0, <1>4, ScreenFacts DEF Unlock, Screen, TabType
  <2>2. enrol.st # "code" /\ recover.code = None /\ ~SettingsShown(tab)
    BY <1>0, <1>2, <2>1, ScreenFacts
  <2>3. Show(t, calls, Forms) /\ UNCHANGED <<serverVars, minted, heard, saved, held>> /\ account.active
    BY <1>4 DEF Unlock
  <2>. HIDE DEF t
  <2>. QED  BY <1>0, <1>1, <1>3, <2>1, <2>2, <2>3, MountedFacts, FormFacts
<1>5. CASE Lock
  <2>. DEFINE t == [tab EXCEPT !.session = "none", !.settings = FALSE]
  <2>1. /\ t \in TabType /\ t.enrolled = tab.enrolled /\ t.recovering = tab.recovering
        /\ t.session = "none"
    BY <1>0 DEF TabType
  <2>2. recover.code # None => ScreenOf(t) = "recover"
    BY <1>0, <1>2, <2>1, ScreenFacts
  <2>3. Show(t, calls, Forms) /\ UNCHANGED <<serverVars, minted, heard, saved, held>>
    BY <1>5 DEF Lock
  <2>4. t.enrolled => account.active
    BY <1>0, <2>1 DEF EnrolInv
  <2>. HIDE DEF t
  <2>. QED  BY <1>0, <1>1, <1>2, <1>3, <2>1, <2>2, <2>3, <2>4, MountedFacts, FormFacts
<1>6. CASE SwitchTab
  <2>. DEFINE t == [tab EXCEPT !.settings = ~@]
  <2>1. /\ t \in TabType /\ t.enrolled = tab.enrolled /\ t.recovering = tab.recovering
        /\ t.session = tab.session /\ tab.enrolled /\ ~tab.recovering
    BY <1>0, <1>6, ScreenFacts DEF SwitchTab, Screen, TabType
  <2>2. enrol.st # "code" /\ recover.code = None
    BY <1>0, <1>2, <2>1, ScreenFacts
  <2>3. Show(t, calls, Forms) /\ UNCHANGED <<serverVars, minted, heard, saved, held>>
    BY <1>6 DEF SwitchTab
  <2>4. t.enrolled => account.active
    BY <1>0, <2>1 DEF EnrolInv
  <2>. HIDE DEF t
  <2>. QED  BY <1>0, <1>1, <1>3, <2>1, <2>2, <2>3, <2>4, MountedFacts, FormFacts
<1>7. CASE FinishEnrol \/ ReloadAfterEnrol
  <2>. DEFINE t == [tab EXCEPT !.enrolled = TRUE]
  <2>1. t \in TabType /\ t.enrolled /\ t.session = tab.session
    BY <1>0 DEF TabType
  <2>2. enrol.st \in {"code", "form"} /\ ~tab.enrolled /\ account.active
    BY <1>0, <1>7 DEF FinishEnrol, ReloadAfterEnrol, FormInv, EnrolInv
  <2>3. recover.code = None /\ ~SettingsShown(tab)
    BY <1>0, <1>2, <2>2, ScreenFacts
  <2>4. \A c \in calls : c.op = "enrol" /\ c.waits # "form"
    BY <1>0, <1>1, <2>2 DEF EnrolInv
  <2>5. Show(t, calls, Forms) /\ UNCHANGED <<serverVars, minted, heard, held>>
    BY <1>7 DEF FinishEnrol, ReloadAfterEnrol
  <2>6. CASE enrol.st = "code"
    <3>1. saved' = saved \cup {enrol.code} /\ enrol.code \in Secrets /\ Known(enrol.code)
      BY <1>2, <1>7, <2>6 DEF FinishEnrol, ReloadAfterEnrol
    <3>2. recover'.st # "new-code"
      BY <1>2, <2>3, <2>5, <1>0, <2>2, ScreenFacts DEF Show, Forms, BlankRecover
    <3>3. /\ \A c \in calls : c.op \in {"enrol", "complete"} /\ c.waits = "form"
                                => Form(c.op) \in Mounted(t)
          /\ \A c \in calls : ~(c.op = "complete" /\ c.waits = "form")
          /\ enrol.st = "code" /\ t.enrolled => enrol.code \in saved'
          /\ recover.code # None /\ ScreenOf(t) # "recover" => recover.code \in saved'
      BY <2>3, <2>4, <3>1
    <3>. HIDE DEF t
    <3>. QED  BY <2>1, <2>2, <2>3, <2>5, <3>1, <3>2, <3>3, ShowKeeps
  <2>7. CASE enrol.st = "form"
    <3>1. saved' = saved
      BY <1>7, <2>7 DEF FinishEnrol, ReloadAfterEnrol
    <3>. HIDE DEF t
    <3>. QED  BY <1>3, <2>1, <2>2, <2>3, <2>4, <2>5, <2>7, <3>1
  <2>. QED  BY <2>2, <2>6, <2>7
<1>8. CASE ForgotPassword
  <2>. DEFINE t == [tab EXCEPT !.recovering = TRUE]
  <2>1. /\ t \in TabType /\ t.enrolled = tab.enrolled /\ t.session = tab.session
        /\ tab.enrolled /\ ~tab.recovering
    BY <1>0, <1>8, ScreenFacts DEF ForgotPassword, Screen, TabType
  <2>2. enrol.st # "code" /\ recover.code = None
    BY <1>0, <1>2, <2>1, ScreenFacts
  <2>3. Show(t, calls, Forms) /\ UNCHANGED <<serverVars, minted, heard, saved, held>>
    BY <1>8 DEF ForgotPassword
  <2>4. t.enrolled => account.active
    BY <1>0, <2>1 DEF EnrolInv
  <2>. HIDE DEF t
  <2>. QED  BY <1>0, <1>1, <1>3, <2>1, <2>2, <2>3, <2>4, MountedFacts, FormFacts
<1>9. CASE CancelRecovery \/ FinishRecovery
  <2>. DEFINE t == [tab EXCEPT !.recovering = FALSE]
  <2>0. ScreenOf(tab) = "recover" /\ recover.st \in {"code", "checking", "new-code"}
    BY <1>2, <1>9 DEF CancelRecovery, FinishRecovery, Screen, BlankRecover
  <2>1. /\ t \in TabType /\ t.enrolled = tab.enrolled /\ t.session = tab.session
        /\ t.recovering = FALSE /\ tab.enrolled /\ tab.recovering
    BY <1>0, <2>0, ScreenFacts DEF TabType
  <2>2. enrol.st # "code" /\ ~SettingsShown(tab)
    BY <1>0, <1>2, <2>1, ScreenFacts
  <2>3. Show(t, calls, Forms) /\ UNCHANGED <<serverVars, minted, heard>> /\ held' = NoToken
    BY <1>9 DEF CancelRecovery, FinishRecovery
  <2>4. t.enrolled => account.active
    BY <1>0, <2>1 DEF EnrolInv
  <2>5. \A c \in calls : ~(c.op \in {"enrol", "complete"} /\ c.waits = "form")
    BY <1>1, <2>0, <2>1
  <2>6. CASE recover.st = "new-code"
    <3>1. saved' = saved \cup {recover.code} /\ recover.code \in Secrets /\ Known(recover.code)
      BY <1>2, <1>9, <2>6 DEF CancelRecovery, FinishRecovery
    <3>2. recover'.st # "new-code"
      BY <2>1, <2>3, ScreenFacts DEF Show, BlankRecover
    <3>. HIDE DEF t
    <3>. QED  BY <2>1, <2>2, <2>3, <2>4, <2>5, <3>1, <3>2, ShowKeeps
  <2>7. CASE recover.st # "new-code"
    <3>1. saved' = saved /\ recover.code = None
      BY <1>2, <1>9, <2>7 DEF CancelRecovery, FinishRecovery
    <3>. HIDE DEF t
    <3>. QED  BY <1>3, <2>1, <2>2, <2>3, <2>4, <2>5, <3>1
  <2>. QED  BY <2>6, <2>7
<1>. QED  BY <1>4, <1>5, <1>6, <1>7, <1>8, <1>9

-----------------------------------------------------------------------------
(***************************************************************************)
(* Submitting a form.                                                      *)
(***************************************************************************)

\* A call that starts is not carried out yet, and its secret is nobody's.
LEMMA StartKeeps ==
    ASSUME CredentialsInv, NEW new \in CallType, calls' = calls \cup {new},
           new.at = "sent", new.waits = "form", new.current = account.password,
           new.op # "redeem" => ~Known(new.secret),
           UNCHANGED <<serverVars, tab, saved, heard>>,
           ~tab.enrolled => new.op = "enrol",
           new.op = "regenerate" => SettingsShown(tab),
           enrol'.code = enrol.code, enrol'.st = "code" <=> enrol.st = "code",
           recover'.code = recover.code, recover'.st = "new-code" => recover' = recover,
           IF new.op = "change" THEN ~change.busy /\ change'.success = None
           ELSE change' = change
    PROVE  EnrolInv' /\ CodeInv' /\ PasswordInv'
<1>0. /\ TypeOK /\ FreshInv /\ FormInv /\ EnrolInv /\ CodeInv /\ PasswordInv
      /\ tab \in TabType /\ UNCHANGED <<account, tokens, issued>>
  BY DEF CredentialsInv, TypeOK, TabType, serverVars
<1>1. EnrolInv'
  BY <1>0 DEF EnrolInv
<1>2. CodeInv'
  <2>1. \A c \in calls' : c.op = "complete" /\ c.waits = "form" =>
          c.secret \notin saved' /\ (c.at \in {"sent", "refused"} => account'.code # c.secret)
    BY <1>0 DEF CodeInv, FreshInv
  <2>2. ASSUME NEW code, Stands(code), ~SettingsShown(tab) PROVE Stands(code)'
    BY <1>0, <2>2 DEF Stands
  <2>3. \A c \in calls' : c.op = "complete" /\ c.at \in {"committed", "confirmed"}
           => Stands(c.secret)'
    <3>1. ASSUME NEW c \in calls, c.op = "complete", c.at \in {"committed", "confirmed"}
          PROVE  ~SettingsShown(tab) /\ Stands(c.secret)
      <4>1. c.waits = "form"
        BY <1>0, <3>1 DEF FormInv, TypeOK, CallType
      <4>. QED  BY <1>0, <3>1, <4>1, FormFacts, MountedFacts, ScreenFacts DEF FormInv, CodeInv
    <3>. QED  BY <2>2, <3>1
  <2>4. recover'.st = "new-code" /\ recover'.confirmed => Stands(recover.code)'
    <3>1. recover.st = "new-code" => ~SettingsShown(tab)
      BY <1>0, ScreenFacts DEF FormInv, Screen, BlankRecover
    <3>. QED  BY <1>0, <2>2, <3>1 DEF CodeInv
  <2>5. \A code : Kept(code) => Kept(code)'
    BY DEF Kept
  <2>. QED  BY <1>0, <2>1, <2>3, <2>4, <2>5 DEF CodeInv
<1>3. PasswordInv'
  <2>1. \A c \in calls' : c.op = "change" /\ c.waits = "form" /\ c.at = "sent" =>
          account'.password # c.secret /\ \A d \in calls' : d.current # c.secret
    BY <1>0 DEF PasswordInv, FreshInv
  <2>2. \A y : NoChangeFrom(y) /\ new.op # "change" => NoChangeFrom(y)'
    BY DEF NoChangeFrom
  <2>3. \A c \in calls : c.op = "change" /\ c.waits = "form" => change.busy
    BY <1>0 DEF FormInv, Awaits
  <2>4. ASSUME NEW c \in calls', c.op = "change", c.waits = "form", c.at = "committed",
               tab'.session = "live"
        PROVE  account'.password = c.secret /\ NoChangeFrom(c.secret)'
    BY <1>0, <2>2, <2>3, <2>4 DEF PasswordInv
  <2>5. change'.success # None /\ tab'.session = "live" =>
          account'.password = change'.success /\ NoChangeFrom(change.success)'
    BY <1>0, <2>2 DEF PasswordInv
  <2>. QED  BY <2>1, <2>4, <2>5 DEF PasswordInv
<1>. QED  BY <1>1, <1>2, <1>3

\* A form that starts a call waits for it, and waited for none of its kind.
LEMMA StartForms ==
    ASSUME TypeOK, FormInv, NEW new \in CallType, calls' = calls \cup {new},
           new.at = "sent", new.waits = "form", UNCHANGED tab,
           Form(new.op) \in Mounted(tab), ~Awaits(new.op),
           Awaits(new.op)', \A op \in Ops \ {new.op} : Awaits(op) => Awaits(op)',
           tab.enrolled => enrol' = enrol, Screen # "recover" => recover' = recover,
           ~SettingsShown(tab) => regen' = regen /\ change' = change,
           change'.success # None => ~change'.busy
    PROVE  FormInv'
<1>1. ASSUME NEW c \in calls', c.waits = "form" PROVE Form(c.op) \in Mounted(tab') /\ Awaits(c.op)'
  <2>1. c.op \in Ops
    BY DEF TypeOK, CallType
  <2>2. c = new \/ (Form(c.op) \in Mounted(tab) /\ Awaits(c.op))
    BY <1>1 DEF FormInv
  <2>. QED  BY <2>1, <2>2
<1>2. \A c, d \in calls' : c.waits = "form" /\ d.waits = "form" /\ c.op = d.op => c = d
  BY DEF FormInv
<1>3. \A c \in calls' : /\ c.op \in {"enrol", "complete"} => c.waits # "promise"
                        /\ c.waits = "nobody" => c.at = "sent"
  BY DEF FormInv
<1>4. /\ tab'.enrolled => enrol'.st = "gone"
      /\ Screen' # "recover" => recover' = BlankRecover
      /\ ~SettingsShown(tab') => regen' = BlankRegen /\ change' = BlankChange
  BY DEF FormInv, Screen
<1>. QED  BY <1>1, <1>2, <1>3, <1>4 DEF FormInv

\* Submitting any of the five forms.
LEMMA SubmitsKeep ==
    ASSUME CredentialsInv,
           \/ SubmitEnrol \/ SubmitNewPassword \/ SubmitRegen \/ SubmitChange
           \/ \E code \in saved : SubmitCode(code)
    PROVE  CredentialsInv'
<1>0. TypeOK /\ FreshInv /\ FormInv /\ tab \in TabType
  BY DEF CredentialsInv, TypeOK, TabType
<1>1. ASSUME Mint, NEW op \in Ops
      PROVE  Minted(op) \in Secrets /\ ~Known(Minted(op)) /\ minted' \in 0 .. MaxSecrets
  <2>1. /\ minted \in Nat /\ Minted(op).n = minted + 1 /\ Minted(op) \in Secrets
        /\ minted' \in 0 .. MaxSecrets
    BY <1>0, <1>1, MintFacts DEF TypeOK
  <2>. QED  BY <2>1 DEF Known
<1>2. CASE SubmitEnrol
  <2>1. PICK new : new = Call("enrol", Minted("enrol"), NoToken, TRUE)
    OBVIOUS
  <2>2. /\ new \in CallType /\ new.op = "enrol" /\ new.secret = Minted("enrol")
        /\ new.current = account.password /\ new.at = "sent" /\ new.waits = "form"
        /\ ~Known(new.secret) /\ minted' \in 0 .. MaxSecrets
    <3>1. Mint
      BY <1>2 DEF SubmitEnrol
    <3>2. "enrol" \in Ops
      BY DEF Ops
    <3>3. /\ Minted("enrol") \in Secrets /\ ~Known(Minted("enrol")) /\ minted' \in 0 .. MaxSecrets
          /\ account.password \in Secrets \cup {None} /\ held \in Tokens \cup {NoToken}
      BY <1>0, <1>1, <3>1, <3>2 DEF TypeOK
    <3>. QED  BY <2>1, <3>2, <3>3 DEF Call, CallType
  <2>3. /\ Mint /\ calls' = calls \cup {new} /\ ~tab.enrolled /\ enrol.st = "form"
        /\ enrol'.st = "busy" /\ enrol'.code = enrol.code
        /\ enrol' \in [st : {"form", "busy", "code", "gone"}, code : Secrets \cup {None}]
        /\ UNCHANGED <<account, tokens, issued, tab, held, recover, regen, change, saved, heard>>
    BY <1>0, <1>2, <2>1, ScreenFacts DEF SubmitEnrol, Start, Screen, TypeOK, serverVars
  <2>4. FreshInv'
    BY <1>0, <2>2, <2>3, FreshMint DEF Ops
  <2>5. FormInv'
    <3>1. /\ ~Awaits("enrol") /\ Awaits("enrol")'
          /\ \A op \in Ops \ {"enrol"} : Awaits(op) => Awaits(op)'
      BY <2>3 DEF Awaits, Ops
    <3>2. Form(new.op) \in Mounted(tab)
      BY <1>0, <2>2, <2>3, FormFacts, MountedFacts
    <3>. QED  BY <1>0, <2>2, <2>3, <3>1, <3>2, StartForms DEF FormInv
  <2>6. TypeOK'
    BY <1>0, <2>2, <2>3 DEF TypeOK
  <2>7. EnrolInv' /\ CodeInv' /\ PasswordInv'
    BY <2>2, <2>3, StartKeeps DEF serverVars
  <2>. QED  BY <2>4, <2>5, <2>6, <2>7 DEF CredentialsInv
<1>3. CASE SubmitNewPassword
  <2>1. PICK new : new = Call("complete", Minted("complete"), held, TRUE)
    OBVIOUS
  <2>2. /\ new \in CallType /\ new.op = "complete" /\ new.secret = Minted("complete")
        /\ new.current = account.password /\ new.at = "sent" /\ new.waits = "form"
        /\ ~Known(new.secret) /\ minted' \in 0 .. MaxSecrets
    <3>1. Mint
      BY <1>3 DEF SubmitNewPassword
    <3>2. "complete" \in Ops
      BY DEF Ops
    <3>3. /\ Minted("complete") \in Secrets /\ ~Known(Minted("complete")) /\ minted' \in 0 .. MaxSecrets
          /\ account.password \in Secrets \cup {None} /\ held \in Tokens \cup {NoToken}
      BY <1>0, <1>1, <3>1, <3>2 DEF TypeOK
    <3>. QED  BY <2>1, <3>2, <3>3 DEF Call, CallType
  <2>3. /\ Mint /\ calls' = calls \cup {new} /\ Screen = "recover" /\ tab.enrolled /\ tab.recovering
        /\ recover.st = "password" /\ recover'.st = "setting" /\ recover'.code = recover.code
        /\ recover' \in [st : {"code", "checking", "password", "setting", "new-code"},
                          code : Secrets \cup {None}, confirmed : BOOLEAN]
        /\ UNCHANGED <<account, tokens, issued, tab, held, enrol, regen, change, saved, heard>>
    BY <1>0, <1>3, <2>1, ScreenFacts
    DEF SubmitNewPassword, Start, Screen, TypeOK, serverVars
  <2>4. FreshInv'
    BY <1>0, <2>2, <2>3, FreshMint DEF Ops
  <2>5. FormInv'
    <3>1. /\ ~Awaits("complete") /\ Awaits("complete")'
          /\ \A op \in Ops \ {"complete"} : Awaits(op) => Awaits(op)'
      BY <2>3 DEF Awaits, Ops
    <3>2. Form(new.op) \in Mounted(tab)
      BY <1>0, <2>2, <2>3, FormFacts, MountedFacts
    <3>. QED  BY <1>0, <2>2, <2>3, <3>1, <3>2, StartForms DEF FormInv
  <2>6. TypeOK'
    BY <1>0, <2>2, <2>3 DEF TypeOK
  <2>7. EnrolInv' /\ CodeInv' /\ PasswordInv'
    BY <2>2, <2>3, StartKeeps DEF serverVars
  <2>. QED  BY <2>4, <2>5, <2>6, <2>7 DEF CredentialsInv
<1>4. CASE SubmitRegen
  <2>1. PICK new : new = Call("regenerate", Minted("regenerate"), NoToken, tab.session = "live")
    OBVIOUS
  <2>2. /\ new \in CallType /\ new.op = "regenerate" /\ new.secret = Minted("regenerate")
        /\ new.current = account.password /\ new.at = "sent" /\ new.waits = "form"
        /\ ~Known(new.secret) /\ minted' \in 0 .. MaxSecrets
    <3>1. Mint
      BY <1>4 DEF SubmitRegen
    <3>2. "regenerate" \in Ops
      BY DEF Ops
    <3>3. /\ Minted("regenerate") \in Secrets /\ ~Known(Minted("regenerate")) /\ minted' \in 0 .. MaxSecrets
          /\ account.password \in Secrets \cup {None} /\ held \in Tokens \cup {NoToken}
      BY <1>0, <1>1, <3>1, <3>2 DEF TypeOK
    <3>. QED  BY <2>1, <3>2, <3>3 DEF Call, CallType
  <2>3. /\ Mint /\ calls' = calls \cup {new} /\ SettingsShown(tab) /\ tab.enrolled
        /\ regen.busy = FALSE /\ regen'.busy = TRUE /\ regen'.code = regen.code
        /\ regen' \in [open : BOOLEAN, busy : BOOLEAN, code : Secrets \cup {None}]
        /\ UNCHANGED <<account, tokens, issued, tab, held, enrol, recover, change, saved, heard>>
    BY <1>0, <1>4, <2>1, ScreenFacts DEF SubmitRegen, Start, TypeOK, serverVars
  <2>4. FreshInv'
    BY <1>0, <2>2, <2>3, FreshMint DEF Ops
  <2>5. FormInv'
    <3>1. /\ ~Awaits("regenerate") /\ Awaits("regenerate")'
          /\ \A op \in Ops \ {"regenerate"} : Awaits(op) => Awaits(op)'
      BY <2>3 DEF Awaits, Ops
    <3>2. Form(new.op) \in Mounted(tab)
      BY <1>0, <2>2, <2>3, FormFacts, MountedFacts
    <3>. QED  BY <1>0, <2>2, <2>3, <3>1, <3>2, StartForms DEF FormInv
  <2>6. TypeOK'
    BY <1>0, <2>2, <2>3 DEF TypeOK
  <2>7. EnrolInv' /\ CodeInv' /\ PasswordInv'
    BY <2>2, <2>3, StartKeeps DEF serverVars
  <2>. QED  BY <2>4, <2>5, <2>6, <2>7 DEF CredentialsInv
<1>5. CASE SubmitChange
  <2>1. PICK new : new = Call("change", Minted("change"), NoToken, tab.session = "live")
    OBVIOUS
  <2>2. /\ new \in CallType /\ new.op = "change" /\ new.secret = Minted("change")
        /\ new.current = account.password /\ new.at = "sent" /\ new.waits = "form"
        /\ ~Known(new.secret) /\ minted' \in 0 .. MaxSecrets
    <3>1. Mint
      BY <1>5 DEF SubmitChange
    <3>2. "change" \in Ops
      BY DEF Ops
    <3>3. /\ Minted("change") \in Secrets /\ ~Known(Minted("change")) /\ minted' \in 0 .. MaxSecrets
          /\ account.password \in Secrets \cup {None} /\ held \in Tokens \cup {NoToken}
      BY <1>0, <1>1, <3>1, <3>2 DEF TypeOK
    <3>. QED  BY <2>1, <3>2, <3>3 DEF Call, CallType
  <2>3. /\ Mint /\ calls' = calls \cup {new} /\ SettingsShown(tab) /\ tab.enrolled
        /\ change.busy = FALSE /\ change'.busy = TRUE /\ change'.success = None
        /\ change' \in [busy : BOOLEAN, success : Secrets \cup {None}]
        /\ UNCHANGED <<account, tokens, issued, tab, held, enrol, recover, regen, saved, heard>>
    BY <1>0, <1>5, <2>1, ScreenFacts DEF SubmitChange, Start, TypeOK, serverVars
  <2>4. FreshInv'
    BY <1>0, <2>2, <2>3, FreshMint DEF Ops
  <2>5. FormInv'
    <3>1. /\ ~Awaits("change") /\ Awaits("change")'
          /\ \A op \in Ops \ {"change"} : Awaits(op) => Awaits(op)'
      BY <2>3 DEF Awaits, Ops
    <3>2. Form(new.op) \in Mounted(tab)
      BY <1>0, <2>2, <2>3, FormFacts, MountedFacts
    <3>. QED  BY <1>0, <2>2, <2>3, <3>1, <3>2, StartForms DEF FormInv
  <2>6. TypeOK'
    BY <1>0, <2>2, <2>3 DEF TypeOK
  <2>7. EnrolInv' /\ CodeInv' /\ PasswordInv'
    BY <2>2, <2>3, StartKeeps DEF serverVars
  <2>. QED  BY <2>4, <2>5, <2>6, <2>7 DEF CredentialsInv
<1>6. ASSUME NEW code \in saved, SubmitCode(code) PROVE CredentialsInv'
  <2>1. PICK new : new = Call("redeem", code, NoToken, TRUE)
    OBVIOUS
  <2>2. /\ new \in CallType /\ new.op = "redeem" /\ new.secret = code
        /\ new.current = account.password /\ new.at = "sent" /\ new.waits = "form"
    <3>1. "redeem" \in Ops /\ code \in Secrets /\ account.password \in Secrets \cup {None}
      BY <1>0 DEF Ops, TypeOK
    <3>. QED  BY <2>1, <3>1 DEF Call, CallType
  <2>3. /\ calls' = calls \cup {new} /\ Screen = "recover" /\ tab.enrolled /\ tab.recovering
        /\ recover.st = "code" /\ recover'.st = "checking" /\ recover'.code = recover.code
        /\ recover' \in [st : {"code", "checking", "password", "setting", "new-code"},
                          code : Secrets \cup {None}, confirmed : BOOLEAN]
        /\ held' = NoToken
        /\ UNCHANGED <<account, tokens, issued, minted, tab, enrol, regen, change, saved, heard>>
    BY <1>0, <1>6, <2>1, ScreenFacts DEF SubmitCode, Start, Screen, TypeOK, serverVars
  <2>4. FreshInv'
    <3>1. \A y : Known(y)' <=> Known(y)
      BY <2>3 DEF Known
    <3>2. \A c \in calls' : /\ Known(c.secret) /\ Known(c.current)
                            /\ IF c.op = "redeem" THEN c.secret \in saved' ELSE c.secret.op = c.op
      BY <1>0, <2>2, <2>3 DEF FreshInv
    <3>3. ASSUME NEW c \in calls', NEW d \in calls', c.op = d.op, c.secret = d.secret,
                 c.op = "change"
                   \/ (c.op = "complete" /\ c.waits = "form" /\ c.at \in {"sent", "refused"})
          PROVE  c = d
      BY <1>0, <2>2, <2>3, <3>3 DEF FreshInv
    <3>. QED  BY <1>0, <2>3, <3>1, <3>2, <3>3 DEF FreshInv
  <2>5. FormInv'
    <3>1. /\ ~Awaits("redeem") /\ Awaits("redeem")'
          /\ \A op \in Ops \ {"redeem"} : Awaits(op) => Awaits(op)'
      BY <2>3 DEF Awaits, Ops
    <3>2. Form(new.op) \in Mounted(tab)
      BY <1>0, <2>2, <2>3, FormFacts, MountedFacts
    <3>. QED  BY <1>0, <2>2, <2>3, <3>1, <3>2, StartForms DEF FormInv
  <2>6. TypeOK'
    BY <1>0, <2>2, <2>3 DEF TypeOK
  <2>7. EnrolInv' /\ CodeInv' /\ PasswordInv'
    BY <2>2, <2>3, StartKeeps DEF serverVars
  <2>. QED  BY <2>4, <2>5, <2>6, <2>7 DEF CredentialsInv
<1>. QED  BY <1>2, <1>3, <1>4, <1>5, <1>6

-----------------------------------------------------------------------------
(***************************************************************************)
(* One call goes on or ends: what the server does, and how it settles.     *)
(***************************************************************************)
GoesOn(call, new) ==
    /\ call \in calls /\ new \in CallType /\ new.op = call.op
    /\ new.secret = call.secret /\ new.current = call.current /\ new.auth = call.auth
    /\ new.at = "sent" => call.at = "sent"
    /\ new.waits = "form" => call.waits = "form"
    /\ calls \ {call} \subseteq calls' /\ calls' \subseteq (calls \ {call}) \cup {new}

\* Once enrolled, no enrolment is under way.
LEMMA NoLateEnrolment ==
    ASSUME TypeOK, FormInv, tab.enrolled
    PROVE  \A c \in calls : c.op = "enrol" => c.waits = "nobody" /\ c.at = "sent"
<1>1. tab \in TabType /\ calls \subseteq CallType
  BY DEF TypeOK, TabType
<1>. QED  BY <1>1, FormFacts, MountedFacts DEF FormInv, CallType

\* A call of another kind leaves the state of the enrolment as it was.
LEMMA EnrolKept ==
    ASSUME TypeOK, FormInv, EnrolInv, NEW call, NEW new, GoesOn(call, new),
           UNCHANGED tab, account'.active = account.active,
           account'.code = account.code \/ tab.enrolled,
           heard' = heard \/ tab.enrolled,
           call.op = "enrol" /\ new.at = "committed" => call.at = "committed",
           enrol' = enrol \/ (enrol.st # "code" /\ enrol'.st # "code")
    PROVE  EnrolInv'
<1>0. /\ \A c \in calls' : c \in calls \/ c = new
      /\ call \in calls /\ new.op = call.op /\ new.secret = call.secret
  BY DEF GoesOn
<1>1. CASE tab.enrolled
  <2>1. \A c \in calls' : c.op = "enrol" => c.at # "committed"
    BY <1>0, <1>1, NoLateEnrolment
  <2>2. enrol.st = "gone"
    BY <1>1 DEF FormInv
  <2>. QED  BY <1>1, <2>1, <2>2 DEF EnrolInv
<1>2. CASE ~tab.enrolled
  <2>1. \A c \in calls' : c.op = "enrol" /\ c.at = "committed" => account.active /\ account.code = c.secret
    BY <1>0 DEF EnrolInv
  <2>2. \A c \in calls' : c.op = "enrol"
    BY <1>0, <1>2 DEF EnrolInv
  <2>. QED  BY <1>2, <2>1, <2>2 DEF EnrolInv
<1>. QED  BY <1>1, <1>2 DEF TypeOK

\* A call of another kind leaves the codes as they were.
LEMMA CodesKept ==
    ASSUME TypeOK, CodeInv, NEW call, NEW new, GoesOn(call, new), call.op # "complete",
           account'.code = account.code, tokens' = tokens, saved' = saved,
           heard' = heard \/ (heard' = heard \cup {call.secret} /\ call.secret.op # "enrol"),
           enrol'.code = enrol.code, recover'.code = recover.code,
           recover'.st = "new-code" => recover' = recover
    PROVE  CodeInv'
<1>0. /\ \A c \in calls' : c \in calls \/ c = new
      /\ call \in calls /\ new.op = call.op /\ new.auth = call.auth
      /\ (new.at = "sent" => call.at = "sent")
      /\ \A c \in calls : c.op = "complete" => c \in calls'
  BY DEF GoesOn
<1>1. \A code : Stands(code) => Stands(code)'
  BY <1>0 DEF Stands
<1>2. \A code : Kept(code) => Kept(code)'
  BY <1>0 DEF Kept
<1>3. \A c \in calls' : c.op = "complete" => c \in calls
  BY <1>0
<1>4. account'.code.op = "enrol" /\ account'.code \in heard'
         => account'.code \in saved' \cup {enrol'.code}
  BY DEF CodeInv
<1>. QED  BY <1>1, <1>2, <1>3, <1>4 DEF CodeInv

\* A call of another kind leaves the passwords as they were.
LEMMA PasswordsKept ==
    ASSUME TypeOK, PasswordInv, NEW call, NEW new, GoesOn(call, new),
           call.op # "change" \/ new.waits # "form" \/ new.at \notin {"sent", "committed"},
           account'.password = account.password, UNCHANGED tab,
           change' = change \/ change'.success = None
    PROVE  PasswordInv'
<1>0. /\ \A c \in calls' : c \in calls \/ c = new
      /\ call \in calls /\ new.op = call.op /\ new.current = call.current
      /\ (new.at = "sent" => call.at = "sent")
  BY DEF GoesOn
<1>1. \A y : NoChangeFrom(y) => NoChangeFrom(y)'
  BY <1>0 DEF NoChangeFrom
<1>2. \A c \in calls' : c.op = "change" /\ c.waits = "form" /\ c.at \in {"sent", "committed"}
         => c \in calls
  BY <1>0
<1>3. \A c \in calls' : \E d \in calls : c.current = d.current
  BY <1>0
<1>4. \A c \in calls' : c.op = "change" /\ c.waits = "form" /\ c.at = "sent" =>
         account'.password # c.secret /\ \A d \in calls' : d.current # c.secret
  BY <1>2, <1>3 DEF PasswordInv
<1>. QED  BY <1>1, <1>2, <1>4 DEF PasswordInv

\* A server's answer leaves the forms waiting as they were.
LEMMA ServerForms ==
    ASSUME TypeOK, FormInv, NEW call, NEW new, GoesOn(call, new), new.waits = call.waits,
           new \in calls' => new.waits # "nobody", UNCHANGED <<tab, formVars>>
    PROVE  FormInv'
<1>0. /\ \A c \in calls' : (c \in calls /\ c # call) \/ c = new
      /\ call \in calls /\ new.op = call.op
      /\ UNCHANGED <<tab, enrol, recover, regen, change>>
  BY DEF GoesOn, formVars
<1>1. \A op : Awaits(op) => Awaits(op)'
  BY <1>0 DEF Awaits
<1>2. \A c \in calls' : c.waits = "form" => Form(c.op) \in Mounted(tab') /\ Awaits(c.op)'
  BY <1>0, <1>1 DEF FormInv
<1>3. \A c, d \in calls' : c.waits = "form" /\ d.waits = "form" /\ c.op = d.op => c = d
  BY <1>0 DEF FormInv
<1>4. \A c \in calls' : /\ c.op \in {"enrol", "complete"} => c.waits # "promise"
                        /\ c.waits = "nobody" => c.at = "sent"
  BY <1>0 DEF FormInv
<1>5. /\ tab'.enrolled => enrol'.st = "gone"
      /\ Screen' # "recover" => recover' = BlankRecover
      /\ ~SettingsShown(tab') => regen' = BlankRegen /\ change' = BlankChange
      /\ change'.success # None => ~change'.busy
  BY <1>0 DEF FormInv, Screen
<1>. QED  BY <1>2, <1>3, <1>4, <1>5 DEF FormInv

\* The server refuses or carries out a request of any kind but a completion.
LEMMA ServerKeeps ==
    ASSUME CredentialsInv, NEW call \in calls,
           \/ Refuse(call) \/ CommitEnrol(call) \/ CreateRecoveryToken(call)
           \/ CommitRegen(call) \/ CommitChange(call)
    PROVE  CredentialsInv'
<1>0. /\ TypeOK /\ FreshInv /\ FormInv /\ EnrolInv /\ CodeInv /\ PasswordInv
      /\ tab \in TabType /\ call \in CallType /\ calls \subseteq CallType
  BY DEF CredentialsInv, TypeOK, TabType
<1>1. ASSUME NEW at \in {"committed", "refused"}, ServerSays(call, at)
      PROVE  \E new : /\ GoesOn(call, new) /\ new.at = at /\ new.waits = call.waits
                      /\ (new \in calls' => new.waits # "nobody")
                      /\ calls' \subseteq CallType
  <2>. DEFINE new == [call EXCEPT !.at = at]
  <2>1. /\ new \in CallType /\ new.at = at /\ new.op = call.op /\ new.secret = call.secret
        /\ new.current = call.current /\ new.auth = call.auth /\ new.waits = call.waits
    BY <1>0, <1>1 DEF CallType
  <2>2. calls' = IF call.waits = "nobody" THEN calls \ {call} ELSE (calls \ {call}) \cup {new}
    BY <1>1 DEF ServerSays, Becomes
  <2>. HIDE DEF new
  <2>3. GoesOn(call, new)
    BY <1>0, <1>1, <2>1, <2>2 DEF GoesOn
  <2>4. new \in calls' => new.waits # "nobody"
    BY <1>0, <1>1, <2>1, <2>2 DEF FormInv
  <2>5. calls' \subseteq CallType
    BY <1>0, <2>1, <2>2
  <2>. QED  BY <2>1, <2>3, <2>4, <2>5
\* What every such step has in common.
<1>2. ASSUME NEW new, GoesOn(call, new), new.at # "sent", new.waits = call.waits,
             new.waits = "form" /\ new.at = "refused" => call.at = "sent",
             new \in calls' => new.waits # "nobody",
             UNCHANGED <<minted, tab, formVars, saved, heard>>,
             account'.code \in {account.code, call.secret},
             account'.password \in {account.password, call.secret}
      PROVE  FreshInv' /\ FormInv'
  <2>1. /\ new \in CallType /\ new.op = call.op /\ new.secret = call.secret
        /\ new.current = call.current /\ calls' \subseteq (calls \ {call}) \cup {new}
    BY <1>2 DEF GoesOn
  <2>2. FormInv'
    BY <1>0, <1>2, ServerForms
  <2>3. UNCHANGED <<enrol, recover, regen, minted, saved, heard>>
    BY <1>2 DEF formVars
  <2>4. new.waits = "form" /\ new.at \in {"sent", "refused"}
           => call.waits = "form" /\ call.at \in {"sent", "refused"}
    BY <1>2
  <2>5. FreshInv'
    BY <1>0, <1>2, <2>1, <2>3, <2>4, FreshOne
  <2>. QED  BY <2>2, <2>5
<1>3. CASE Refuse(call)
  <2>1. PICK new : /\ GoesOn(call, new) /\ new.at = "refused" /\ new.waits = call.waits
                   /\ (new \in calls' => new.waits # "nobody") /\ calls' \subseteq CallType
    BY <1>1, <1>3 DEF Refuse
  <2>2. /\ UNCHANGED <<account, tokens, issued, minted, tab, held, formVars, saved, heard>>
        /\ UNCHANGED <<enrol, recover, regen, change>> /\ call.at = "sent"
    BY <1>3 DEF Refuse, serverVars, formVars
  <2>3. FreshInv' /\ FormInv'
    BY <1>2, <2>1, <2>2
  <2>4. TypeOK'
    BY <1>0, <2>1, <2>2 DEF TypeOK
  <2>5. EnrolInv'
    BY <1>0, <2>1, <2>2, EnrolKept
  <2>6. CodeInv'
    <3>1. CASE call.op # "complete"
      BY <1>0, <2>1, <2>2, <3>1, CodesKept
    <3>2. CASE call.op = "complete"
      <4>0. /\ \A c \in calls' : c \in calls \/ c = new
            /\ new.op = "complete" /\ new.secret = call.secret
            /\ \A c \in calls : c # call => c \in calls'
        BY <2>1, <3>2 DEF GoesOn
      <4>1. \A code : Stands(code) => Stands(code)'
        BY <2>2, <4>0 DEF Stands
      <4>2. \A code : Kept(code) => Kept(code)'
        BY <2>2, <4>0 DEF Kept
      <4>3. new \in calls' => new.waits = "form" /\ call.waits = "form"
        BY <1>0, <2>1, <3>2, <2>2 DEF FormInv, CallType
      <4>4. \A c \in calls' : c.op = "complete" /\ c.waits = "form" =>
              c.secret \notin saved' /\ (c.at \in {"sent", "refused"} => account'.code # c.secret)
        BY <1>0, <2>1, <2>2, <3>2, <4>0, <4>3 DEF CodeInv
      <4>5. \A c \in calls' : c.op = "complete" /\ c.at \in {"committed", "confirmed"}
               => Stands(c.secret)'
        BY <1>0, <2>1, <4>0, <4>1 DEF CodeInv
      <4>6. \A c \in calls' : c.op = "complete" /\ c.waits = "nobody" => Kept(c.secret)'
        BY <1>0, <4>0, <4>2, <4>3 DEF CodeInv
      <4>. QED  BY <1>0, <2>2, <4>1, <4>2, <4>4, <4>5, <4>6 DEF CodeInv
    <3>. QED  BY <3>1, <3>2
  <2>7. PasswordInv'
    BY <1>0, <2>1, <2>2, PasswordsKept
  <2>. QED  BY <2>3, <2>4, <2>5, <2>6, <2>7 DEF CredentialsInv
<1>4. CASE CommitEnrol(call)
  <2>1. PICK new : /\ GoesOn(call, new) /\ new.at = "committed" /\ new.waits = call.waits
                   /\ (new \in calls' => new.waits # "nobody") /\ calls' \subseteq CallType
    BY <1>1, <1>4 DEF CommitEnrol
  <2>2. /\ UNCHANGED <<tokens, issued, minted, tab, held, formVars, saved, heard>>
        /\ UNCHANGED <<enrol, recover, regen, change>> /\ call.op = "enrol"
        /\ ~account.active
        /\ account'.active = TRUE /\ account'.code = call.secret /\ account'.password = call.secret
        /\ account' \in [active : BOOLEAN, code : Secrets \cup {None},
                          password : Secrets \cup {None}]
    BY <1>0, <1>4 DEF CommitEnrol, Serve, formVars, CallType
  <2>3. /\ \A c \in calls' : c \in calls \/ c = new
        /\ new.op = "enrol" /\ new.secret = call.secret
    BY <2>1, <2>2 DEF GoesOn
  <2>4. ~tab.enrolled /\ enrol.st # "code" /\ heard = {}
    BY <1>0, <2>2 DEF EnrolInv
  <2>5. \A c \in calls' : c.op = "enrol"
    BY <1>0, <2>3, <2>4 DEF EnrolInv
  <2>6. FreshInv' /\ FormInv'
    BY <1>2, <2>1, <2>2
  <2>7. TypeOK'
    BY <1>0, <2>1, <2>2 DEF TypeOK
  <2>8. EnrolInv'
    <3>1. \A c \in calls' : c.at = "committed" => c = new
      BY <1>0, <2>2, <2>3, <2>4 DEF EnrolInv
    <3>. QED  BY <2>2, <2>3, <2>4, <2>5, <3>1 DEF EnrolInv
  <2>9. recover = BlankRecover /\ change = BlankChange
    BY <1>0, <2>4, ScreenFacts DEF FormInv, Screen
  <2>10. call.secret.op = "enrol"
    BY <1>0, <2>2 DEF FreshInv
  <2>11. CodeInv'
    BY <2>2, <2>4, <2>5, <2>9, <2>10 DEF CodeInv, BlankRecover
  <2>12. PasswordInv'
    BY <2>2, <2>5, <2>9 DEF PasswordInv, BlankChange
  <2>. QED  BY <2>6, <2>7, <2>8, <2>11, <2>12 DEF CredentialsInv
\* Anything but an enrolment happens once enrolled.
<1>5. call.op # "enrol" => tab.enrolled
  BY <1>0 DEF EnrolInv, TypeOK
<1>6. CASE CreateRecoveryToken(call)
  <2>. DEFINE new == [call EXCEPT !.at = "committed", !.token = issued + 1]
  <2>1. /\ issued' = issued + 1 /\ issued' \in 0 .. MaxTokens /\ issued + 1 \in Tokens
        /\ tokens' = tokens \cup {issued + 1} /\ call.op = "redeem" /\ call.at = "sent"
        /\ call.secret = account.code
        /\ UNCHANGED <<account, minted, tab, held, formVars, saved, heard>>
        /\ UNCHANGED <<enrol, recover, regen, change>>
        /\ calls' = IF call.waits = "nobody" THEN calls \ {call} ELSE (calls \ {call}) \cup {new}
    BY <1>0, <1>6, SecretFacts DEF CreateRecoveryToken, Serve, Tokens, TypeOK, formVars
  <2>2. /\ new \in CallType /\ new.at = "committed" /\ new.op = "redeem" /\ new.secret = call.secret
        /\ new.current = call.current /\ new.auth = call.auth /\ new.waits = call.waits
    BY <1>0, <2>1 DEF CallType
  <2>. HIDE DEF new
  <2>3. GoesOn(call, new) /\ (new \in calls' => new.waits # "nobody") /\ calls' \subseteq CallType
    BY <1>0, <2>1, <2>2 DEF GoesOn, FormInv
  <2>4. FreshInv' /\ FormInv'
    BY <1>2, <2>1, <2>2, <2>3
  <2>5. TypeOK'
    BY <1>0, <2>1, <2>3 DEF TypeOK
  <2>6. EnrolInv'
    BY <1>0, <2>1, <2>2, <2>3, EnrolKept
  <2>7. \A code : ~Stands(code)
    BY <1>0, <2>1 DEF FreshInv, Stands
  <2>8. CodeInv'
    <3>1. /\ \A c \in calls' : c.op = "complete" => c \in calls
          /\ \A c \in calls : c.op = "complete" => c \in calls'
      BY <2>1, <2>2
    <3>2. \A code : Kept(code) => Kept(code)'
      BY <2>1, <3>1 DEF Kept
    <3>. QED  BY <1>0, <2>1, <2>7, <3>1, <3>2 DEF CodeInv
  <2>9. PasswordInv'
    BY <1>0, <2>1, <2>2, <2>3, PasswordsKept
  <2>. QED  BY <2>4, <2>5, <2>6, <2>8, <2>9 DEF CredentialsInv
<1>7. CASE CommitRegen(call)
  <2>1. PICK new : /\ GoesOn(call, new) /\ new.at = "committed" /\ new.waits = call.waits
                   /\ (new \in calls' => new.waits # "nobody") /\ calls' \subseteq CallType
    BY <1>1, <1>7 DEF CommitRegen
  <2>2. /\ UNCHANGED <<tokens, issued, minted, tab, held, formVars, saved, heard>>
        /\ UNCHANGED <<enrol, recover, regen, change>>
        /\ call.op = "regenerate" /\ call.at = "sent" /\ call.auth
        /\ account'.active = account.active /\ account'.code = call.secret
        /\ account'.password = account.password
        /\ account' \in [active : BOOLEAN, code : Secrets \cup {None},
                          password : Secrets \cup {None}]
    BY <1>0, <1>7 DEF CommitRegen, Serve, formVars, CallType, TypeOK
  <2>3. /\ \A c \in calls' : c \in calls \/ c = new
        /\ new.op = "regenerate" /\ \A c \in calls : c # call => c \in calls'
    BY <2>1, <2>2 DEF GoesOn
  <2>4. FreshInv' /\ FormInv'
    BY <1>2, <2>1, <2>2
  <2>5. TypeOK'
    BY <1>0, <2>1, <2>2 DEF TypeOK
  <2>6. EnrolInv'
    BY <1>0, <1>5, <2>1, <2>2, EnrolKept
  <2>7. call.secret.op = "regenerate" /\ \A c \in calls : c.op = "complete" => c.secret.op = "complete"
    BY <1>0, <2>2 DEF FreshInv
  <2>8. CodeInv'
    <3>1. \A code : ~Stands(code)
      BY <2>2 DEF Stands
    <3>2. \A code : Kept(code) => Kept(code)'
      BY <2>2, <2>3 DEF Kept
    <3>3. \A c \in calls' : c.op = "complete" => c \in calls /\ c.secret # call.secret
      BY <2>3, <2>7
    <3>. QED  BY <1>0, <2>2, <2>7, <3>1, <3>2, <3>3 DEF CodeInv
  <2>9. PasswordInv'
    BY <1>0, <2>1, <2>2, PasswordsKept
  <2>. QED  BY <2>4, <2>5, <2>6, <2>8, <2>9 DEF CredentialsInv
<1>8. CASE CommitChange(call)
  <2>1. PICK new : /\ GoesOn(call, new) /\ new.at = "committed" /\ new.waits = call.waits
                   /\ (new \in calls' => new.waits # "nobody") /\ calls' \subseteq CallType
    BY <1>1, <1>8 DEF CommitChange
  <2>2. /\ UNCHANGED <<tokens, issued, minted, tab, held, formVars, saved, heard>>
        /\ UNCHANGED <<enrol, recover, regen, change>>
        /\ call.op = "change" /\ call.at = "sent" /\ call.current = account.password
        /\ account'.active = account.active /\ account'.password = call.secret
        /\ account'.code = account.code
        /\ account' \in [active : BOOLEAN, code : Secrets \cup {None},
                          password : Secrets \cup {None}]
    BY <1>0, <1>8 DEF CommitChange, Serve, formVars, CallType, TypeOK
  <2>3. /\ \A c \in calls' : (c \in calls /\ c # call) \/ c = new
        /\ new.op = "change" /\ new.secret = call.secret /\ new.current = call.current
    BY <2>1, <2>2 DEF GoesOn
  <2>4. FreshInv' /\ FormInv'
    BY <1>2, <2>1, <2>2
  <2>5. TypeOK'
    BY <1>0, <2>1, <2>2 DEF TypeOK
  <2>6. EnrolInv'
    BY <1>0, <2>1, <2>2, EnrolKept
  <2>7. CodeInv'
    BY <1>0, <2>1, <2>2, CodesKept
  <2>8. PasswordInv'
    <3>1. \A c \in calls' : c.op = "change" /\ c.waits = "form" /\ c.at = "sent" =>
            /\ c \in calls /\ c # call /\ c.secret # call.secret
            /\ \A d \in calls : d.current # c.secret
      BY <1>0, <2>1, <2>2, <2>3 DEF PasswordInv, FreshInv
    <3>2. \A c \in calls' : \E d \in calls : c.current = d.current
      BY <2>3
    <3>3. \A c \in calls' : c.op = "change" /\ c.waits = "form" /\ c.at = "sent" =>
            account'.password # c.secret /\ \A d \in calls' : d.current # c.secret
      BY <2>2, <3>1, <3>2
    \* Made from the password of the moment, the change is the only one confirmed.
    <3>4. tab.session = "live" =>
            \A c \in calls : ~(c.op = "change" /\ c.waits = "form" /\ c.at = "committed")
      BY <1>0, <2>2 DEF PasswordInv, NoChangeFrom
    <3>5. tab.session = "live" => change.success = None
      BY <1>0, <2>2 DEF PasswordInv, NoChangeFrom
    <3>6. call.waits = "form" => NoChangeFrom(call.secret)'
      BY <1>0, <2>2, <2>3 DEF PasswordInv, NoChangeFrom
    <3>. QED  BY <2>1, <2>2, <2>3, <3>3, <3>4, <3>5, <3>6 DEF PasswordInv
  <2>. QED  BY <2>4, <2>5, <2>6, <2>7, <2>8 DEF CredentialsInv
<1>. QED  BY <1>3, <1>4, <1>6, <1>7, <1>8

\* A call whose session, if it needs one, was revoked.
Revoked(c) == [c EXCEPT !.auth = IF c.op \in {"regenerate", "change"} THEN FALSE ELSE @]

\* Revoking changes the authority of a call, and nothing else of it.
LEMMA RevokedFacts ==
    ASSUME NEW c \in CallType
    PROVE  /\ Revoked(c) \in CallType
           /\ Revoked(c).op = c.op /\ Revoked(c).secret = c.secret /\ Revoked(c).at = c.at
           /\ Revoked(c).current = c.current /\ Revoked(c).waits = c.waits
           /\ c.op = "regenerate" => ~Revoked(c).auth
           /\ c.op \in {"enrol", "redeem", "complete"} => Revoked(c) = c
  BY DEF Revoked, CallType

\* CompleteRecovery carried out, awaited or given up: the code it sets is in the
\* form or was kept, and no token, session or other code can replace it.
LEMMA CompletionKeeps ==
    ASSUME CredentialsInv, NEW call \in calls, CommitComplete(call)
    PROVE  CredentialsInv'
<1>. DEFINE new == [call EXCEPT !.at = "committed"]
            base == IF call.waits = "nobody" THEN calls \ {call} ELSE (calls \ {call}) \cup {new}
<1>0. /\ TypeOK /\ FreshInv /\ FormInv /\ EnrolInv /\ CodeInv /\ PasswordInv
      /\ tab \in TabType /\ call \in CallType /\ calls \subseteq CallType
  BY DEF CredentialsInv, TypeOK, TabType
<1>1. /\ call.op = "complete" /\ call.at = "sent" /\ call.token \in tokens
      /\ tokens' = {} /\ calls' = {Revoked(c) : c \in base}
      /\ UNCHANGED <<issued, minted, held, enrol, recover, regen, change, saved, heard>>
  BY DEF CommitComplete, Serve, Becomes, RevokedCalls, Revoked, formVars
<1>2. /\ account'.active = account.active /\ account'.code = call.secret
      /\ account'.password = call.secret
      /\ account' \in [active : BOOLEAN, code : Secrets \cup {None},
                        password : Secrets \cup {None}]
  BY <1>0 DEF CommitComplete, TypeOK, CallType
<1>3. /\ tab' \in TabType /\ tab'.enrolled = tab.enrolled /\ tab'.recovering = tab.recovering
      /\ tab'.settings = tab.settings /\ tab'.session # "live"
      /\ (tab'.session = "none" <=> tab.session = "none")
  BY <1>0 DEF CommitComplete, TabType
<1>4. ScreenOf(tab') = ScreenOf(tab) /\ (SettingsShown(tab') <=> SettingsShown(tab))
  BY <1>3 DEF ScreenOf, SettingsShown
<1>5. /\ new \in CallType /\ new.op = "complete" /\ new.secret = call.secret
      /\ new.current = call.current /\ new.waits = call.waits /\ new.at = "committed"
  BY <1>0, <1>1 DEF CallType
<1>6. \A c \in base : \/ c \in calls /\ c # call
                      \/ c = new /\ call.waits # "nobody"
  OBVIOUS
<1>7. /\ \A c \in calls : c # call => c \in base
      /\ call.waits # "nobody" => new \in base
  OBVIOUS
<1>. HIDE DEF new, base
<1>8. call.waits \in {"form", "nobody"} /\ tab.enrolled
  BY <1>0, <1>1 DEF FormInv, EnrolInv, CallType, TypeOK
<1>9. \A c \in base : c \in CallType
  BY <1>0, <1>5, <1>6
<1>10. \A c \in calls' : \E d \in base : c = Revoked(d)
  BY <1>1
<1>11. \A d \in base : /\ Revoked(d) \in CallType /\ Revoked(d).op = d.op
                       /\ Revoked(d).secret = d.secret /\ Revoked(d).at = d.at
                       /\ Revoked(d).current = d.current /\ Revoked(d).waits = d.waits
                       /\ (d.op = "regenerate" => ~Revoked(d).auth)
                       /\ (d.op \in {"enrol", "redeem", "complete"} => Revoked(d) = d)
                       /\ Revoked(d) \in calls'
  BY <1>1, <1>9, RevokedFacts
\* Completions are as they were, but for this one.
<1>12. /\ \A c \in calls' : c.op = "complete" => c \in base
       /\ \A c \in base : c.op = "complete" => c \in calls'
  BY <1>10, <1>11
\* No other completion was carried out: its token would be gone.
<1>13. \A code : ~Stands(code)
  BY <1>1 DEF Stands
<1>14. \A c \in calls : ~(c.op = "complete" /\ c.at \in {"committed", "confirmed"})
  BY <1>0, <1>13 DEF CodeInv
<1>15. \A c \in base : \E d \in calls : c.op = d.op /\ c.secret = d.secret /\ c.current = d.current
  BY <1>1, <1>5, <1>6
<1>16. TypeOK'
  <2>1. calls' \subseteq CallType
    BY <1>10, <1>11
  <2>. QED  BY <1>0, <1>1, <1>2, <1>3, <2>1 DEF TypeOK, TabType
<1>17. FreshInv'
  <2>1. \A y : Known(y)' <=> Known(y)
    BY <1>1 DEF Known
  <2>2. \A c \in calls' : /\ Known(c.secret) /\ Known(c.current)
                          /\ IF c.op = "redeem" THEN c.secret \in saved' ELSE c.secret.op = c.op
    BY <1>0, <1>1, <1>10, <1>11, <1>15 DEF FreshInv
  <2>3. ASSUME NEW c \in calls', NEW d \in calls', c.op = d.op, c.secret = d.secret,
               c.op = "change"
                 \/ (c.op = "complete" /\ c.waits = "form" /\ c.at \in {"sent", "refused"})
        PROVE  c = d
    <3>1. PICK c1 \in base, d1 \in base : c = Revoked(c1) /\ d = Revoked(d1)
      BY <1>10
    <3>2. /\ c1.op = d1.op /\ c1.secret = d1.secret
          /\ c1.op = "change" \/ (c1.op = "complete" /\ c1.waits = "form" /\ c1.at \in {"sent", "refused"})
      BY <1>11, <2>3, <3>1
    <3>3. c1 \in calls /\ c1 # call
      BY <1>5, <1>6, <3>2
    <3>4. d1 \in calls
      BY <1>0, <1>1, <1>5, <1>6, <3>2, <3>3 DEF FreshInv
    <3>5. c1 = d1
      BY <1>0, <3>2, <3>3, <3>4 DEF FreshInv
    <3>. QED  BY <3>1, <3>5
  <2>4. Known(account'.code) /\ Known(account'.password)
    BY <1>0, <1>2 DEF FreshInv
  <2>5. \A y \in saved' \cup heard' \cup {enrol'.code, recover'.code, regen'.code} : Known(y)
    BY <1>0, <1>1 DEF FreshInv
  <2>. QED  BY <2>1, <2>2, <2>3, <2>4, <2>5 DEF FreshInv
<1>18. FormInv'
  <2>1. \A op : Awaits(op) => Awaits(op)'
    BY <1>1 DEF Awaits
  <2>2. Mounted(tab') = Mounted(tab)
    BY <1>4 DEF Mounted
  <2>3. \A d \in base : d.waits = "form" => Form(d.op) \in Mounted(tab) /\ Awaits(d.op)
    BY <1>0, <1>1, <1>5, <1>6 DEF FormInv
  <2>4. \A c \in calls' : c.waits = "form" => Form(c.op) \in Mounted(tab') /\ Awaits(c.op)'
    BY <1>10, <1>11, <2>1, <2>2, <2>3
  <2>5. \A c, d \in base : c.waits = "form" /\ d.waits = "form" /\ c.op = d.op => c = d
    BY <1>0, <1>1, <1>5, <1>6 DEF FormInv
  <2>6. \A c, d \in calls' : c.waits = "form" /\ d.waits = "form" /\ c.op = d.op => c = d
    BY <1>10, <1>11, <2>5
  <2>7. \A d \in base : /\ d.op \in {"enrol", "complete"} => d.waits # "promise"
                        /\ d.waits = "nobody" => d.at = "sent"
    BY <1>0, <1>5, <1>6, <1>8 DEF FormInv
  <2>8. \A c \in calls' : /\ c.op \in {"enrol", "complete"} => c.waits # "promise"
                          /\ c.waits = "nobody" => c.at = "sent"
    BY <1>10, <1>11, <2>7
  <2>9. /\ tab'.enrolled => enrol'.st = "gone"
        /\ Screen' # "recover" => recover' = BlankRecover
        /\ ~SettingsShown(tab') => regen' = BlankRegen /\ change' = BlankChange
        /\ change'.success # None => ~change'.busy
    BY <1>0, <1>1, <1>3, <1>4 DEF FormInv, Screen
  <2>. QED  BY <2>4, <2>6, <2>8, <2>9 DEF FormInv
<1>19. EnrolInv'
  <2>1. \A c \in calls' : ~(c.op = "enrol" /\ c.at = "committed")
    BY <1>0, <1>5, <1>6, <1>8, <1>10, <1>11, NoLateEnrolment
  <2>2. enrol.st = "gone" /\ account.active
    BY <1>0, <1>8 DEF FormInv, EnrolInv
  <2>. QED  BY <1>1, <1>2, <1>3, <1>8, <2>1, <2>2 DEF EnrolInv
<1>20. CodeInv'
  <2>1. \A c \in calls' : c.op = "complete" /\ c.waits = "form" =>
          c.secret \notin saved' /\ (c.at \in {"sent", "refused"} => account'.code # c.secret)
    BY <1>0, <1>1, <1>2, <1>5, <1>6, <1>12 DEF CodeInv, FreshInv
  <2>2. call.waits = "form" => Stands(call.secret)'
    <3>1. call.waits = "form" => call.secret \notin saved'
      BY <1>0, <1>1 DEF CodeInv
    <3>2. \A c \in calls' : c.op = "regenerate" => ~c.auth
      BY <1>10, <1>11
    <3>. QED  BY <1>1, <1>2, <3>1, <3>2 DEF Stands
  <2>3. \A c \in calls' : c.op = "complete" /\ c.at \in {"committed", "confirmed"}
           => Stands(c.secret)'
    BY <1>5, <1>6, <1>8, <1>12, <1>14, <2>2
  <2>4. ~(recover'.st = "new-code" /\ recover'.confirmed)
    BY <1>0, <1>1, <1>13 DEF CodeInv
  <2>5. \A code : Kept(code) => Kept(code)'
    <3>1. \A c \in calls : c.op = "complete" /\ c.at \notin {"sent", "refused"} => c \in calls'
      BY <1>1, <1>7, <1>12
    <3>. QED  BY <1>1, <3>1 DEF Kept
  <2>6. Kept(call.secret)'
    <3>1. CASE call.waits = "nobody"
      BY <1>0, <1>1, <2>5, <3>1 DEF CodeInv
    <3>2. CASE call.waits = "form"
      <4>1. new \in calls'
        BY <1>5, <1>7, <1>12, <3>2
      <4>. QED  BY <1>5, <3>2, <4>1 DEF Kept
    <3>. QED  BY <1>8, <3>1, <3>2
  <2>7. \A c \in calls' : c.op = "complete" /\ c.waits = "nobody" => Kept(c.secret)'
    BY <1>0, <1>5, <1>6, <1>12, <2>5, <2>6 DEF CodeInv
  <2>8. account'.code.op = "complete"
    BY <1>0, <1>1, <1>2 DEF FreshInv
  <2>. QED  BY <1>2, <2>1, <2>3, <2>4, <2>6, <2>7, <2>8 DEF CodeInv
<1>21. PasswordInv'
  <2>1. ASSUME NEW c \in calls', c.op = "change", c.waits = "form", c.at = "sent"
        PROVE  account'.password # c.secret /\ \A d \in calls' : d.current # c.secret
    <3>1. PICK c1 \in base : c = Revoked(c1)
      BY <1>10
    <3>2. /\ c1 \in calls /\ c1.op = "change" /\ c1.waits = "form" /\ c1.at = "sent"
          /\ c1.secret = c.secret
      BY <1>5, <1>6, <1>11, <2>1, <3>1
    <3>3. c.secret.op = "change" /\ call.secret.op = "complete"
      BY <1>0, <1>1, <3>2 DEF FreshInv
    <3>4. \A d \in calls : d.current # c.secret
      BY <1>0, <3>2 DEF PasswordInv
    <3>5. \A d \in calls' : \E e \in calls : d.current = e.current
      BY <1>10, <1>11, <1>15
    <3>. QED  BY <1>2, <3>3, <3>4, <3>5
  <2>. QED  BY <1>3, <2>1 DEF PasswordInv
<1>. QED  BY <1>16, <1>17, <1>18, <1>19, <1>20, <1>21 DEF CredentialsInv

-----------------------------------------------------------------------------
(***************************************************************************)
(* A call settles.                                                         *)
(***************************************************************************)

\* What is left of a call the client no longer waits for.
LEMMA SettledCall ==
    ASSUME TypeOK, FormInv, NEW call \in calls, calls' = Ended(call) \/ calls' = GivenUp(call)
    PROVE  \E new : /\ GoesOn(call, new) /\ new.waits = "nobody" /\ calls' \subseteq CallType
                    /\ (new \in calls' => new.at = "sent") /\ new.at = call.at
<1>. DEFINE new == [call EXCEPT !.waits = "nobody"]
<1>1. /\ call \in CallType /\ new \in CallType /\ new.op = call.op /\ new.secret = call.secret
      /\ new.current = call.current /\ new.auth = call.auth /\ new.waits = "nobody"
      /\ new.at = call.at
  BY DEF TypeOK, CallType
<1>2. \/ calls' = calls \ {call}
      \/ call.at = "sent" /\ calls' = (calls \ {call}) \cup {new}
  BY DEF Ended, GivenUp
<1>. HIDE DEF new
<1>3. call.at = "sent" \/ new \notin calls
  BY <1>1 DEF FormInv
<1>4. GoesOn(call, new) /\ calls' \subseteq CallType
  BY <1>1, <1>2 DEF GoesOn, TypeOK
<1>. QED  BY <1>1, <1>2, <1>3, <1>4

\* A form whose call settles waits no more; the others wait on.
LEMMA SettleForms ==
    ASSUME TypeOK, FormInv, NEW call, NEW new, GoesOn(call, new), new.waits = "nobody",
           new \in calls' => new.at = "sent", UNCHANGED tab,
           \A op \in Ops : op # call.op \/ call.waits # "form" => (Awaits(op) => Awaits(op)'),
           tab.enrolled => enrol' = enrol, Screen # "recover" => recover' = recover,
           ~SettingsShown(tab) => regen' = regen /\ change' = change,
           change'.success # None => ~change'.busy
    PROVE  FormInv'
<1>0. /\ \A c \in calls' : (c \in calls /\ c # call) \/ c = new
      /\ call \in calls /\ new.op = call.op
  BY DEF GoesOn
<1>1. ASSUME NEW c \in calls', c.waits = "form"
      PROVE  Form(c.op) \in Mounted(tab') /\ Awaits(c.op)' /\ c \in calls
  <2>1. c \in calls /\ c # call /\ c.op \in Ops
    BY <1>0, <1>1 DEF TypeOK, CallType
  <2>2. c.op # call.op \/ call.waits # "form"
    BY <1>0, <1>1, <2>1 DEF FormInv
  <2>. QED  BY <1>1, <2>1, <2>2 DEF FormInv
<1>2. \A c, d \in calls' : c.waits = "form" /\ d.waits = "form" /\ c.op = d.op => c = d
  BY <1>1 DEF FormInv
<1>3. \A c \in calls' : /\ c.op \in {"enrol", "complete"} => c.waits # "promise"
                        /\ c.waits = "nobody" => c.at = "sent"
  BY <1>0 DEF FormInv
<1>4. /\ tab'.enrolled => enrol'.st = "gone"
      /\ Screen' # "recover" => recover' = BlankRecover
      /\ ~SettingsShown(tab') => regen' = BlankRegen /\ change' = BlankChange
  BY DEF FormInv, Screen
<1>. QED  BY <1>1, <1>2, <1>3, <1>4 DEF FormInv


\* An answer, a refusal or a failure of any call but those that sign in, in a
\* screen that is still shown or was left.
LEMMA SettlesKeep ==
    ASSUME CredentialsInv, NEW call \in calls,
           \/ EnrolFails(call) \/ Redeemed(call) \/ RedeemFails(call)
           \/ Handoff(call) \/ CompleteRefused(call)
           \/ RegenAnswered(call) \/ RegenFails(call)
           \/ ChangeAnswered(call) \/ ChangeFails(call)
    PROVE  CredentialsInv'
<1>0. /\ TypeOK /\ FreshInv /\ FormInv /\ EnrolInv /\ CodeInv /\ PasswordInv
      /\ tab \in TabType /\ call \in CallType /\ calls \subseteq CallType
  BY DEF CredentialsInv, TypeOK, TabType
<1>1. PICK new : /\ GoesOn(call, new) /\ new.waits = "nobody" /\ calls' \subseteq CallType
                 /\ (new \in calls' => new.at = "sent") /\ new.at = call.at
  <2>1. calls' = Ended(call) \/ calls' = GivenUp(call)
    BY DEF EnrolFails, Redeemed, RedeemFails, Handoff, CompleteRefused, RegenAnswered,
           RegenFails, ChangeAnswered, ChangeFails
  <2>. QED  BY <1>0, <2>1, SettledCall
<1>2. /\ UNCHANGED <<account, tokens, issued, minted, tab, saved>>
      /\ call.waits # "nobody" /\ held' \in {held, call.token}
  BY DEF EnrolFails, Redeemed, RedeemFails, Handoff, CompleteRefused, RegenAnswered,
         RegenFails, ChangeAnswered, ChangeFails, Pending, serverVars
<1>3. /\ new \in CallType /\ new.op = call.op /\ new.secret = call.secret
      /\ new.current = call.current /\ calls' \subseteq (calls \ {call}) \cup {new}
      /\ \A c \in calls : c # call => c \in calls'
      /\ \A c \in calls' : (c \in calls /\ c # call) \/ c = new
  BY <1>1 DEF GoesOn
<1>4. ASSUME {enrol'.code, recover'.code, regen'.code}
                \subseteq {enrol.code, recover.code, regen.code, None, call.secret},
             heard' \subseteq heard \cup {call.secret}
      PROVE  FreshInv'
  <2>1. ~(new.waits = "form" /\ new.at \in {"sent", "refused"})
    BY <1>1
  <2>. QED  BY <1>0, <1>2, <1>3, <1>4, <2>1, FreshOne
<1>5. /\ call.op \in {"enrol", "complete"} => call.waits = "form"
      /\ call.waits = "form" => Form(call.op) \in Mounted(tab) /\ Awaits(call.op)
      /\ call.op # "enrol" => tab.enrolled
      /\ call.op \in Ops
  BY <1>0, <1>2 DEF FormInv, EnrolInv, CallType, TypeOK
<1>6. /\ held' \in Tokens \cup {NoToken}
      /\ call.secret \in Secrets
  BY <1>0, <1>2 DEF TypeOK, CallType
<1>7. CASE EnrolFails(call)
  <2>1. /\ call.op = "enrol" /\ enrol'.st = "form" /\ enrol'.code = enrol.code
        /\ enrol' \in [st : {"form", "busy", "code", "gone"}, code : Secrets \cup {None}]
        /\ UNCHANGED <<recover, regen, change, heard>>
    BY <1>0, <1>7 DEF EnrolFails, Pending, TypeOK
  <2>2. ~tab.enrolled /\ enrol.st = "busy"
    BY <1>0, <1>5, <2>1, FormFacts, MountedFacts DEF Awaits
  <2>3. FormInv'
    <3>1. \A op \in Ops : op # call.op \/ call.waits # "form" => (Awaits(op) => Awaits(op)')
      BY <1>5, <2>1 DEF Awaits, Ops
    <3>. QED  BY <1>0, <1>1, <1>2, <2>1, <2>2, <3>1, SettleForms DEF FormInv
  <2>4. TypeOK'
    BY <1>0, <1>1, <1>2, <1>6, <2>1, <2>2 DEF TypeOK
  <2>5. FreshInv' /\ CodeInv' /\ PasswordInv'
    BY <1>0, <1>1, <1>2, <1>4, <2>1, CodesKept, PasswordsKept
  <2>6. EnrolInv'
    BY <1>0, <1>1, <1>2, <1>3, <2>1, <2>2, EnrolKept
  <2>. QED  BY <2>3, <2>4, <2>5, <2>6 DEF CredentialsInv
<1>8. CASE Redeemed(call) \/ RedeemFails(call)
  <2>1. /\ call.op = "redeem" /\ recover'.code = recover.code
        /\ recover' = recover \/ (call.waits = "form" /\ recover'.st \in {"password", "code"})
        /\ recover' \in [st : {"code", "checking", "password", "setting", "new-code"},
                          code : Secrets \cup {None}, confirmed : BOOLEAN]
        /\ UNCHANGED <<enrol, regen, change, heard>>
    BY <1>0, <1>8 DEF Redeemed, RedeemFails, Pending, TypeOK
  <2>2. call.waits = "form" => tab.enrolled /\ tab.recovering /\ recover.st = "checking"
    BY <1>0, <1>5, <2>1, FormFacts, MountedFacts DEF Awaits
  <2>3. FormInv'
    <3>1. \A op \in Ops : op # call.op \/ call.waits # "form" => (Awaits(op) => Awaits(op)')
      BY <2>1, <2>2 DEF Awaits, Ops
    <3>2. Screen # "recover" => recover' = recover
      BY <1>0, <2>1, <2>2, ScreenFacts DEF Screen
    <3>. QED  BY <1>0, <1>1, <1>2, <2>1, <3>1, <3>2, SettleForms DEF FormInv
  <2>4. TypeOK'
    BY <1>0, <1>1, <1>2, <1>6, <2>1, <2>2 DEF TypeOK
  <2>5. FreshInv' /\ CodeInv' /\ PasswordInv'
    BY <1>0, <1>1, <1>2, <1>4, <2>1, CodesKept, PasswordsKept
  <2>6. EnrolInv'
    BY <1>0, <1>1, <1>2, <1>5, <2>1, EnrolKept
  <2>. QED  BY <2>3, <2>4, <2>5, <2>6 DEF CredentialsInv
<1>9. CASE Handoff(call) \/ CompleteRefused(call)
  <2>1. /\ call.op = "complete" /\ call.waits = "form" /\ calls' = calls \ {call}
        /\ UNCHANGED <<enrol, regen, change, heard>>
        /\ recover' \in [st : {"code", "checking", "password", "setting", "new-code"},
                          code : Secrets \cup {None}, confirmed : BOOLEAN]
        /\ \/ /\ recover'.st = "password" /\ recover'.code = recover.code /\ call.at = "refused"
           \/ /\ recover'.st = "new-code" /\ recover'.code = call.secret
              /\ recover'.confirmed => call.at = "confirmed"
    <3>1. CASE Handoff(call)
      <4>1. call.op = "complete" /\ call.waits = "form"
        BY <1>5, <3>1 DEF Handoff, Pending
      <4>2. recover' = [st |-> "new-code", code |-> call.secret, confirmed |-> call.at = "confirmed"]
        BY <3>1, <4>1 DEF Handoff
      <4>3. /\ recover'.st = "new-code" /\ recover'.code = call.secret
            /\ (recover'.confirmed => call.at = "confirmed")
            /\ recover' \in [st : {"code", "checking", "password", "setting", "new-code"},
                              code : Secrets \cup {None}, confirmed : BOOLEAN]
        BY <1>6, <4>2
      <4>. QED  BY <3>1, <4>1, <4>3 DEF Handoff, Ended
    <3>2. CASE CompleteRefused(call)
      <4>1. /\ recover'.st = "password" /\ recover'.code = recover.code
            /\ recover' \in [st : {"code", "checking", "password", "setting", "new-code"},
                              code : Secrets \cup {None}, confirmed : BOOLEAN]
        BY <1>0, <3>2 DEF CompleteRefused, TypeOK
      <4>. QED  BY <1>5, <3>2, <4>1 DEF CompleteRefused, Pending, Ended
    <3>. QED  BY <1>9, <3>1, <3>2
  <2>2. /\ tab.enrolled /\ tab.recovering /\ recover.st = "setting" /\ recover.code = None
        /\ call.secret # None
    BY <1>0, <1>5, <1>6, <2>1, FormFacts, MountedFacts, SecretFacts DEF Awaits, TypeOK
  <2>3. FormInv'
    <3>1. \A op \in Ops : op # call.op \/ call.waits # "form" => (Awaits(op) => Awaits(op)')
      BY <2>1, <2>2 DEF Awaits, Ops
    <3>2. Screen # "recover" => recover' = recover
      BY <1>0, <2>1, <2>2, ScreenFacts DEF Screen
    <3>. QED  BY <1>0, <1>1, <1>2, <2>1, <3>1, <3>2, SettleForms DEF FormInv
  <2>4. TypeOK'
    BY <1>0, <1>1, <1>2, <1>6, <2>1, <2>2 DEF TypeOK
  <2>5. FreshInv' /\ PasswordInv'
    BY <1>0, <1>1, <1>2, <1>4, <2>1, PasswordsKept
  <2>6. EnrolInv'
    BY <1>0, <1>1, <1>2, <1>5, <2>1, EnrolKept
  <2>7. CodeInv'
    <3>1. \A code : Stands(code) => Stands(code)'
      BY <1>2, <2>1 DEF Stands
    <3>2. \A code \in Secrets : Kept(code) => Kept(code)'
      BY <1>2, <2>1, <2>2, SecretFacts DEF Kept
    <3>3. account.code.op = "complete" => account.code \in Secrets
      BY <1>0, SecretFacts DEF TypeOK
    <3>4. recover'.st = "new-code" /\ recover'.confirmed => Stands(recover'.code)
      BY <1>0, <2>1 DEF CodeInv
    <3>5. \A c \in calls' : c \in calls /\ c.secret \in Secrets
      BY <1>0, <2>1 DEF CallType
    <3>6. recover'.st = "new-code" /\ recover'.confirmed => Stands(recover.code)'
      BY <3>1, <3>4
    <3>7. /\ account'.code.op = "complete" => Kept(account.code)'
          /\ \A c \in calls' : c.op = "complete" /\ c.waits = "nobody" => Kept(c.secret)'
      BY <1>0, <1>2, <3>2, <3>3, <3>5 DEF CodeInv
    <3>. QED  BY <1>0, <1>2, <2>1, <3>1, <3>5, <3>6, <3>7 DEF CodeInv
  <2>. QED  BY <2>3, <2>4, <2>5, <2>6, <2>7 DEF CredentialsInv
<1>10. CASE RegenAnswered(call) \/ RegenFails(call)
  <2>1. /\ call.op = "regenerate" /\ heard' \in {heard, heard \cup {call.secret}}
        /\ regen' = regen \/ (call.waits = "form" /\ regen'.code \in {call.secret, regen.code})
        /\ regen' \in [open : BOOLEAN, busy : BOOLEAN, code : Secrets \cup {None}]
        /\ UNCHANGED <<enrol, recover, change>>
    <3>1. CASE RegenAnswered(call)
      BY <1>0, <1>6, <3>1 DEF RegenAnswered, Pending, TypeOK
    <3>2. CASE RegenFails(call)
      BY <1>0, <1>6, <3>2 DEF RegenFails, Pending, TypeOK
    <3>. QED  BY <1>10, <3>1, <3>2
  <2>2. call.waits = "form" => SettingsShown(tab)
    BY <1>0, <1>5, <2>1, FormFacts, MountedFacts
  <2>3. FormInv'
    <3>1. \A op \in Ops : op # call.op \/ call.waits # "form" => (Awaits(op) => Awaits(op)')
      BY <2>1, <2>2 DEF Awaits, Ops
    <3>. QED  BY <1>0, <1>1, <1>2, <2>1, <2>2, <3>1, SettleForms DEF FormInv
  <2>4. TypeOK'
    BY <1>0, <1>1, <1>2, <1>6, <2>1 DEF TypeOK
  <2>5. call.secret.op # "enrol"
    BY <1>0, <2>1 DEF FreshInv
  <2>6. FreshInv'
    BY <1>4, <2>1
  <2>7. CodeInv' /\ PasswordInv'
    BY <1>0, <1>1, <1>2, <2>1, <2>5, CodesKept, PasswordsKept
  <2>8. EnrolInv'
    BY <1>0, <1>1, <1>2, <1>5, <2>1, EnrolKept
  <2>. QED  BY <2>3, <2>4, <2>6, <2>7, <2>8 DEF CredentialsInv
<1>11. CASE ChangeAnswered(call) \/ ChangeFails(call)
  <2>1. /\ call.op = "change" /\ UNCHANGED <<enrol, recover, regen, heard>>
        /\ change' \in [busy : BOOLEAN, success : Secrets \cup {None}]
        /\ \/ change' = change
           \/ call.waits = "form" /\ change'.success = None /\ change'.busy = FALSE
           \/ /\ call.waits = "form" /\ call.at = "committed" /\ change'.busy = FALSE
              /\ change'.success = call.secret /\ calls' = calls \ {call}
    <3>1. CASE ChangeAnswered(call)
      BY <1>0, <1>6, <3>1 DEF ChangeAnswered, Pending, TypeOK, Ended
    <3>2. CASE ChangeFails(call)
      BY <1>0, <1>6, <3>2 DEF ChangeFails, Pending, TypeOK, BlankChange
    <3>. QED  BY <1>11, <3>1, <3>2
  <2>2. call.waits = "form" => SettingsShown(tab)
    BY <1>0, <1>5, <2>1, FormFacts, MountedFacts
  <2>3. FormInv'
    <3>1. \A op \in Ops : op # call.op \/ call.waits # "form" => (Awaits(op) => Awaits(op)')
      BY <2>1, <2>2 DEF Awaits, Ops
    <3>2. change'.success # None => ~change'.busy
      BY <1>0, <2>1 DEF FormInv
    <3>. QED  BY <1>0, <1>1, <1>2, <2>1, <2>2, <3>1, <3>2, SettleForms
  <2>4. TypeOK'
    BY <1>0, <1>1, <1>2, <1>6, <2>1 DEF TypeOK
  <2>5. FreshInv' /\ CodeInv'
    BY <1>0, <1>1, <1>2, <1>4, <2>1, CodesKept
  <2>6. EnrolInv'
    BY <1>0, <1>1, <1>2, <1>5, <2>1, EnrolKept
  <2>7. PasswordInv'
    <3>1. CASE change' = change \/ change'.success = None
      BY <1>0, <1>1, <1>2, <3>1, PasswordsKept
    <3>2. CASE /\ call.waits = "form" /\ call.at = "committed" /\ change'.success = call.secret
               /\ calls' = calls \ {call}
      <4>1. \A y : NoChangeFrom(y) => NoChangeFrom(y)'
        BY <3>2 DEF NoChangeFrom
      <4>2. tab.session = "live" => account.password = call.secret /\ NoChangeFrom(call.secret)
        BY <1>0, <2>1, <3>2 DEF PasswordInv
      <4>3. tab.session = "live" => account.password = change'.success /\ NoChangeFrom(change.success)'
        BY <3>2, <4>1, <4>2
      <4>. QED  BY <1>0, <1>2, <3>2, <4>1, <4>3 DEF PasswordInv
    <3>. QED  BY <2>1, <3>1, <3>2
  <2>. QED  BY <2>3, <2>4, <2>5, <2>6, <2>7 DEF CredentialsInv
<1>. QED  BY <1>7, <1>8, <1>9, <1>10, <1>11

\* A screen whose forms stay mounted leaves nobody waiting for nothing.
LEMMA NobodyLeft ==
    ASSUME NEW cs, cs \subseteq CallType, NEW t,
           \A c \in cs : c.waits = "form" => Form(c.op) \in Mounted(t)
    PROVE  Orphaned(cs, t) = cs
<1>1. \A c \in cs : Left(c, t) = c
  BY LeftFacts
<1>. QED  BY <1>1, OrphanedIs

\* enroll() returned: the code is shown, signed in or not.
LEMMA EnrolAnsweredKeeps ==
    ASSUME CredentialsInv, NEW call \in calls, NEW b \in BOOLEAN, EnrolAnswered(call, b)
    PROVE  CredentialsInv'
<1>. DEFINE t == [tab EXCEPT !.session = IF b THEN "live" ELSE @]
            f == [Forms EXCEPT !.enrol = [st |-> "code", code |-> call.secret]]
<1>0. /\ TypeOK /\ FreshInv /\ FormInv /\ EnrolInv /\ CodeInv /\ PasswordInv
      /\ tab \in TabType /\ call \in CallType /\ calls \subseteq CallType
  BY DEF CredentialsInv, TypeOK, TabType
<1>1. /\ call.op = "enrol" /\ call.at = "committed" /\ call.waits # "nobody"
      /\ Show(t, calls \ {call}, f) /\ heard' = heard \cup {call.secret}
      /\ UNCHANGED <<account, tokens, issued, minted, held, saved>>
  BY DEF EnrolAnswered, Pending, Ended, serverVars
<1>2. /\ t \in TabType /\ t.enrolled = tab.enrolled
      /\ f.enrol = [st |-> "code", code |-> call.secret]
  BY <1>0 DEF TabType, Forms
<1>. HIDE DEF t, f
<1>3. call.waits = "form" /\ ~tab.enrolled
  BY <1>0, <1>1, FormFacts, MountedFacts DEF FormInv, CallType
<1>4. \A c \in calls : c.op = "enrol" /\ (c # call => c.waits = "nobody" /\ c.at = "sent")
  BY <1>0, <1>1, <1>3 DEF EnrolInv, FormInv, CallType
<1>5. calls' = calls \ {call}
  <2>1. calls' = Orphaned(calls \ {call}, t)
    BY <1>1 DEF Show
  <2>. QED  BY <1>0, <1>4, <2>1, NobodyLeft
<1>6. ScreenOf(t) = "enrol" /\ ~SettingsShown(t)
  BY <1>2, <1>3, ScreenFacts
<1>7. /\ tab' = t /\ enrol' = [st |-> "code", code |-> call.secret] /\ recover' = BlankRecover
      /\ regen' = BlankRegen /\ change' = BlankChange
  BY <1>1, <1>2, <1>6 DEF Show
<1>8. /\ call.secret \in Secrets /\ call.secret # None
      /\ account.active /\ account.code = call.secret
  BY <1>0, <1>1, SecretFacts DEF CallType, EnrolInv
<1>9. TypeOK'
  BY <1>0, <1>1, <1>2, <1>5, <1>7, <1>8
  DEF TypeOK, TabType, BlankRecover, BlankRegen, BlankChange
<1>10. FreshInv'
  <2>1. {enrol'.code, recover'.code, regen'.code}
           \subseteq {enrol.code, recover.code, regen.code, None, call.secret}
    BY <1>7 DEF BlankRecover, BlankRegen
  <2>. QED  BY <1>0, <1>1, <1>5, <2>1, FreshOne
<1>11. FormInv'
  <2>1. \A c \in calls' : c.waits = "nobody" /\ c.at = "sent"
    BY <1>4, <1>5
  <2>2. ~tab'.enrolled
    BY <1>2, <1>3, <1>7
  <2>. QED  BY <1>7, <2>1, <2>2 DEF FormInv, BlankChange
<1>12. EnrolInv'
  BY <1>1, <1>2, <1>3, <1>4, <1>5, <1>7, <1>8 DEF EnrolInv
<1>13. CodeInv'
  <2>1. account'.code.op = "enrol"
    BY <1>0, <1>1, <1>8 DEF FreshInv
  <2>. QED  BY <1>1, <1>4, <1>5, <1>7, <1>8, <2>1 DEF CodeInv, BlankRecover
<1>14. PasswordInv'
  BY <1>4, <1>5, <1>7 DEF PasswordInv, BlankChange
<1>. QED  BY <1>9, <1>10, <1>11, <1>12, <1>13, <1>14 DEF CredentialsInv

\* completeRecovery() returned, confirmed or not, signed in or not: the new code
\* is on its way to the screen, which is still the recovery screen.
LEMMA CompleteReturnedKeeps ==
    ASSUME CredentialsInv, NEW call \in calls, NEW confirmed \in BOOLEAN,
           NEW signedIn \in BOOLEAN, CompleteReturned(call, confirmed, signedIn)
    PROVE  CredentialsInv'
<1>. DEFINE t == [tab EXCEPT !.session = IF signedIn THEN "live" ELSE @]
            new == [call EXCEPT !.at = IF confirmed THEN "confirmed" ELSE "unconfirmed"]
            lost == [call EXCEPT !.waits = "nobody"]
            cs == (IF call.at = "sent" THEN GivenUp(call) ELSE Ended(call)) \cup {new}
<1>0. /\ TypeOK /\ FreshInv /\ FormInv /\ EnrolInv /\ CodeInv /\ PasswordInv
      /\ tab \in TabType /\ call \in CallType /\ calls \subseteq CallType
  BY DEF CredentialsInv, TypeOK, TabType
<1>1. /\ call.op = "complete" /\ call.waits # "nobody" /\ held' = NoToken
      /\ call.at \in {"sent", "committed"} /\ (confirmed => call.at = "committed")
      /\ Show(t, cs, Forms) /\ heard' \in {heard, heard \cup {call.secret}}
      /\ UNCHANGED <<account, tokens, issued, minted, saved>>
  BY DEF CompleteReturned, Pending, serverVars
<1>2. /\ t \in TabType /\ t.enrolled = tab.enrolled /\ t.recovering = tab.recovering
  BY <1>0 DEF TabType
<1>3. /\ new \in CallType /\ new.op = "complete" /\ new.secret = call.secret
      /\ new.current = call.current /\ new.waits = call.waits
      /\ new.at \in {"confirmed", "unconfirmed"} /\ (new.at = "confirmed" => confirmed)
  BY <1>0, <1>1 DEF CallType
<1>4. /\ lost \in CallType /\ lost.op = "complete" /\ lost.secret = call.secret
      /\ lost.current = call.current /\ lost.waits = "nobody" /\ lost.at = call.at
  BY <1>0, <1>1 DEF CallType
<1>5. /\ \A c \in cs : \/ c \in calls /\ c # call
                       \/ c = new
                       \/ c = lost /\ call.at = "sent"
      /\ new \in cs /\ \A c \in calls : c # call => c \in cs
  BY DEF GivenUp, Ended
<1>. HIDE DEF t, new, lost, cs
<1>6. /\ call.waits = "form" /\ tab.enrolled /\ tab.recovering
      /\ recover.st = "setting" /\ recover.code = None
  BY <1>0, <1>1, FormFacts, MountedFacts DEF FormInv, CallType, Awaits, TypeOK
<1>7. /\ ScreenOf(t) = "recover" /\ ~SettingsShown(t) /\ ScreenOf(tab) = "recover"
      /\ ~SettingsShown(tab) /\ "recover" \in Mounted(t)
  BY <1>0, <1>2, <1>6, ScreenFacts, MountedFacts
<1>8. \A c \in calls : c.waits = "form" => c = call
  <2>1. \A c \in calls : c.waits = "form" => c.op = "complete"
    BY <1>0, <1>6, <1>7, FormFacts, MountedFacts DEF FormInv, Awaits, CallType, Ops
  <2>. QED  BY <1>0, <1>1, <1>6, <2>1 DEF FormInv
<1>9. calls' = cs
  <2>1. calls' = Orphaned(cs, t) /\ cs \subseteq CallType
    BY <1>0, <1>1, <1>3, <1>4, <1>5 DEF Show
  <2>2. \A c \in cs : c.waits = "form" => Form(c.op) \in Mounted(t)
    BY <1>3, <1>4, <1>5, <1>7, <1>8, FormFacts
  <2>. QED  BY <2>1, <2>2, NobodyLeft
<1>10. /\ tab' = t /\ recover' = recover
       /\ enrol' = [st |-> "gone", code |-> None] /\ regen' = BlankRegen /\ change' = BlankChange
  BY <1>1, <1>7 DEF Show, Forms
<1>11. call.secret \in Secrets /\ Known(call.secret) /\ call.secret.op = "complete"
  BY <1>0, <1>1 DEF FreshInv, CallType
<1>12. TypeOK'
  <2>1. calls' \subseteq CallType
    BY <1>0, <1>3, <1>4, <1>5, <1>9
  <2>. QED
    BY <1>0, <1>1, <1>2, <1>10, <1>11, <2>1 DEF TypeOK, TabType, BlankRegen, BlankChange
<1>13. FreshInv'
  <2>1. \A y : Known(y)' <=> Known(y)
    BY <1>1 DEF Known
  <2>2. \A c \in calls' : /\ Known(c.secret) /\ Known(c.current)
                          /\ IF c.op = "redeem" THEN c.secret \in saved' ELSE c.secret.op = c.op
    BY <1>0, <1>1, <1>3, <1>4, <1>5, <1>9 DEF FreshInv
  <2>3. ASSUME NEW c \in calls', NEW d \in calls', c.op = d.op, c.secret = d.secret,
               c.op = "change"
                 \/ (c.op = "complete" /\ c.waits = "form" /\ c.at \in {"sent", "refused"})
        PROVE  c = d
    BY <1>0, <1>3, <1>4, <1>5, <1>8, <1>9, <2>3 DEF FreshInv
  <2>4. Known(account'.code) /\ Known(account'.password)
    BY <1>0, <1>1 DEF FreshInv
  <2>5. \A y \in saved' \cup heard' \cup {enrol'.code, recover'.code, regen'.code} : Known(y)
    <3>1. Known(None)
      BY <1>0, SecretFacts DEF Known, TypeOK
    <3>2. enrol'.code = None /\ recover'.code = None /\ regen'.code = None
      BY <1>6, <1>10 DEF BlankRegen
    <3>. QED  BY <1>0, <1>1, <1>11, <3>1, <3>2 DEF FreshInv
  <2>. QED  BY <2>1, <2>2, <2>3, <2>4, <2>5 DEF FreshInv
<1>14. FormInv'
  <2>1. \A c \in calls' : c.waits = "form" => c = new
    BY <1>4, <1>5, <1>8, <1>9
  <2>2. Form(new.op) \in Mounted(tab') /\ Awaits(new.op)'
    BY <1>3, <1>6, <1>7, <1>10, FormFacts DEF Awaits
  <2>3. \A c \in calls' : /\ c.op \in {"enrol", "complete"} => c.waits # "promise"
                          /\ c.waits = "nobody" => c.at = "sent"
    BY <1>0, <1>3, <1>4, <1>5, <1>6, <1>9 DEF FormInv
  <2>. QED  BY <1>7, <1>10, <2>1, <2>2, <2>3 DEF FormInv, Screen, BlankChange
<1>15. EnrolInv'
  <2>1. \A c \in calls' : ~(c.op = "enrol" /\ c.at = "committed")
    BY <1>0, <1>3, <1>4, <1>5, <1>6, <1>9, NoLateEnrolment
  <2>2. account.active
    BY <1>0, <1>6 DEF EnrolInv
  <2>. QED  BY <1>1, <1>2, <1>6, <1>10, <2>1, <2>2 DEF EnrolInv
<1>16. CodeInv'
  <2>1. \A c \in calls' : c.op = "complete" /\ c.waits = "form" =>
          c.secret \notin saved' /\ (c.at \in {"sent", "refused"} => account'.code # c.secret)
    BY <1>0, <1>1, <1>3, <1>4, <1>5, <1>6, <1>8, <1>9 DEF CodeInv
  <2>2. \A code : Stands(code) => Stands(code)'
    BY <1>1, <1>3, <1>4, <1>5, <1>9 DEF Stands
  <2>3. \A c \in calls' : c.op = "complete" /\ c.at \in {"committed", "confirmed"}
           => Stands(c.secret)'
    BY <1>0, <1>1, <1>3, <1>4, <1>5, <1>9, <2>2 DEF CodeInv
  <2>4. new \in calls' /\ Kept(call.secret)'
    BY <1>3, <1>5, <1>6, <1>9 DEF Kept
  <2>5. \A code : Kept(code) => Kept(code)'
    BY <1>1, <1>5, <1>8, <1>9, <1>10, <2>4 DEF Kept
  <2>6. \A c \in calls' : c.op = "complete" /\ c.waits = "nobody" => Kept(c.secret)'
    BY <1>0, <1>3, <1>4, <1>5, <1>9, <2>4, <2>5 DEF CodeInv
  <2>7. account'.code.op = "enrol" /\ account'.code \in heard'
           => account'.code \in saved' \cup {enrol'.code}
    <3>1. enrol.code = None
      BY <1>0, <1>6 DEF FormInv, TypeOK
    <3>. QED  BY <1>0, <1>1, <1>11, <3>1, SecretFacts DEF CodeInv
  <2>8. account'.code.op = "complete" => Kept(account.code)'
    BY <1>0, <1>1, <2>5 DEF CodeInv
  <2>. QED  BY <1>6, <1>10, <2>1, <2>3, <2>6, <2>7, <2>8 DEF CodeInv
<1>17. PasswordInv'
  <2>1. \A c \in calls' : c.waits = "form" => c.op # "change"
    BY <1>1, <1>3, <1>4, <1>5, <1>8, <1>9
  <2>. QED  BY <1>10, <2>1 DEF PasswordInv, BlankChange
<1>. QED  BY <1>12, <1>13, <1>14, <1>15, <1>16, <1>17 DEF CredentialsInv

\* Opening, closing and finishing the new code of the settings screen.
LEMMA RegenFormKeeps ==
    ASSUME CredentialsInv, OpenOrCloseRegen \/ FinishRegen
    PROVE  CredentialsInv'
<1>0. /\ TypeOK /\ FreshInv /\ FormInv /\ EnrolInv /\ CodeInv /\ PasswordInv
      /\ tab \in TabType
  BY DEF CredentialsInv, TypeOK, TabType
<1>1. /\ UNCHANGED <<account, tokens, issued, minted, calls, tab, held, enrol, recover, change, heard>>
      /\ saved \subseteq saved' /\ saved' \subseteq saved \cup {regen.code}
      /\ saved' \subseteq Secrets /\ regen'.busy = regen.busy /\ regen'.code \in {regen.code, None}
      /\ regen' \in [open : BOOLEAN, busy : BOOLEAN, code : Secrets \cup {None}]
  <2>1. CASE OpenOrCloseRegen
    BY <1>0, <2>1 DEF OpenOrCloseRegen, serverVars, TypeOK
  <2>2. CASE FinishRegen
    BY <1>0, <2>2 DEF FinishRegen, serverVars, TypeOK
  <2>. QED  BY <2>1, <2>2
<1>2. SettingsShown(tab)
  BY <1>0 DEF OpenOrCloseRegen, FinishRegen, FormInv, BlankRegen
<1>3. ScreenOf(tab) # "recover" /\ "recover" \notin Mounted(tab)
  BY <1>0, <1>2, ScreenFacts, MountedFacts
<1>4. \A c \in calls : c.op = "complete" => c.waits = "nobody" /\ c.at = "sent"
  BY <1>0, <1>3, FormFacts DEF FormInv, TypeOK, CallType
<1>5. TypeOK'
  BY <1>0, <1>1 DEF TypeOK
<1>6. FreshInv'
  <2>1. \A y : Known(y)' <=> Known(y)
    BY <1>1 DEF Known
  <2>2. Known(None) /\ Known(regen.code)
    BY <1>0, SecretFacts DEF Known, TypeOK, FreshInv
  <2>3. \A y \in saved' \cup heard' \cup {enrol'.code, recover'.code, regen'.code} : Known(y)
    BY <1>0, <1>1, <2>2 DEF FreshInv
  <2>4. \A c \in calls' : /\ Known(c.secret) /\ Known(c.current)
                          /\ IF c.op = "redeem" THEN c.secret \in saved' ELSE c.secret.op = c.op
    BY <1>0, <1>1 DEF FreshInv
  <2>. QED  BY <1>0, <1>1, <2>1, <2>3, <2>4 DEF FreshInv
<1>7. FormInv'
  <2>1. \A op : Awaits(op) => Awaits(op)'
    BY <1>1 DEF Awaits
  <2>. QED  BY <1>0, <1>1, <1>2, <2>1 DEF FormInv, Screen
<1>8. EnrolInv'
  BY <1>0, <1>1 DEF EnrolInv
<1>9. CodeInv'
  <2>1. \A code : Kept(code) => Kept(code)'
    BY <1>1 DEF Kept
  <2>2. recover.st # "new-code"
    BY <1>0, <1>3 DEF FormInv, Screen, BlankRecover
  <2>. QED  BY <1>0, <1>1, <1>4, <2>1, <2>2 DEF CodeInv
<1>10. PasswordInv'
  <2>1. \A y : NoChangeFrom(y) => NoChangeFrom(y)'
    BY <1>1 DEF NoChangeFrom
  <2>. QED  BY <1>0, <1>1, <2>1 DEF PasswordInv
<1>. QED  BY <1>5, <1>6, <1>7, <1>8, <1>9, <1>10 DEF CredentialsInv

-----------------------------------------------------------------------------
(***************************************************************************)
(* The theorems.                                                           *)
(***************************************************************************)

\* A new account: nothing minted, nothing under way, the enrolment form shown.
LEMMA CredentialsInit == Init => CredentialsInv
<1>. SUFFICES ASSUME Init PROVE CredentialsInv
  OBVIOUS
<1>1. tab \in TabType /\ ~tab.enrolled
  BY DEF Init, TabType
<1>2. TypeOK
  BY <1>1, SecretFacts
  DEF Init, TypeOK, TabType, BlankRecover, BlankRegen, BlankChange, NoToken
<1>3. FreshInv
  BY SecretFacts DEF Init, FreshInv, Known, BlankRecover, BlankRegen
<1>4. FormInv
  BY <1>1 DEF Init, FormInv, BlankChange
<1>5. EnrolInv
  BY <1>1 DEF Init, EnrolInv
<1>6. CodeInv
  BY SecretFacts DEF Init, CodeInv, BlankRecover
<1>7. PasswordInv
  BY DEF Init, PasswordInv, BlankChange
<1>. QED  BY <1>2, <1>3, <1>4, <1>5, <1>6, <1>7 DEF CredentialsInv

\* Every step of the user, the server or a settling call keeps the invariant.
LEMMA CredentialsStep == CredentialsInv /\ [Next]_vars => CredentialsInv'
<1>. SUFFICES ASSUME CredentialsInv, [Next]_vars PROVE CredentialsInv'
  OBVIOUS
<1>1. CASE UserStep
  BY <1>1, ScreensKeep, SubmitsKeep, RegenFormKeeps DEF UserStep
<1>2. ASSUME NEW call \in calls, ServerStep(call) PROVE CredentialsInv'
  BY <1>2, ServerKeeps, CompletionKeeps DEF ServerStep
<1>3. ASSUME NEW call \in calls, Settle(call) PROVE CredentialsInv'
  BY <1>3, SettlesKeep, EnrolAnsweredKeeps, CompleteReturnedKeeps DEF Settle
<1>4. CASE UNCHANGED vars
  <2>1. UNCHANGED <<account, tokens, issued, minted, calls, tab, held, enrol, recover, regen,
                    change, saved, heard>>
    BY <1>4 DEF vars, serverVars, formVars
  <2>. QED
    BY <2>1 DEF CredentialsInv, TypeOK, FreshInv, Known, FormInv, Awaits, Screen, EnrolInv,
                CodeInv, Stands, Kept, PasswordInv, NoChangeFrom
<1>. QED  BY <1>1, <1>2, <1>3, <1>4 DEF Next

\* The invariant says what the runs check.
LEMMA CredentialsImply == CredentialsInv => ConfirmedStands /\ NewCodeReachesUser
<1>. SUFFICES ASSUME CredentialsInv PROVE ConfirmedStands /\ NewCodeReachesUser
  OBVIOUS
<1>1. ConfirmedStands
  BY DEF CredentialsInv, ConfirmedStands, ConfirmedCodeStands, ConfirmedPasswordStands,
         EnrolInv, CodeInv, Stands, PasswordInv
<1>2. NewCodeReachesUser
  BY DEF CredentialsInv, NewCodeReachesUser, InHand, CodeInv, Kept
<1>. QED  BY <1>1, <1>2

\* The invariant holds of every state of every behaviour.
LEMMA CredentialsAlways == Spec => []CredentialsInv
  BY CredentialsInit, CredentialsStep, PTL DEF Spec

\* Whatever is refused, lost, given up or carried out late, and however many
\* secrets, tokens and calls there are: a recovery code or a password the client
\* showed as set is the one the server holds (enroll.ts, recover.ts, account.ts).
THEOREM ConfirmedStandsAlways == Spec => []ConfirmedStands
  BY CredentialsAlways, CredentialsImply, PTL

\* "nothing may destroy recoveryCode": a code the account was given by an
\* enrolment that answered, or by a recovery, answered or not, is written down,
\* on the screen or about to be shown.
THEOREM NewCodeIsNeverLost == Spec => []NewCodeReachesUser
  BY CredentialsAlways, CredentialsImply, PTL
=============================================================================
