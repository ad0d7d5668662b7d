--------------------------- MODULE AccountProofs ---------------------------
(* For any number of handlers under way and any accounts: what the screens  *)
(* of an account show of the session, of TOTP and of their own buttons.     *)
EXTENDS Account, FiniteSetTheorems, TLAPS

\* The screen a handler was started on.
ScreenOf(op) ==
  CASE op = "signIn" -> "login"
    [] op = "confirm" -> "mfa"
    [] op = "signUp" -> "signup"
    [] op \in {"verify", "resend"} -> "verify-email"
    [] op = "reset" -> "reset-password"
    [] op = "forgot" -> "forgot-password"
    [] op \in {"setup", "activate"} -> "setup"
    [] OTHER -> "profile"

\* A handler whose screen is still there.
Here(c) == c.op \notin Ours /\ ~c.left

\* The stages of a call, and what it can have seen.
Staged(c) ==
  /\ c.op = "none" => c = Idle
  /\ c.at = "timer" => c.op \in {"verify", "reset"}
  /\ c.op \in Refreshes => c.at \in {"send", "fetch", "read"}
  /\ c.op \in Refreshes /\ c.at = "read" => c.saw \in {"on", "off", "error"}
  /\ c.op \in Refreshes /\ c.at # "read" => c.saw = "none"
  /\ c.op \in {"hydrate", "signIn", "confirm"} => c.saw \in {"session", "none", "error"}
  /\ c.saw = "session" => c.at = "read" /\ c.op \in {"hydrate", "signIn", "confirm"}
  /\ c.saw \in {"on", "off"} => c.op \in Refreshes
  /\ c.op = "setup" => c.saw # "error"

Types == TypeOK /\ \A i \in Calls : Staged(calls[i])

\* Handlers are on the screen they were started on, and nothing else happens while the
\* session is read for the first time.
PlaceInv ==
  /\ \A i \in Calls : Here(calls[i]) => screen = ScreenOf(calls[i].op)
  /\ \A i \in Calls : calls[i].op = "hydrate" => status = "loading"
  /\ status = "loading" =>
       /\ \A i \in Calls : calls[i].op \in {"none", "hydrate"}
       /\ \A i, j \in Calls : calls[i].op = "hydrate" /\ calls[j].op = "hydrate" => i = j

\* A handler that keeps the button k of its screen off.
Holds(c, k) == Here(c) /\ c.op \notin {"refresh", "setup"} /\ c.at # "timer" /\ Key(c) = k

Keys == {"submit", "resend", "save", "password", "mfa"}
BusyInv ==
  \A k \in Keys :
    /\ k \in form.busy <=> \E i \in Calls : Holds(calls[i], k)
    /\ \A i, j \in Calls : Holds(calls[i], k) /\ Holds(calls[j], k) => i = j

\* A session that was read is still there, or was cut.
SessionInv ==
  /\ SessionIsReal
  /\ \A i \in Calls : calls[i].saw = "session" => tokens \/ cut

\* Without an overlap there is one set-up at most, and none once a secret is shown.
SetupInv ==
  /\ SecretIsLatest
  /\ screen # "setup" => form.secret = "none" /\ ~form.done
  /\ screen = "setup" /\ ~form.overlap =>
       /\ \A i, j \in Calls : calls[i].op = "setup" /\ calls[j].op = "setup" => i = j
       /\ form.secret # "none" => \A i \in Calls : calls[i].op # "setup"
       /\ \A i \in Calls : calls[i].op = "setup" => calls[i].saw # "replaced"

Agrees(on) == on = account.totp \/ form.mixed \/ form.crossed

\* What was read of the preference is so, unless a change is on record.
MfaInv ==
  /\ MfaSaidIsTrue
  /\ form.flash = "disabled" => screen = "profile"
  /\ \A i \in Calls : Here(calls[i]) /\ calls[i].op = "disable" /\ calls[i].at # "send" =>
       ~account.totp \/ form.crossed
  /\ \A i \in Calls : Here(calls[i]) /\ calls[i].saw \in {"on", "off"} =>
       Agrees(calls[i].saw = "on")
  /\ /\ screen = "profile" /\ ~form.loading
     /\ \A i \in Calls : Here(calls[i]) /\ calls[i].op = "disable" => calls[i].at = "send"
     => Agrees(form.mfa)

\* A sign-in that is alone is the only one, and the session it cleared stays cleared.
SignsAlone(cs, in) ==
  \A i \in Calls : SignsIn(cs[i].op) /\ cs[i].alone =>
    /\ \A j \in Calls : SignsIn(cs[j].op) => j = i
    /\ cs[i].op = "signIn" /\ cs[i].at = "again" => ~in
SignInv == SignsAlone(calls, tokens)

\* The profile is edited once it is loaded, and until then nothing else goes on there.
EditInv ==
  /\ form.edited \/ form.loading => screen = "profile"
  /\ form.edited => ~form.loading
  /\ \A i \in Calls : Here(calls[i]) /\ form.loading => calls[i].op = "refresh"
  /\ \A i \in Calls : Here(calls[i]) /\ calls[i].op = "refresh" =>
       form.loading /\ \A j \in Calls : Here(calls[j]) => i = j

Inv == /\ Types /\ PlaceInv /\ BusyInv /\ SessionInv
       /\ SetupInv /\ MfaInv /\ SignInv /\ EditInv

-----------------------------------------------------------------------------
(* Calls and forms.                                                         *)

\* A free slot.
LEMMA IdleCall == /\ Idle \in CallType /\ Staged(Idle) /\ ~Here(Idle)
                  /\ Idle.op = "none" /\ Idle.saw = "none" /\ Idle.at = "idle"
BY DEF Idle, CallType, Ops, Stages, Staged, Refreshes, Here, Ours

\* A new call is at its first stage, has seen nothing and is on its screen.
LEMMA NewCall ==
  ASSUME NEW op \in Ops, NEW at \in Stages
  PROVE  LET c == Call(op, at) IN
         /\ c \in CallType /\ c.op = op /\ c.at = at /\ c.saw = "none" /\ ~c.left
BY DEF Call, Idle, CallType

\* What leaving does to a call.
LEMMA LeftCall ==
  ASSUME NEW c \in CallType, Staged(c)
  PROVE  /\ Leave(c) \in CallType /\ Staged(Leave(c)) /\ ~Here(Leave(c))
         /\ Leave(c).op = c.op /\ Leave(c).at = c.at /\ Leave(c).saw = c.saw
         /\ Leave(c).alone = c.alone
<1>1. CASE c.op \in Ours
  <2>1. Leave(c) = c
    BY <1>1 DEF Leave
  <2> QED
    BY <1>1, <2>1 DEF Here
<1>2. CASE c.op \notin Ours
  <2>1. Leave(c) = [c EXCEPT !.left = TRUE]
    BY <1>2 DEF Leave
  <2>2. /\ Leave(c) \in CallType
        /\ Leave(c).op = c.op /\ Leave(c).at = c.at /\ Leave(c).saw = c.saw
        /\ Leave(c).alone = c.alone /\ Leave(c).left
    BY <2>1 DEF CallType
  <2>3. Staged(Leave(c))
    BY <1>2, <2>2 DEF Staged, Ours
  <2> QED
    BY <2>2, <2>3 DEF Here
<1> QED
  BY <1>1, <1>2

\* A screen as it mounts.
LEMMA MountedForm ==
  ASSUME NEW s, NEW b \in BOOLEAN
  PROVE  LET f == [Mounted(s) EXCEPT !.overlap = b] IN
         /\ f \in FormType /\ f.busy = {} /\ f.flash = "none" /\ f.error = "none"
         /\ f.loading = (s = "profile") /\ ~f.edited /\ f.secret = "none" /\ ~f.done
         /\ f.overlap = b
BY DEF Mounted, FormType

\* What the three helpers do to a form.
LEMMA FormHelpers ==
  ASSUME NEW f \in FormType, NEW k \in Keys, NEW e \in {"none", "refused", "already"}
  PROVE  /\ Busy(k, f) \in FormType /\ Ready(k, f) \in FormType /\ Failed(k, e, f) \in FormType
         /\ Busy(k, f) = [f EXCEPT !.busy = f.busy \cup {k}, !.error = "none", !.flash = "none"]
         /\ Ready(k, f) = [f EXCEPT !.busy = f.busy \ {k}]
         /\ Failed(k, e, f) = [f EXCEPT !.busy = f.busy \ {k}, !.error = e]
BY DEF Busy, Ready, Failed, FormType, Keys

-----------------------------------------------------------------------------
(* Steps that keep the screen, and steps that change it.                    *)

\* Another screen mounts, as Render says; its call gets the slot i.
Remount(cs, i, s) ==
  /\ form' = [Mounted(s) EXCEPT !.overlap = s = "setup" /\ SetupsUnderWay(cs)]
  /\ calls' = IF Leave(cs[i]).op = "none"
              THEN [[j \in Calls |-> Leave(cs[j])] EXCEPT ![i] = MountCall(s)]
              ELSE [j \in Calls |-> Leave(cs[j])]

\* Render keeps the screen and its state, or mounts another.
LEMMA RenderCases ==
  ASSUME NEW p, NEW s, NEW f, NEW cs, NEW i \in Calls, Render(p, s, f, cs, i),
         account'.admin = account.admin
  PROVE  /\ page' \in {p, "products"} /\ status' = s
         /\ \/ screen' = screen /\ form' = f /\ calls' = cs
            \/ ~(screen' = screen /\ SameTree(s)) /\ Remount(cs, i, screen')
<1> DEFINE at == IF p = "callback" /\ s = "authenticated" THEN "products" ELSE p
<1>1. page' = at /\ status' = s
  BY DEF Render
<1>2. screen' = Shown(at, s, account.admin)
  BY <1>1 DEF screen
<1>3. at \in {p, "products"}
  OBVIOUS
<1> HIDE DEF at
<1> DEFINE gone == [j \in Calls |-> Leave(cs[j])]
<1>4. gone[i] = Leave(cs[i])
  OBVIOUS
<1>5. IF screen' = screen /\ SameTree(s) THEN form' = f /\ calls' = cs
      ELSE /\ form' = [Mounted(screen') EXCEPT !.overlap = screen' = "setup" /\ SetupsUnderWay(cs)]
           /\ calls' = IF gone[i].op = "none" THEN [gone EXCEPT ![i] = MountCall(screen')] ELSE gone
  BY <1>2 DEF Render, at
<1> QED
  BY <1>1, <1>3, <1>4, <1>5 DEF Remount

\* The call a screen mounts with.
LEMMA MountedCall ==
  ASSUME NEW s
  PROVE  LET c == MountCall(s) IN
         /\ c \in CallType /\ Staged(c) /\ c.saw = "none" /\ ~SignsIn(c.op) /\ c.op # "hydrate"
         /\ c.at \in {"idle", "send", "fetch"}
         /\ Here(c) => c.op \in {"refresh", "setup"} /\ s = ScreenOf(c.op)
         /\ c.op = "setup" => s = "setup"
<1>1. CASE s = "profile"
  <2>1. "refresh" \in Ops /\ "fetch" \in Stages
    BY DEF Ops, Stages, Refreshes
  <2>2. MountCall(s) = Call("refresh", "fetch")
    BY <1>1 DEF MountCall
  <2>3. /\ MountCall(s) \in CallType /\ MountCall(s).op = "refresh"
        /\ MountCall(s).at = "fetch" /\ MountCall(s).saw = "none"
    BY <2>1, <2>2, NewCall
  <2> QED
    BY <1>1, <2>3 DEF Staged, SignsIn, Refreshes, ScreenOf
<1>2. CASE s = "setup"
  <2>1. "setup" \in Ops /\ "send" \in Stages
    BY DEF Ops, Stages
  <2>2. MountCall(s) = Call("setup", "send")
    BY <1>2 DEF MountCall
  <2>3. /\ MountCall(s) \in CallType /\ MountCall(s).op = "setup"
        /\ MountCall(s).at = "send" /\ MountCall(s).saw = "none"
    BY <2>1, <2>2, NewCall
  <2> QED
    BY <1>2, <2>3 DEF Staged, SignsIn, Refreshes, ScreenOf
<1>3. CASE s \notin {"profile", "setup"}
  BY <1>3, IdleCall DEF MountCall, SignsIn
<1> QED
  BY <1>1, <1>2, <1>3

\* After a mount every call is one of before, left, or the one the screen mounts with.
LEMMA RemountedCalls ==
  ASSUME NEW cs \in [Calls -> CallType], \A j \in Calls : Staged(cs[j]),
         NEW i \in Calls, NEW s, Remount(cs, i, s)
  PROVE  /\ calls' \in [Calls -> CallType] /\ \A j \in Calls : Staged(calls'[j])
         /\ \A j \in Calls : \/ calls'[j] = Leave(cs[j])
                             \/ j = i /\ cs[j].op = "none" /\ calls'[j] = MountCall(s)
         /\ \A j \in Calls : Here(calls'[j]) => j = i /\ calls'[j] = MountCall(s)
<1>1. \A j \in Calls : \/ calls'[j] = Leave(cs[j])
                       \/ j = i /\ cs[j].op = "none" /\ calls'[j] = MountCall(s)
  BY LeftCall DEF Remount
<1>2. \A j \in Calls : calls'[j] \in CallType /\ Staged(calls'[j])
  BY <1>1, LeftCall, MountedCall
<1>3. calls' = [j \in Calls |-> calls'[j]]
  BY DEF Remount
<1>4. \A j \in Calls : Here(calls'[j]) => j = i /\ calls'[j] = MountCall(s)
  BY <1>1, LeftCall
<1> QED
  BY <1>1, <1>2, <1>3, <1>4

\* A screen that has just mounted keeps the invariant of screens.
LEMMA Remounted ==
  ASSUME NEW cs \in [Calls -> CallType], \A j \in Calls : Staged(cs[j]),
         NEW i \in Calls, Remount(cs, i, screen'),
         \A j \in Calls : cs[j].op # "hydrate", status' # "loading"
  PROVE  /\ form' \in FormType
         /\ PlaceInv' /\ BusyInv' /\ SetupInv' /\ MfaInv' /\ EditInv'
<1>1. /\ \A j \in Calls : \/ calls'[j] = Leave(cs[j])
                          \/ j = i /\ cs[j].op = "none" /\ calls'[j] = MountCall(screen')
      /\ \A j \in Calls : Here(calls'[j]) => j = i /\ calls'[j] = MountCall(screen')
  BY RemountedCalls
<1>2. /\ form' \in FormType /\ form'.busy = {} /\ form'.flash = "none"
      /\ form'.loading = (screen' = "profile") /\ ~form'.edited
      /\ form'.secret = "none" /\ ~form'.done
      /\ form'.overlap = (screen' = "setup" /\ SetupsUnderWay(cs))
  <2> DEFINE b == screen' = "setup" /\ SetupsUnderWay(cs)
  <2>1. b \in BOOLEAN /\ form' = [Mounted(screen') EXCEPT !.overlap = b]
    BY DEF Remount, SetupsUnderWay
  <2> HIDE DEF b
  <2>2. /\ form' \in FormType /\ form'.busy = {} /\ form'.flash = "none"
        /\ form'.loading = (screen' = "profile") /\ ~form'.edited
        /\ form'.secret = "none" /\ ~form'.done
        /\ form'.overlap = b
    BY <2>1, MountedForm
  <2> QED
    BY <2>2 DEF b
<1>3. \A j \in Calls : Here(calls'[j]) =>
        /\ j = i /\ calls'[j].op \in {"refresh", "setup"} /\ screen' = ScreenOf(calls'[j].op)
        /\ calls'[j].saw = "none"
  BY <1>1, MountedCall
<1>4. PlaceInv'
  BY <1>1, <1>3, LeftCall, MountedCall DEF PlaceInv
<1>5. BusyInv'
  BY <1>2, <1>3 DEF BusyInv, Holds
<1>6. SetupInv'
  <2>1. ASSUME screen' = "setup", ~form'.overlap
        PROVE  \A j \in Calls : calls'[j].op = "setup" => j = i /\ calls'[j].saw = "none"
    <3>1. \A j \in Calls : cs[j].op # "setup"
      BY <1>2, <2>1 DEF SetupsUnderWay
    <3> QED
      BY <1>1, <3>1, LeftCall, MountedCall
  <2> QED
    BY <1>2, <2>1 DEF SetupInv, SecretIsLatest
<1>7. MfaInv'
  BY <1>2, <1>3 DEF MfaInv, MfaSaidIsTrue
<1>8. EditInv'
  BY <1>2, <1>3 DEF EditInv, ScreenOf
<1> QED
  BY <1>2, <1>4, <1>5, <1>6, <1>7, <1>8

\* A call of after a mount that was under way before.
LEMMA RemountedSigns ==
  ASSUME NEW cs \in [Calls -> CallType], \A j \in Calls : Staged(cs[j]),
         NEW i \in Calls, NEW s, Remount(cs, i, s)
  PROVE  /\ SignsAlone(cs, tokens') => SignInv'
         /\ \A j \in Calls : calls'[j].saw = "session" => cs[j].saw = "session"
<1>1. \A j \in Calls : SignsIn(calls'[j].op) =>
        /\ calls'[j].op = cs[j].op /\ calls'[j].at = cs[j].at /\ calls'[j].alone = cs[j].alone
  BY RemountedCalls, LeftCall, MountedCall
<1>2. \A j \in Calls : calls'[j].saw = "session" => cs[j].saw = "session"
  BY RemountedCalls, LeftCall, MountedCall
<1> QED
  BY <1>1, <1>2 DEF SignInv, SignsAlone

-----------------------------------------------------------------------------
(* Steps that say nothing new of TOTP.                                      *)

\* What a step leaves in Cognito and the provider.
NoNews ==
  /\ account' \in AccountType /\ account'.admin = account.admin
  /\ account'.totp = account.totp
  /\ tokens' \in BOOLEAN /\ user' \in BOOLEAN /\ authError' \in BOOLEAN /\ cut' \in BOOLEAN
  /\ pending' \in {"none", "challenge_totp"}
  /\ status' \in Statuses /\ page' \in Pages

\* What it leaves on the screen.
Plain(f, g) ==
  /\ g \in FormType
  /\ g.done = f.done /\ g.loading = f.loading /\ g.mfa = f.mfa
  /\ g.mixed = f.mixed /\ g.crossed = f.crossed
  /\ g.flash = f.flash \/ g.flash # "disabled"
  /\ g.edited => f.edited \/ (screen = "profile" /\ ~f.loading)
SameSecret(f, g) == g.secret = f.secret /\ g.done = f.done /\ g.overlap = f.overlap

\* A handler goes on, ends or begins.
GoesOn(c, d) ==
  /\ d.op = c.op /\ d.left = c.left
  /\ d.saw = c.saw \/ (d.saw \in {"on", "off"} => (d.saw = "on") = account.totp)
  /\ d.op = "disable" => (d.at = "send" <=> c.at = "send")
Ends(c, d) == d.op = "none" /\ ~(Here(c) /\ c.op = "disable" /\ c.at # "send")
Begins(c, d) ==
  /\ c.op = "none" /\ d.op \notin {"none", "hydrate", "refresh"}
  /\ Here(d) => screen = ScreenOf(d.op) /\ ~form.loading
  /\ d.saw \notin {"on", "off"}
  /\ d.op = "disable" => d.at = "send"
  /\ status # "loading"
Quiet(c, d) == GoesOn(c, d) \/ Ends(c, d) \/ Begins(c, d)

\* The first reading of the session goes on, or is over.
Hydrates == status' = status \/ (status' # "loading" /\ \A j \in Calls : calls'[j].op # "hydrate")

\* Such a step keeps what the screens say.
LEMMA PlainStep ==
  ASSUME Inv, screen' = screen, account'.totp = account.totp, Plain(form, form'),
         \A j \in Calls : Quiet(calls[j], calls'[j]), Hydrates
  PROVE  PlaceInv' /\ MfaInv' /\ EditInv'
<1>1. \A j \in Calls : Here(calls'[j]) =>
        \/ Here(calls[j]) /\ GoesOn(calls[j], calls'[j])
        \/ calls[j].op = "none" /\ Begins(calls[j], calls'[j])
  BY DEF Here, Quiet, GoesOn, Ends, Begins, Ours
<1>2. PlaceInv'
  <2>1. \A j \in Calls : calls'[j].op = "hydrate" => calls[j].op = "hydrate"
    BY DEF Quiet, GoesOn, Ends, Begins
  <2>2. \A j \in Calls : status = "loading" => calls'[j].op \in {"none", "hydrate"}
    BY DEF Inv, PlaceInv, Quiet, GoesOn, Ends, Begins
  <2>3. \A j \in Calls : Here(calls'[j]) => screen = ScreenOf(calls'[j].op)
    BY <1>1 DEF Inv, PlaceInv, GoesOn, Begins
  <2> QED
    BY <2>1, <2>2, <2>3 DEF Inv, PlaceInv, Hydrates
<1>3. MfaInv'
  <2>1. \A j \in Calls : Here(calls'[j]) /\ calls'[j].op = "disable" /\ calls'[j].at # "send" =>
          Here(calls[j]) /\ calls[j].op = "disable" /\ calls[j].at # "send"
    BY <1>1 DEF GoesOn, Begins
  <2>2. \A j \in Calls : Here(calls'[j]) /\ calls'[j].saw \in {"on", "off"} =>
          \/ Here(calls[j]) /\ calls[j].saw = calls'[j].saw
          \/ (calls'[j].saw = "on") = account.totp
    BY <1>1 DEF GoesOn, Begins
  <2>3. (\A j \in Calls : Here(calls'[j]) /\ calls'[j].op = "disable" => calls'[j].at = "send")
        => \A j \in Calls : Here(calls[j]) /\ calls[j].op = "disable" => calls[j].at = "send"
    BY DEF Quiet, GoesOn, Ends, Begins, Here, Ours
  <2> QED
    BY <2>1, <2>2, <2>3 DEF Inv, MfaInv, MfaSaidIsTrue, Agrees, Plain
<1>4. EditInv'
  <2>1. \A j \in Calls : Here(calls'[j]) /\ form'.loading => calls'[j].op = "refresh"
    BY <1>1 DEF Inv, EditInv, Plain, GoesOn, Begins
  <2>2. ASSUME NEW j \in Calls, Here(calls'[j]), calls'[j].op = "refresh"
        PROVE  form'.loading /\ \A l \in Calls : Here(calls'[l]) => j = l
    <3>1. Here(calls[j]) /\ calls[j].op = "refresh"
      BY <1>1, <2>2 DEF GoesOn, Begins
    <3>2. form.loading
      BY <3>1 DEF Inv, EditInv
    <3> QED
      BY <1>1, <3>1, <3>2 DEF Inv, EditInv, Plain, GoesOn, Begins
  <2> QED
    BY <2>1, <2>2 DEF Inv, EditInv, Plain
<1> QED
  BY <1>2, <1>3, <1>4

\* The secret on the screen is as it was, and no set-up begins.
LEMMA SetupKept ==
  ASSUME Inv, screen' = screen, SameSecret(form, form'),
         \A j \in Calls : calls'[j].op = "setup" =>
           calls[j].op = "setup" /\ calls'[j].saw = calls[j].saw
  PROVE  SetupInv'
BY DEF Inv, SetupInv, SecretIsLatest, SameSecret

\* The buttons: none is pressed or comes back ...
LEMMA BusyKept ==
  ASSUME Inv, form'.busy = form.busy,
         \A j \in Calls : \A k \in Keys : Holds(calls'[j], k) <=> Holds(calls[j], k)
  PROVE  BusyInv'
BY DEF Inv, BusyInv

\* ... one comes back ...
LEMMA BusyFreed ==
  ASSUME Inv, NEW i \in Calls, NEW k \in Keys, Holds(calls[i], k),
         \A l \in Keys : ~Holds(calls'[i], l),
         \A j \in Calls \ {i} : calls'[j] = calls[j],
         form'.busy = form.busy \ {k}
  PROVE  BusyInv'
BY DEF Inv, BusyInv, Holds

\* ... or one is pressed.
LEMMA BusyTaken ==
  ASSUME Inv, NEW i \in Calls, NEW k \in Keys, Holds(calls'[i], k), k \notin form.busy,
         \A l \in Keys : ~Holds(calls[i], l),
         \A j \in Calls \ {i} : \A l \in Keys : Holds(calls'[j], l) <=> Holds(calls[j], l),
         form'.busy = form.busy \cup {k}
  PROVE  BusyInv'
<1>1. \A j \in Calls : ~Holds(calls[j], k)
  BY DEF Inv, BusyInv
<1>2. \A l \in Keys : Holds(calls'[i], l) => l = k
  BY DEF Holds
<1>3. ASSUME NEW l \in Keys
      PROVE  /\ l \in form'.busy <=> \E j \in Calls : Holds(calls'[j], l)
             /\ \A j, m \in Calls : Holds(calls'[j], l) /\ Holds(calls'[m], l) => j = m
  <2>1. CASE l = k
    BY <1>1, <2>1
  <2>2. CASE l # k
    <3>1. \A j \in Calls : Holds(calls'[j], l) <=> Holds(calls[j], l)
      BY <1>2, <2>2
    <3> QED
      BY <2>2, <3>1 DEF Inv, BusyInv
  <2> QED
    BY <2>1, <2>2
<1> QED
  BY <1>3 DEF BusyInv

\* The sign-ins go on as they were.
LEMMA SignKept ==
  ASSUME Inv, tokens' => tokens,
         \A j \in Calls : SignsIn(calls'[j].op) =>
           /\ calls'[j].op = calls[j].op /\ calls'[j].alone = calls[j].alone
           /\ calls'[j].at = "again" => calls[j].at = "again" \/ ~tokens'
  PROVE  SignInv'
BY DEF Inv, SignInv, SignsAlone

\* So do the session and what was read of it.
LEMMA SessionKept ==
  ASSUME Inv, UNCHANGED <<tokens, cut, status, user>>, authError' => authError,
         \A j \in Calls : calls'[j].saw = "session" => calls[j].saw = "session"
  PROVE  SessionInv'
BY DEF Inv, SessionInv, SessionIsReal

\* The screen depends on the path, the status and the group.
LEMMA ScreenKept ==
  ASSUME page' = page, status' = status, account'.admin = account.admin
  PROVE  screen' = screen
BY DEF screen

\* A step without news is right, once its calls and its form are.
LEMMA QuietStep ==
  ASSUME Inv, NoNews, screen' = screen, Hydrates,
         calls' \in [Calls -> CallType], \A j \in Calls : Staged(calls'[j]),
         Plain(form, form'), \A j \in Calls : Quiet(calls[j], calls'[j]),
         SessionInv', SetupInv', BusyInv', SignInv'
  PROVE  Inv'
<1>1. PlaceInv' /\ MfaInv' /\ EditInv'
  BY PlainStep DEF NoNews
<1>2. Types'
  BY DEF Types, TypeOK, Plain, NoNews
<1> QED
  BY <1>1, <1>2 DEF Inv

\* So is one that mounts another screen, once its sessions are.
LEMMA RemountStep ==
  ASSUME Inv, NoNews, status' # "loading",
         NEW cs \in [Calls -> CallType], \A j \in Calls : Staged(cs[j]),
         NEW i \in Calls, Remount(cs, i, screen'),
         \A j \in Calls : cs[j].op # "hydrate",
         \A j \in Calls : cs[j].saw = "session" => tokens' \/ cut',
         SessionIsReal', SignsAlone(cs, tokens')
  PROVE  Inv'
<1>1. form' \in FormType /\ PlaceInv' /\ BusyInv' /\ SetupInv' /\ MfaInv' /\ EditInv'
  BY Remounted
<1>2. SignInv' /\ \A j \in Calls : calls'[j].saw = "session" => tokens' \/ cut'
  BY RemountedSigns
<1>3. calls' \in [Calls -> CallType] /\ \A j \in Calls : Staged(calls'[j])
  BY RemountedCalls
<1>4. Types' /\ SessionInv'
  BY <1>1, <1>2, <1>3 DEF Types, TypeOK, NoNews, SessionInv
<1> QED
  BY <1>1, <1>2, <1>4 DEF Inv

\* A handler goes on, or ends, without a word to the buttons.
LEMMA KeepStep ==
  ASSUME Inv, NoNews, screen' = screen, Hydrates, SessionInv', SignInv',
         NEW i \in Calls, NEW d \in CallType, Staged(d), NEW g,
         calls' = [calls EXCEPT ![i] = d], form' = IF calls[i].left THEN form ELSE g,
         Quiet(calls[i], d), \A l \in Keys : Holds(d, l) <=> Holds(calls[i], l),
         d.op = "setup" => calls[i].op = "setup" /\ d.saw = calls[i].saw,
         Plain(form, g), SameSecret(form, g), g.busy = form.busy
  PROVE  Inv'
<1>0. /\ calls \in [Calls -> CallType] /\ \A j \in Calls : Staged(calls[j])
      /\ form \in FormType
  BY DEF Inv, Types, TypeOK
<1>1. /\ calls' \in [Calls -> CallType] /\ \A j \in Calls : Staged(calls'[j])
      /\ calls'[i] = d /\ \A j \in Calls \ {i} : calls'[j] = calls[j]
  BY <1>0
<1>2. Plain(form, form') /\ SameSecret(form, form') /\ form'.busy = form.busy
  BY <1>0 DEF Plain, SameSecret
<1>3. \A j \in Calls : Quiet(calls[j], calls'[j])
  BY <1>1 DEF Quiet, GoesOn
<1>4. BusyInv'
  BY <1>1, <1>2, BusyKept
<1>5. SetupInv'
  BY <1>1, <1>2, SetupKept
<1> QED
  BY <1>1, <1>2, <1>3, <1>4, <1>5, QuietStep

\* A handler ends, or waits for its timer, and its button comes back if its screen is
\* still there.
LEMMA FreeStep ==
  ASSUME Inv, NoNews, screen' = screen, Hydrates, SessionInv', tokens' => tokens,
         NEW i \in Calls, NEW d \in CallType, Staged(d), NEW g,
         calls' = [calls EXCEPT ![i] = d], form' = IF calls[i].left THEN form ELSE g,
         Quiet(calls[i], d), \A l \in Keys : ~Holds(d, l),
         ~SignsIn(d.op), d.op # "setup",
         calls[i].op \notin Ours \cup {"refresh", "setup"}, calls[i].at # "timer",
         Plain(form, g), SameSecret(form, g), g.busy = form.busy \ {Key(calls[i])}
  PROVE  Inv'
<1>0. /\ calls \in [Calls -> CallType] /\ \A j \in Calls : Staged(calls[j])
      /\ form \in FormType
  BY DEF Inv, Types, TypeOK
<1>1. /\ calls' \in [Calls -> CallType] /\ \A j \in Calls : Staged(calls'[j])
      /\ calls'[i] = d /\ \A j \in Calls \ {i} : calls'[j] = calls[j]
  BY <1>0
<1>2. Plain(form, form') /\ SameSecret(form, form')
  BY <1>0 DEF Plain, SameSecret
<1>3. \A j \in Calls : Quiet(calls[j], calls'[j])
  BY <1>1 DEF Quiet, GoesOn
<1>4. BusyInv'
  <2>1. Key(calls[i]) \in Keys
    BY DEF Key, Keys
  <2>2. CASE calls[i].left
    <3>1. \A l \in Keys : ~Holds(calls[i], l)
      BY <2>2 DEF Holds, Here
    <3> QED
      BY <1>1, <2>2, <3>1, BusyKept
  <2>3. CASE ~calls[i].left
    <3>1. Holds(calls[i], Key(calls[i])) /\ form'.busy = form.busy \ {Key(calls[i])}
      BY <2>3 DEF Holds, Here
    <3> QED
      BY <1>1, <2>1, <3>1, BusyFreed
  <2> QED
    BY <2>2, <2>3
<1>5. SignInv'
  BY <1>1, SignKept
<1>6. SetupInv'
  BY <1>1, <1>2, SetupKept
<1> QED
  BY <1>1, <1>2, <1>3, <1>4, <1>5, <1>6, QuietStep

\* A handler is done, and says so on its screen.
LEMMA EndStep ==
  ASSUME Inv, NoNews, UNCHANGED <<tokens, cut>>, NEW i \in Calls, NEW g, Stay(i, Idle, g),
         calls[i].op \notin Ours \cup {"refresh", "setup"}, calls[i].at # "timer",
         calls[i].op = "disable" => calls[i].at = "send",
         Plain(form, g), SameSecret(form, g), g.busy = form.busy \ {Key(calls[i])}
  PROVE  Inv'
<1>1. /\ calls' = [calls EXCEPT ![i] = Idle]
      /\ form' = IF calls[i].left THEN form ELSE g
      /\ UNCHANGED <<page, status, user, authError>>
  BY DEF Stay, provider
<1>2. screen' = screen /\ Hydrates
  BY <1>1, ScreenKept DEF NoNews, Hydrates
<1>3. /\ Quiet(calls[i], Idle) /\ ~SignsIn(Idle.op) /\ Idle.op # "setup"
      /\ \A l \in Keys : ~Holds(Idle, l)
  BY IdleCall DEF Quiet, Ends, SignsIn, Holds
<1>4. SessionInv'
  <2>1. \A j \in Calls : calls'[j].saw = "session" => calls[j].saw = "session"
    BY <1>1, IdleCall DEF Inv, Types, TypeOK
  <2> QED
    BY <1>1, <2>1, SessionKept
<1> QED
  BY <1>1, <1>2, <1>3, <1>4, IdleCall, FreeStep

-----------------------------------------------------------------------------
(* What the handlers tell their screens.                                    *)

\* What every lemma below knows of the state.
LEMMA InvTypes ==
  ASSUME Inv
  PROVE  /\ account \in AccountType /\ tokens \in BOOLEAN /\ user \in BOOLEAN
         /\ authError \in BOOLEAN /\ cut \in BOOLEAN
         /\ pending \in {"none", "challenge_totp"} /\ status \in Statuses /\ page \in Pages
         /\ form \in FormType /\ calls \in [Calls -> CallType]
         /\ \A j \in Calls : Staged(calls[j])
BY DEF Inv, Types, TypeOK

\* The account's state may change: that is no news.
LEMMA StateNoNews ==
  ASSUME Inv, UNCHANGED <<provider, page, cut>>, UNCHANGED <<tokens, pending>>,
         \/ account' = account
         \/ \E state \in {"none", "unconfirmed", "confirmed"} :
              account' = [account EXCEPT !.state = state]
  PROVE  NoNews
<1>1. account' \in AccountType /\ account'.admin = account.admin /\ account'.totp = account.totp
  BY InvTypes DEF AccountType
<1> QED
  BY <1>1, InvTypes DEF NoNews, provider

\* A failure.
LEMMA FailedForm ==
  ASSUME NEW f \in FormType, NEW k \in Keys, NEW e \in {"none", "refused", "already"}
  PROVE  /\ Plain(f, Failed(k, e, f)) /\ SameSecret(f, Failed(k, e, f))
         /\ Failed(k, e, f).busy = f.busy \ {k}
<1> DEFINE g == [f EXCEPT !.busy = f.busy \ {k}, !.error = e]
<1>1. Failed(k, e, f) = g /\ g \in FormType
  BY DEF Failed, FormType, Keys
<1>2. Plain(f, g) /\ SameSecret(f, g) /\ g.busy = f.busy \ {k}
  BY <1>1 DEF Plain, SameSecret, FormType
<1> HIDE DEF g
<1> QED
  BY <1>1, <1>2

\* A success.
LEMMA ReadyForm ==
  ASSUME NEW f \in FormType, NEW k \in Keys
  PROVE  /\ Plain(f, Ready(k, f)) /\ SameSecret(f, Ready(k, f))
         /\ Ready(k, f).busy = f.busy \ {k}
<1> DEFINE g == [f EXCEPT !.busy = f.busy \ {k}]
<1>1. Ready(k, f) = g /\ g \in FormType
  BY FormHelpers
<1>2. Plain(f, g) /\ SameSecret(f, g) /\ g.busy = f.busy \ {k}
  BY <1>1 DEF Plain, SameSecret, FormType
<1> HIDE DEF g
<1> QED
  BY <1>1, <1>2

\* What is said with it.
LEMMA ToldForm ==
  ASSUME NEW f \in FormType, NEW g, Plain(f, g), SameSecret(f, g), NEW b \in BOOLEAN,
         NEW w \in {"none", "ok"}, NEW e \in {"none", "refused"}
  PROVE  \A h \in {[g EXCEPT !.flash = w], [g EXCEPT !.error = e], [g EXCEPT !.offer = b],
                   [g EXCEPT !.code = b], [g EXCEPT !.ask = b], [g EXCEPT !.cooling = b]} :
           Plain(f, h) /\ SameSecret(f, h) /\ h.busy = g.busy
BY DEF Plain, SameSecret, FormType

\* A form is plain to itself.
LEMMA SameForm == ASSUME NEW f \in FormType PROVE Plain(f, f) /\ SameSecret(f, f)
BY DEF Plain, SameSecret

\* A handler that was sent a refusal, or lost its answer.
LEMMA FailStep ==
  ASSUME Inv, NoNews, UNCHANGED <<tokens, cut>>, NEW i \in Calls,
         calls[i].op \notin Ours \cup {"refresh", "setup"}, calls[i].at # "timer",
         calls[i].op = "disable" => calls[i].at = "send",
         Stay(i, Idle, Failed(Key(calls[i]), "refused", form))
  PROVE  Inv'
<1>1. Key(calls[i]) \in Keys
  BY DEF Key, Keys
<1> QED
  BY <1>1, InvTypes, FailedForm, EndStep

\* Every handler but those of the profile and "resend" keeps "submit" off.
LEMMA SubmitKey ==
  ASSUME NEW c, c.op \notin {"save", "email", "disable", "password", "resend"}
  PROVE  Key(c) = "submit"
BY DEF Key

-----------------------------------------------------------------------------
(* Signing up, verifying, recovering, changing the profile.                 *)

\* Success is shown, and the timer of the redirect runs.
LEMMA RedirectsInv ==
  ASSUME Inv, NoNews, UNCHANGED <<tokens, cut>>, NEW i \in Calls, Redirects(i),
         calls[i].op \in {"verify", "reset"}, calls[i].at = "send"
  PROVE  Inv'
<1> DEFINE d == [calls[i] EXCEPT !.at = "timer"]
           g == [Ready("submit", form) EXCEPT !.flash = "ok"]
<1>1. /\ calls' = [calls EXCEPT ![i] = d]
      /\ form' = IF calls[i].left THEN form ELSE g
      /\ UNCHANGED <<page, status, user, authError>>
  BY DEF Redirects, Stay, provider
<1>2. /\ d \in CallType /\ d.op = calls[i].op /\ d.at = "timer" /\ d.left = calls[i].left
      /\ d.saw = calls[i].saw
  BY InvTypes DEF CallType, Stages
<1>3. Staged(d)
  <2>1. Staged(calls[i])
    BY InvTypes
  <2> QED
    BY <1>2, <2>1 DEF Staged, Refreshes
<1>4. /\ Quiet(calls[i], d) /\ ~SignsIn(d.op) /\ d.op # "setup"
      /\ \A l \in Keys : ~Holds(d, l)
  BY <1>2 DEF Quiet, GoesOn, SignsIn, Holds
<1>5. Plain(form, g) /\ SameSecret(form, g) /\ g.busy = form.busy \ {Key(calls[i])}
  <2>1. Key(calls[i]) = "submit" /\ "submit" \in Keys
    BY SubmitKey DEF Keys
  <2> DEFINE r == Ready("submit", form)
  <2>2. Plain(form, r) /\ SameSecret(form, r) /\ r.busy = form.busy \ {"submit"}
    BY <2>1, InvTypes, ReadyForm
  <2> HIDE DEF r
  <2>3. LET h == [r EXCEPT !.flash = "ok"] IN
        Plain(form, h) /\ SameSecret(form, h) /\ h.busy = r.busy
    BY <2>2, InvTypes, ToldForm
  <2> QED
    BY <2>1, <2>2, <2>3 DEF r
<1>6. screen' = screen /\ Hydrates
  BY <1>1, ScreenKept DEF NoNews, Hydrates
<1>7. SessionInv'
  <2>1. \A j \in Calls : calls'[j].saw = "session" => calls[j].saw = "session"
    BY <1>1, <1>2, InvTypes
  <2> QED
    BY <1>1, <2>1, SessionKept
<1>8. calls[i].op \notin Ours \cup {"refresh", "setup"}
  BY DEF Ours
<1> HIDE DEF d, g
<1> QED
  BY <1>1, <1>2, <1>3, <1>4, <1>5, <1>6, <1>7, <1>8, FreeStep

\* Verification is answered.
LEMMA VerifyAnsweredInv == ASSUME Inv, NEW i \in Calls, VerifyAnswered(i) PROVE Inv'
<1>1. calls[i].op = "verify" /\ calls[i].at = "send" /\ Key(calls[i]) = "submit"
  BY SubmitKey DEF VerifyAnswered, Sends
<1>2. calls[i].op \notin Ours \cup {"refresh", "setup"}
  BY <1>1 DEF Ours
<1>3. /\ UNCHANGED <<tokens, pending, cut>>
      /\ UNCHANGED <<provider, page>>
      /\ \/ account' = account
         \/ \E state \in {"none", "unconfirmed", "confirmed"} :
              account' = [account EXCEPT !.state = state]
  <2>1. CASE account.state = "unconfirmed" /\ account' = [account EXCEPT !.state = "confirmed"] /\ Redirects(i)
    BY <2>1 DEF VerifyAnswered, Redirects, Stay
  <2>2. CASE /\ Stay(i, Idle, Failed("submit", "refused", form))
             /\ account' \in {account, [account EXCEPT !.state = IF @ = "unconfirmed" THEN "confirmed" ELSE @]}
    <3>1. account.state \in {"none", "unconfirmed", "confirmed"}
      BY InvTypes DEF AccountType
    <3>2. account' = account \/ account' = [account EXCEPT !.state = IF account.state = "unconfirmed" THEN "confirmed" ELSE account.state]
      BY <2>2
    <3> QED
      BY <2>2, <3>1, <3>2 DEF VerifyAnswered, Stay
  <2> QED
    BY <2>1, <2>2 DEF VerifyAnswered
<1>4. NoNews
  BY <1>3, StateNoNews
<1>5. CASE Redirects(i)
  BY <1>1, <1>2, <1>3, <1>4, <1>5, RedirectsInv
<1>6. CASE Stay(i, Idle, Failed("submit", "refused", form))
  BY <1>1, <1>2, <1>3, <1>4, <1>6, FailStep
<1> QED
  BY <1>5, <1>6 DEF VerifyAnswered

\* A handler goes on to its next request.
LEMMA MoveStep ==
  ASSUME Inv, NoNews, NEW i \in Calls, NEW a \in Stages, NEW g,
         Stay(i, [calls[i] EXCEPT !.at = a], g),
         a \notin {"timer", "read"}, calls[i].at \notin {"timer", "read"},
         calls[i].op \notin {"none", "disable"},
         calls[i].op \in Refreshes => a = "fetch",
         Plain(form, g), SameSecret(form, g), g.busy = form.busy,
         status = "authenticated" => tokens' \/ cut',
         (\A j \in Calls : calls[j].saw # "session") \/ tokens' \/ cut',
         SignInv'
  PROVE  Inv'
<1> DEFINE d == [calls[i] EXCEPT !.at = a]
<1>1. /\ calls' = [calls EXCEPT ![i] = d]
      /\ form' = IF calls[i].left THEN form ELSE g
      /\ UNCHANGED <<page, status, user, authError>>
  BY DEF Stay, provider
<1>2. /\ d \in CallType /\ d.op = calls[i].op /\ d.at = a /\ d.left = calls[i].left
      /\ d.saw = calls[i].saw
  BY InvTypes DEF CallType
<1>3. Staged(calls[i])
  BY InvTypes
<1>4. Staged(d) /\ d.saw # "session"
  BY <1>2, <1>3 DEF Staged
<1>5. /\ Quiet(calls[i], d)
      /\ \A l \in Keys : Holds(d, l) <=> Holds(calls[i], l)
      /\ d.op = "setup" => calls[i].op = "setup" /\ d.saw = calls[i].saw
  BY <1>2 DEF Quiet, GoesOn, Holds, Key, Here
<1>6. screen' = screen /\ Hydrates
  BY <1>1, ScreenKept DEF NoNews, Hydrates
<1>7. SessionInv'
  <2>1. \A j \in Calls : calls'[j].saw = "session" => calls[j].saw = "session"
    BY <1>1, <1>2, InvTypes
  <2> QED
    BY <1>1, <2>1 DEF Inv, SessionInv, SessionIsReal
<1> HIDE DEF d
<1> QED
  BY <1>1, <1>2, <1>4, <1>5, <1>6, <1>7, KeepStep

\* A handler that is no sign-in does.
LEMMA NextRequest ==
  ASSUME Inv, NoNews, UNCHANGED <<tokens, cut>>, NEW i \in Calls, NEW a \in {"fetch", "prefer"},
         NEW g, Stay(i, [calls[i] EXCEPT !.at = a], g),
         calls[i].at = "send", calls[i].op \in {"activate", "save", "email"},
         a = "prefer" <=> calls[i].op = "activate",
         Plain(form, g), SameSecret(form, g), g.busy = form.busy
  PROVE  Inv'
<1>1. /\ a \in Stages \ {"timer", "read"} /\ calls[i].op \notin {"none", "disable"}
      /\ calls[i].op \in Refreshes => a = "fetch"
      /\ ~SignsIn(calls[i].op)
  BY DEF Stages, Refreshes, SignsIn
<1>2. calls' = [calls EXCEPT ![i] = [calls[i] EXCEPT !.at = a]]
  BY DEF Stay
<1>3. SignInv'
  <2>1. /\ calls'[i].op = calls[i].op
        /\ \A j \in Calls \ {i} : calls'[j] = calls[j]
    BY <1>2, InvTypes DEF CallType
  <2> QED
    BY <1>1, <2>1, SignKept
<1>4. /\ status = "authenticated" => tokens' \/ cut'
      /\ (\A j \in Calls : calls[j].saw # "session") \/ tokens' \/ cut'
  BY DEF Inv, SessionInv, SessionIsReal
<1> QED
  BY <1>1, <1>3, <1>4, MoveStep

\* A new password is taken, or not.
LEMMA ResetAnsweredInv == ASSUME Inv, NEW i \in Calls, ResetAnswered(i) PROVE Inv'
<1>1. /\ calls[i].op = "reset" /\ calls[i].at = "send" /\ Key(calls[i]) = "submit"
      /\ UNCHANGED <<account, tokens, pending, cut>>
  BY SubmitKey DEF ResetAnswered, Sends, cognito
<1>2. calls[i].op \notin Ours \cup {"refresh", "setup"}
  BY <1>1 DEF Ours
<1>3. CASE Redirects(i)
  <2>1. NoNews
    BY <1>1, <1>3, StateNoNews DEF Redirects, Stay
  <2> QED
    BY <1>1, <1>2, <1>3, <2>1, RedirectsInv
<1>4. CASE Stay(i, Idle, Failed("submit", "refused", form))
  <2>1. NoNews
    BY <1>1, <1>4, StateNoNews DEF Stay
  <2> QED
    BY <1>1, <1>2, <1>4, <2>1, FailStep
<1> QED
  BY <1>3, <1>4 DEF ResetAnswered

\* A code is sent again, or not.
LEMMA ResendAnsweredInv == ASSUME Inv, NEW i \in Calls, ResendAnswered(i) PROVE Inv'
<1>1. /\ calls[i].op = "resend" /\ calls[i].at = "send" /\ Key(calls[i]) = "resend"
      /\ UNCHANGED <<account, tokens, pending, cut>>
  BY DEF ResendAnswered, Sends, cognito, Key
<1>2. calls[i].op \notin Ours \cup {"refresh", "setup"} /\ "resend" \in Keys
  BY <1>1 DEF Ours, Keys
<1> DEFINE r == Ready("resend", form)
           s == [r EXCEPT !.cooling = TRUE]
           t == [s EXCEPT !.flash = "ok"]
<1>3. PICK ok \in BOOLEAN :
        Stay(i, Idle, IF ok THEN [r EXCEPT !.cooling = TRUE, !.flash = "ok"]
                      ELSE Failed("resend", "refused", form))
  BY DEF ResendAnswered
<1>4. NoNews
  BY <1>1, <1>3, StateNoNews DEF Stay
<1>5. CASE ok
  <2>1. Stay(i, Idle, t)
    BY <1>3, <1>5
  <2>2. Plain(form, r) /\ SameSecret(form, r) /\ r.busy = form.busy \ {"resend"}
    BY <1>2, InvTypes, ReadyForm
  <2> HIDE DEF r
  <2>3. Plain(form, s) /\ SameSecret(form, s) /\ s.busy = r.busy
    BY <2>2, InvTypes, ToldForm
  <2> HIDE DEF s
  <2>4. Plain(form, t) /\ SameSecret(form, t) /\ t.busy = s.busy
    BY <2>3, InvTypes, ToldForm
  <2> HIDE DEF t
  <2> QED
    BY <1>1, <1>2, <1>4, <2>1, <2>2, <2>3, <2>4, EndStep
<1>6. CASE ~ok
  BY <1>1, <1>2, <1>3, <1>4, <1>6, FailStep
<1> QED
  BY <1>5, <1>6

\* The password is changed, or not.
LEMMA PasswordChangedInv == ASSUME Inv, NEW i \in Calls, PasswordChanged(i) PROVE Inv'
<1>1. /\ calls[i].op = "password" /\ calls[i].at = "send" /\ Key(calls[i]) = "password"
      /\ UNCHANGED <<account, tokens, pending, cut>>
  BY DEF PasswordChanged, Sends, cognito, Key
<1>2. calls[i].op \notin Ours \cup {"refresh", "setup"} /\ "password" \in Keys
  BY <1>1 DEF Ours, Keys
<1> DEFINE r == Ready("password", form)
           t == [r EXCEPT !.flash = "ok"]
<1>3. CASE Stay(i, Idle, t)
  <2>1. NoNews
    BY <1>1, <1>3, StateNoNews DEF Stay
  <2>2. Plain(form, r) /\ SameSecret(form, r) /\ r.busy = form.busy \ {"password"}
    BY <1>2, InvTypes, ReadyForm
  <2> HIDE DEF r
  <2>3. Plain(form, t) /\ SameSecret(form, t) /\ t.busy = r.busy
    BY <2>2, InvTypes, ToldForm
  <2> HIDE DEF t
  <2> QED
    BY <1>1, <1>2, <1>3, <2>1, <2>2, <2>3, EndStep
<1>4. CASE Stay(i, Idle, Failed("password", "refused", form))
  <2>1. NoNews
    BY <1>1, <1>4, StateNoNews DEF Stay
  <2> QED
    BY <1>1, <1>2, <1>4, <2>1, FailStep
<1> QED
  BY <1>3, <1>4 DEF PasswordChanged

\* The code of the authenticator is right, or not.
LEMMA VerifyTotpInv == ASSUME Inv, NEW i \in Calls, VerifyTotp(i) PROVE Inv'
<1>1. /\ calls[i].op = "activate" /\ calls[i].at = "send" /\ Key(calls[i]) = "submit"
      /\ UNCHANGED <<account, tokens, pending, cut>>
  BY SubmitKey DEF VerifyTotp, Sends, cognito
<1>2. calls[i].op \notin Ours \cup {"refresh", "setup"}
  BY <1>1 DEF Ours
<1>3. CASE Stay(i, [calls[i] EXCEPT !.at = "prefer"], form)
  <2>1. NoNews
    BY <1>1, <1>3, StateNoNews DEF Stay
  <2> QED
    BY <1>1, <1>3, <2>1, InvTypes, SameForm, NextRequest
<1>4. CASE Stay(i, Idle, Failed("submit", "refused", form))
  <2>1. NoNews
    BY <1>1, <1>4, StateNoNews DEF Stay
  <2> QED
    BY <1>1, <1>2, <1>4, <2>1, FailStep
<1> QED
  BY <1>3, <1>4 DEF VerifyTotp

\* The attributes are stored, or wait for a code.
LEMMA SavedInv == ASSUME Inv, NEW i \in Calls, Saved(i) PROVE Inv'
<1>1. /\ calls[i].op = "save" /\ calls[i].at = "send" /\ Key(calls[i]) = "save"
      /\ UNCHANGED <<account, tokens, pending, cut>>
  BY DEF Saved, Sends, cognito, Key
<1>2. calls[i].op \notin Ours \cup {"refresh", "setup"} /\ "save" \in Keys
  BY <1>1 DEF Ours, Keys
<1> DEFINE t == [form EXCEPT !.flash = "ok"]
           r == Ready("save", form)
           c == [r EXCEPT !.code = TRUE]
           u == [c EXCEPT !.flash = "ok"]
<1>3. \/ Stay(i, [calls[i] EXCEPT !.at = "fetch"], t)
      \/ Stay(i, Idle, u)
      \/ Stay(i, Idle, Failed("save", "refused", form))
  <2>1. PICK result \in UpdateResults :
          Stay(i, IF result = "stored" THEN [calls[i] EXCEPT !.at = "fetch"] ELSE Idle,
               CASE result = "stored" -> t
                 [] result = "code" -> [Ready("save", form) EXCEPT !.code = TRUE, !.flash = "ok"]
                 [] OTHER -> Failed("save", "refused", form))
    BY DEF Saved
  <2>2. u = [Ready("save", form) EXCEPT !.code = TRUE, !.flash = "ok"]
    OBVIOUS
  <2> HIDE DEF t, u
  <2>3. CASE result = "stored"
    BY <2>1, <2>3
  <2>4. CASE result = "code"
    BY <2>1, <2>2, <2>4
  <2>5. CASE result \notin {"stored", "code"}
    BY <2>1, <2>5
  <2> QED
    BY <2>3, <2>4, <2>5
<1>4. NoNews
  BY <1>1, <1>3, StateNoNews DEF Stay
<1>5. CASE Stay(i, [calls[i] EXCEPT !.at = "fetch"], t)
  <2>1. Plain(form, t) /\ SameSecret(form, t) /\ t.busy = form.busy
    BY InvTypes, SameForm, ToldForm
  <2> HIDE DEF t
  <2> QED
    BY <1>1, <1>4, <1>5, <2>1, NextRequest
<1>6. CASE Stay(i, Idle, u)
  <2>1. Plain(form, r) /\ SameSecret(form, r) /\ r.busy = form.busy \ {"save"}
    BY <1>2, InvTypes, ReadyForm
  <2> HIDE DEF r
  <2>2. Plain(form, c) /\ SameSecret(form, c) /\ c.busy = r.busy
    BY <2>1, InvTypes, ToldForm
  <2> HIDE DEF c
  <2>3. Plain(form, u) /\ SameSecret(form, u) /\ u.busy = c.busy
    BY <2>2, InvTypes, ToldForm
  <2> HIDE DEF u
  <2> QED
    BY <1>1, <1>2, <1>4, <1>6, <2>1, <2>2, <2>3, EndStep
<1>7. CASE Stay(i, Idle, Failed("save", "refused", form))
  BY <1>1, <1>2, <1>4, <1>7, FailStep
<1> QED
  BY <1>3, <1>5, <1>6, <1>7

\* The code of the new address is right, or not.
LEMMA EmailVerifiedInv == ASSUME Inv, NEW i \in Calls, EmailVerified(i) PROVE Inv'
<1>1. /\ calls[i].op = "email" /\ calls[i].at = "send" /\ Key(calls[i]) = "save"
      /\ UNCHANGED <<account, tokens, pending, cut>>
  BY DEF EmailVerified, Sends, cognito, Key
<1>2. calls[i].op \notin Ours \cup {"refresh", "setup"}
  BY <1>1 DEF Ours
<1> DEFINE c == [form EXCEPT !.code = FALSE]
           t == [c EXCEPT !.flash = "ok"]
<1>3. CASE Stay(i, [calls[i] EXCEPT !.at = "fetch"], t)
  <2>1. NoNews
    BY <1>1, <1>3, StateNoNews DEF Stay
  <2>2. Plain(form, c) /\ SameSecret(form, c) /\ c.busy = form.busy
    BY InvTypes, SameForm, ToldForm
  <2> HIDE DEF c
  <2>3. Plain(form, t) /\ SameSecret(form, t) /\ t.busy = c.busy
    BY <2>2, InvTypes, ToldForm
  <2> HIDE DEF t
  <2> QED
    BY <1>1, <1>3, <2>1, <2>2, <2>3, NextRequest
<1>4. CASE Stay(i, Idle, Failed("save", "refused", form))
  <2>1. NoNews
    BY <1>1, <1>4, StateNoNews DEF Stay
  <2> QED
    BY <1>1, <1>2, <1>4, <2>1, FailStep
<1> QED
  BY <1>3, <1>4 DEF EmailVerified

-----------------------------------------------------------------------------
(* Signing in.                                                              *)

\* A request of a sign-in that goes on.
LEMMA SignsMoved ==
  ASSUME Inv, NEW i \in Calls, NEW a \in Stages, SignsIn(calls[i].op),
         calls' = [calls EXCEPT ![i] = [calls[i] EXCEPT !.at = a]],
         a = "again" => ~tokens'
  PROVE  SignInv'
<1>1. /\ calls'[i].op = calls[i].op /\ calls'[i].at = a /\ calls'[i].alone = calls[i].alone
      /\ \A j \in Calls \ {i} : calls'[j] = calls[j]
  BY InvTypes DEF CallType
<1> QED
  BY <1>1 DEF Inv, SignInv, SignsAlone

\* It does, with the tokens it has made, or made sure are gone.
LEMMA SignInMoves ==
  ASSUME Inv, NEW i \in Calls, NEW a \in {"clear", "again", "fetch"},
         Stay(i, [calls[i] EXCEPT !.at = a], form), SignsIn(calls[i].op),
         calls[i].at \notin {"timer", "read"},
         account' = account, tokens' \in BOOLEAN, cut' \in BOOLEAN,
         pending' \in {"none", "challenge_totp"},
         status = "authenticated" => tokens' \/ cut',
         (\A j \in Calls : calls[j].saw # "session") \/ tokens' \/ cut',
         a = "again" => ~tokens'
  PROVE  Inv'
<1>1. calls' = [calls EXCEPT ![i] = [calls[i] EXCEPT !.at = a]] /\ UNCHANGED <<page, provider>>
  BY DEF Stay
<1>2. /\ a \in Stages \ {"timer", "read"} /\ calls[i].op \notin {"none", "disable"}
      /\ calls[i].op \notin Refreshes
  BY DEF Stages, Refreshes, SignsIn
<1>3. SignInv'
  BY <1>1, <1>2, SignsMoved
<1>4. NoNews
  BY <1>1, InvTypes DEF NoNews, provider
<1> QED
  BY <1>2, <1>3, <1>4, InvTypes, SameForm, MoveStep

\* The sessions that were read of before are there or cut.
LEMMA SessionsRead ==
  ASSUME Inv
  PROVE  /\ status = "authenticated" => tokens \/ cut
         /\ \A j \in Calls : calls[j].saw = "session" => tokens \/ cut
         /\ ~Cuts => \A j \in Calls : calls[j].saw # "session"
<1>1. \A j \in Calls : calls[j].saw = "session" => calls[j].at = "read"
  BY InvTypes DEF Staged
<1> QED
  BY <1>1 DEF Inv, SessionInv, SessionIsReal, Cuts

\* A challenge is answered.
LEMMA ConfirmInv == ASSUME Inv, NEW i \in Calls, Confirm(i) PROVE Inv'
<1>1. /\ calls[i].op = "confirm" /\ calls[i].at = "send" /\ Key(calls[i]) = "submit"
      /\ UNCHANGED <<account, cut>>
  BY SubmitKey DEF Confirm, Sends
<1>2. CASE /\ tokens' = TRUE /\ pending' = "none"
           /\ Stay(i, [calls[i] EXCEPT !.at = "fetch"], form)
  BY <1>1, <1>2, InvTypes, SignInMoves DEF SignsIn
<1>3. CASE Stay(i, Idle, Failed("submit", "refused", form)) /\ UNCHANGED <<tokens, pending>>
  <2>1. NoNews
    BY <1>1, <1>3, StateNoNews DEF Stay
  <2> QED
    BY <1>1, <1>3, <2>1, FailStep DEF Ours
<1> QED
  BY <1>2, <1>3 DEF Confirm

\* A stale session is cleared.
LEMMA ClearStaleInv == ASSUME Inv, NEW i \in Calls, ClearStale(i) PROVE Inv'
<1>1. /\ calls[i].op = "signIn" /\ calls[i].at = "clear" /\ account' = account
      /\ tokens' = FALSE /\ pending' = "none" /\ cut' = (cut \/ Cuts)
      /\ Stay(i, [calls[i] EXCEPT !.at = "again"], form)
  BY DEF ClearStale
<1>2. cut' \in BOOLEAN /\ (status = "authenticated" => cut')
  BY <1>1, InvTypes DEF Cuts
<1>3. (\A j \in Calls : calls[j].saw # "session") \/ cut'
  BY <1>1, SessionsRead
<1> QED
  BY <1>1, <1>2, <1>3, SignInMoves DEF SignsIn

\* Another screen than the one there was, for a customer whose session is known.
LEMMA PublicShown ==
  ASSUME NEW s \in Statuses \ {"loading"}, NEW p \in Public \ {"mfa"}, NEW admin
  PROVE  Shown(p, s, admin) = p
BY DEF Shown, Public

\* With the session still to be read there is nothing but its reading.
LEMMA WhileLoading ==
  ASSUME Inv
  PROVE  /\ screen = "spinner" <=> status = "loading"
         /\ \A j \in Calls : calls[j].op \notin {"none", "hydrate"} => status # "loading"
         /\ status # "loading" => \A j \in Calls : calls[j].op # "hydrate"
         /\ \A i, j \in Calls : calls[i].op = "hydrate" /\ calls[j].op = "hydrate" => i = j
<1>1. screen = "spinner" <=> status = "loading"
  BY InvTypes DEF screen, Shown, Pages, Public
<1> QED
  BY <1>1 DEF Inv, PlaceInv

\* A handler that ends elsewhere, and goes to another screen, with its slot free again.
LEMMA GoneCalls ==
  ASSUME Inv, NEW i \in Calls, NEW d \in {Idle, Call("removeUser", "clear")}
  PROVE  LET cs == [calls EXCEPT ![i] = d] IN
         /\ cs \in [Calls -> CallType] /\ \A j \in Calls : Staged(cs[j])
         /\ status # "loading" \/ calls[i].op = "hydrate" => \A j \in Calls : cs[j].op # "hydrate"
         /\ \A j \in Calls : cs[j].saw = "session" => calls[j].saw = "session"
         /\ (tokens' => tokens) => SignsAlone(cs, tokens')
<1> DEFINE cs == [calls EXCEPT ![i] = d]
<1>1. d \in CallType /\ Staged(d) /\ d.op \notin {"hydrate", "signIn", "confirm"} /\ d.saw = "none"
  <2>1. "removeUser" \in Ops /\ "clear" \in Stages
    BY DEF Ops, Stages
  <2>2. CASE d = Idle
    BY <2>2, IdleCall
  <2>3. CASE d = Call("removeUser", "clear")
    <3>1. d \in CallType /\ d.op = "removeUser" /\ d.at = "clear" /\ d.saw = "none"
      BY <2>1, <2>3, NewCall
    <3> QED
      BY <3>1 DEF Staged, Refreshes
  <2> QED
    BY <2>2, <2>3
<1>2. /\ cs \in [Calls -> CallType] /\ cs[i] = d
      /\ \A j \in Calls \ {i} : cs[j] = calls[j]
  BY <1>1, InvTypes
<1>3. \A j \in Calls : Staged(cs[j])
  BY <1>1, <1>2, InvTypes
<1>4. status # "loading" \/ calls[i].op = "hydrate" => \A j \in Calls : cs[j].op # "hydrate"
  BY <1>1, <1>2, WhileLoading
<1>5. (tokens' => tokens) => SignsAlone(cs, tokens')
  BY <1>1, <1>2 DEF Inv, SignInv, SignsAlone, SignsIn
<1> QED
  BY <1>1, <1>2, <1>3, <1>4, <1>5

\* It does: the screen it goes to is another one, or the one there is.
LEMMA RenderStep ==
  ASSUME Inv, NoNews, NEW i \in Calls, NEW p, NEW s, NEW f,
         Render(p, s, IF calls[i].left THEN form ELSE f, [calls EXCEPT ![i] = Idle], i),
         s # "loading", status # "loading" \/ calls[i].op = "hydrate",
         SessionIsReal', tokens' => tokens,
         \A j \in Calls : calls[j].saw = "session" => tokens' \/ cut',
         calls[i].op \notin {"refresh", "setup", "disable"},
         screen' = screen /\ ~calls[i].left =>
           IF calls[i].op \in Ours THEN f = form
           ELSE /\ calls[i].at # "timer" /\ Plain(form, f) /\ SameSecret(form, f)
                /\ f.busy = form.busy \ {Key(calls[i])}
  PROVE  Inv'
<1> DEFINE cs == [calls EXCEPT ![i] = Idle]
           g == IF calls[i].left THEN form ELSE f
<1>1. /\ cs \in [Calls -> CallType] /\ \A j \in Calls : Staged(cs[j])
      /\ \A j \in Calls : cs[j].op # "hydrate"
      /\ \A j \in Calls : cs[j].saw = "session" => calls[j].saw = "session"
      /\ SignsAlone(cs, tokens')
  BY GoneCalls
<1>2. /\ status' = s
      /\ \/ screen' = screen /\ form' = g /\ calls' = cs
         \/ Remount(cs, i, screen')
  BY RenderCases DEF NoNews
<1>3. CASE Remount(cs, i, screen')
  <2> HIDE DEF cs
  <2> QED
    BY <1>1, <1>2, <1>3, RemountStep
<1>4. CASE screen' = screen /\ form' = g /\ calls' = cs
  <2>1. Hydrates
    BY <1>1, <1>2, <1>4 DEF Hydrates
  <2>2. SessionInv'
    BY <1>1, <1>4 DEF SessionInv
  <2>3. Quiet(calls[i], Idle) /\ \A l \in Keys : ~Holds(Idle, l)
    BY IdleCall DEF Quiet, Ends, Holds
  <2>4. CASE Here(calls[i])
    <3>1. /\ calls[i].op \notin Ours \cup {"refresh", "setup"} /\ calls[i].at # "timer"
          /\ Plain(form, f) /\ SameSecret(form, f)
          /\ f.busy = form.busy \ {Key(calls[i])}
      BY <1>4, <2>4 DEF Here
    <3> QED
      BY <1>4, <2>1, <2>2, <2>3, <3>1, IdleCall, FreeStep DEF SignsIn
  <2>5. CASE ~Here(calls[i])
    <3>1. form' = IF calls[i].left THEN form ELSE form
      BY <1>4, <2>5 DEF Here
    <3>2. SignInv'
      BY <1>1, <1>4 DEF SignInv
    <3>3. \A l \in Keys : ~Holds(calls[i], l)
      BY <2>5 DEF Holds
    <3> QED
      BY <1>4, <2>1, <2>2, <2>3, <3>1, <3>2, <3>3, IdleCall, InvTypes, SameForm, KeepStep
  <2> QED
    BY <2>4, <2>5
<1> QED
  BY <1>2, <1>3, <1>4

\* navigate() at the end of a handler takes the customer off its screen.
LEMMA NavigateStep ==
  ASSUME Inv, NEW i \in Calls, NEW p \in Public \ {"mfa", "callback"}, Navigate(i, p),
         UNCHANGED <<tokens, pending, cut>>,
         \/ account' = account
         \/ \E state \in {"none", "unconfirmed", "confirmed"} :
              account' = [account EXCEPT !.state = state],
         calls[i].op \notin Ours \cup {"refresh", "setup", "disable"},
         p # ScreenOf(calls[i].op)
  PROVE  Inv'
<1> DEFINE f == Ready("submit", form)
           cs == [calls EXCEPT ![i] = Idle]
<1>1. /\ Render(p, status, IF calls[i].left THEN form ELSE f, cs, i)
      /\ UNCHANGED <<user, authError>>
  BY DEF Navigate
<1>2. account' \in AccountType /\ account'.admin = account.admin /\ account'.totp = account.totp
  BY InvTypes DEF AccountType
<1>3. page' = p /\ status' = status
  BY <1>1 DEF Render
<1>4. NoNews
  BY <1>1, <1>2, <1>3, InvTypes DEF NoNews, Pages
<1>5. status # "loading"
  BY WhileLoading DEF Ours
<1>6. screen' = p
  BY <1>3, <1>5, InvTypes, PublicShown DEF screen
<1>7. calls[i].left \/ screen' # screen
  BY <1>6 DEF Inv, PlaceInv, Here
<1>8. SessionIsReal'
  BY <1>1, <1>3 DEF Inv, SessionInv, SessionIsReal
<1>9. \A j \in Calls : calls[j].saw = "session" => tokens' \/ cut'
  BY SessionsRead
<1> HIDE DEF f
<1> QED
  BY <1>1, <1>4, <1>5, <1>7, <1>8, <1>9, RenderStep

\* The timer of a verification or a reset fires.
LEMMA TimerInv == ASSUME Inv, NEW i \in Calls, Timer(i) PROVE Inv'
<1>1. calls[i].op \in {"verify", "reset"}
  BY InvTypes DEF Timer, Staged
<1> QED
  BY <1>1, NavigateStep DEF Timer, cognito, Ours, Public, ScreenOf

\* A code is asked for, whoever owns the address.
LEMMA ForgotAnsweredInv == ASSUME Inv, NEW i \in Calls, ForgotAnswered(i) PROVE Inv'
BY NavigateStep DEF ForgotAnswered, Sends, cognito, Ours, Public, ScreenOf

\* An account is made, or not.
LEMMA SignUpAnsweredInv == ASSUME Inv, NEW i \in Calls, SignUpAnswered(i) PROVE Inv'
<1>1. /\ calls[i].op = "signUp" /\ calls[i].at = "send" /\ Key(calls[i]) = "submit"
      /\ UNCHANGED <<tokens, pending, cut>>
  BY SubmitKey DEF SignUpAnswered, Sends
<1>2. CASE \E state \in {"unconfirmed", "confirmed"} :
             /\ account' = [account EXCEPT !.state = state]
             /\ Navigate(i, IF state = "confirmed" THEN "login" ELSE "verify-email")
  <2>1. PICK state \in {"unconfirmed", "confirmed"} :
             /\ account' = [account EXCEPT !.state = state]
             /\ Navigate(i, IF state = "confirmed" THEN "login" ELSE "verify-email")
    BY <1>2
  <2> DEFINE p == IF state = "confirmed" THEN "login" ELSE "verify-email"
  <2>2. p \in Public \ {"mfa", "callback"} /\ p # ScreenOf(calls[i].op) /\ Navigate(i, p)
    BY <1>1, <2>1 DEF Public, ScreenOf
  <2> HIDE DEF p
  <2>3. calls[i].op \notin Ours \cup {"refresh", "setup", "disable"}
    BY <1>1 DEF Ours
  <2> QED
    BY <1>1, <2>1, <2>2, <2>3, NavigateStep
<1>3. CASE \E known \in {FALSE, account.state # "none"}, lost \in {FALSE, account.state = "none"} :
          /\ Stay(i, Idle, [Failed("submit", "refused", form) EXCEPT !.offer = known])
          /\ account' = IF lost THEN [account EXCEPT !.state = "unconfirmed"] ELSE account
  <2> DEFINE r == Failed("submit", "refused", form)
  <2>1. PICK known \in BOOLEAN, lost \in BOOLEAN :
          /\ Stay(i, Idle, [r EXCEPT !.offer = known])
          /\ account' = IF lost THEN [account EXCEPT !.state = "unconfirmed"] ELSE account
    BY <1>3
  <2> DEFINE t == [r EXCEPT !.offer = known]
  <2>2. NoNews
    BY <1>1, <2>1, StateNoNews DEF Stay
  <2>3. Plain(form, r) /\ SameSecret(form, r) /\ r.busy = form.busy \ {"submit"}
    BY InvTypes, FailedForm DEF Keys
  <2> HIDE DEF r
  <2>4. Plain(form, t) /\ SameSecret(form, t) /\ t.busy = r.busy
    BY <2>3, InvTypes, ToldForm
  <2> HIDE DEF t
  <2>5. calls[i].op \notin Ours \cup {"refresh", "setup"}
    BY <1>1 DEF Ours
  <2>6. Stay(i, Idle, t)
    BY <2>1 DEF t
  <2> QED
    BY <1>1, <2>2, <2>3, <2>4, <2>5, <2>6, EndStep
<1> QED
  BY <1>2, <1>3 DEF SignUpAnswered

\* The session is read.
LEMMA FetchSessionInv == ASSUME Inv, NEW i \in Calls, FetchSession(i) PROVE Inv'
<1>1. PICK saw \in {IF tokens THEN "session" ELSE "none", "error"} :
        calls' = [calls EXCEPT ![i].at = "read", ![i].saw = saw]
  BY DEF FetchSession
<1> DEFINE d == [calls[i] EXCEPT !.at = "read", !.saw = saw]
<1>2. /\ calls[i].at = "fetch" /\ calls[i].op \in {"hydrate", "signIn", "confirm"}
      /\ UNCHANGED <<account, tokens, pending, status, user, authError, page, form, cut>>
  BY DEF FetchSession, cognito, provider
<1>3. calls' = [calls EXCEPT ![i] = d]
  BY <1>1, InvTypes
<1>4. /\ d \in CallType /\ d.op = calls[i].op /\ d.at = "read" /\ d.left = calls[i].left
      /\ d.saw = saw /\ d.alone = calls[i].alone
  BY <1>1, InvTypes DEF CallType, Stages
<1>5. Staged(d)
  BY <1>1, <1>2, <1>4 DEF Staged, Refreshes
<1>6. /\ Quiet(calls[i], d) /\ \A l \in Keys : Holds(d, l) <=> Holds(calls[i], l)
      /\ d.op # "setup"
  BY <1>1, <1>2, <1>4 DEF Quiet, GoesOn, Holds, Here, Key
<1>7. screen' = screen /\ Hydrates /\ NoNews
  BY <1>2, ScreenKept, InvTypes DEF Hydrates, NoNews
<1> HIDE DEF d
<1>8. calls'[i] = d /\ \A j \in Calls \ {i} : calls'[j] = calls[j]
  BY <1>3, InvTypes
<1>9. SessionInv'
  BY <1>1, <1>2, <1>4, <1>8 DEF Inv, SessionInv, SessionIsReal
<1>10. SignInv'
  BY <1>2, <1>4, <1>8, SignKept
<1>11. form' = IF calls[i].left THEN form ELSE form
  BY <1>2
<1> QED
  BY <1>3, <1>4, <1>5, <1>6, <1>7, <1>9, <1>10, <1>11, InvTypes, SameForm, KeepStep

\* What was read becomes the provider's.
LEMMA HydrateInv == ASSUME Inv, NEW i \in Calls, Hydrate(i) PROVE Inv'
<1> DEFINE in == calls[i].saw = "session"
           s == IF in THEN "authenticated" ELSE "unauthenticated"
           f == Ready("submit", form)
           p == AfterHydrate(calls[i].op)
           cs == [calls EXCEPT ![i] = Idle]
<1>1. /\ calls[i].at = "read" /\ calls[i].op \in {"hydrate", "signIn", "confirm"}
      /\ user' = in /\ authError' = (calls[i].saw = "error" \/ (~in /\ authError))
      /\ Render(p, s, IF calls[i].left THEN form ELSE f, cs, i)
      /\ cut' = (cut /\ ~tokens)
      /\ UNCHANGED <<account, tokens, pending>>
  BY DEF Hydrate, cognito
<1>2. page' \in {p, "products"} /\ status' = s
  BY <1>1, RenderCases
<1>3. s \in Statuses \ {"loading", "challenge_totp"}
  BY DEF Statuses
<1>4. NoNews
  <2>1. p \in Pages
    BY InvTypes DEF AfterHydrate, Pages, Public
  <2>2. user' \in BOOLEAN /\ authError' \in BOOLEAN /\ cut' \in BOOLEAN
    BY <1>1
  <2>3. page' \in Pages /\ status' \in Statuses
    BY <1>2, <1>3, <2>1 DEF Pages
  <2> QED
    BY <1>1, <2>2, <2>3, InvTypes DEF NoNews
<1>5. \A j \in Calls : calls[j].saw = "session" => tokens' \/ cut'
  BY <1>1, SessionsRead
<1>6. SessionIsReal'
  BY <1>1, <1>2, <1>5 DEF SessionIsReal
<1>7. status # "loading" \/ calls[i].op = "hydrate"
  BY <1>1, WhileLoading
<1>8. ASSUME screen' = screen, ~calls[i].left
      PROVE  /\ calls[i].op \notin Ours
             /\ Plain(form, f) /\ SameSecret(form, f) /\ f.busy = form.busy \ {Key(calls[i])}
  <2>1. calls[i].op # "hydrate"
    <3>1. SUFFICES ASSUME calls[i].op = "hydrate" PROVE FALSE
      OBVIOUS
    <3>2. screen = "spinner"
      BY <3>1, WhileLoading DEF Inv, PlaceInv
    <3>3. screen' # "spinner"
      BY <1>2, <1>3, <1>4 DEF screen, Shown, NoNews, Pages, Public
    <3> QED
      BY <1>8, <3>2, <3>3
  <2>2. Key(calls[i]) = "submit" /\ "submit" \in Keys /\ calls[i].op \notin Ours
    BY <1>1, <2>1 DEF Key, Keys, Ours
  <2> QED
    BY <2>2, InvTypes, ReadyForm
<1> HIDE DEF in, s, f, p
<1> QED
  BY <1>1, <1>3, <1>4, <1>5, <1>6, <1>7, <1>8, RenderStep

\* A challenge is shown, or said to be one that cannot be met.
LEMMA ChallengedInv ==
  ASSUME Inv, NEW i \in Calls, NEW result, Challenged(i, result), ~tokens,
         result \in {"challenge_totp", "challenge_totp_setup", "challenge_other", "unknown"},
         calls[i].op = "signIn", calls[i].at # "timer", UNCHANGED <<account, cut>>
  PROVE  Inv'
<1> DEFINE f == Failed("submit", "refused", form)
           s == IF result # "unknown" THEN result ELSE "unauthenticated"
           p == ChallengePage(result)
           cs == [calls EXCEPT ![i] = Idle]
<1>1. /\ tokens' = FALSE /\ pending' = (IF result = "challenge_totp" THEN result ELSE "none")
      /\ user' = user /\ authError' = (result = "unknown")
      /\ Render(p, s, IF calls[i].left THEN form ELSE f, cs, i)
  BY DEF Challenged
<1>2. page' \in {p, "products"} /\ status' = s
  BY <1>1, RenderCases
<1>3. s \in Statuses \ {"loading", "authenticated"} /\ status # "loading"
  BY WhileLoading DEF Statuses
<1>4. NoNews
  <2>1. p \in Pages
    BY InvTypes DEF ChallengePage, Pages, Public
  <2> QED
    BY <1>1, <1>2, <1>3, <2>1, InvTypes DEF NoNews, Pages
<1>5. SessionIsReal'
  BY <1>2, <1>3 DEF SessionIsReal
<1>6. \A j \in Calls : calls[j].saw = "session" => tokens' \/ cut'
  BY <1>1, SessionsRead
<1>7. Plain(form, f) /\ SameSecret(form, f) /\ f.busy = form.busy \ {Key(calls[i])}
  <2>1. Key(calls[i]) = "submit" /\ "submit" \in Keys
    BY DEF Key, Keys
  <2> QED
    BY <2>1, InvTypes, FailedForm
<1>8. calls[i].op \notin Ours \cup {"refresh", "setup", "disable"}
  BY DEF Ours
<1> HIDE DEF s, f, p
<1> QED
  BY <1>1, <1>3, <1>4, <1>5, <1>6, <1>7, <1>8, RenderStep

\* The session is cleared, and the provider's copy with it.
LEMMA RemoveUserInv == ASSUME Inv, NEW i \in Calls, RemoveUser(i) PROVE Inv'
<1> DEFINE cs == [calls EXCEPT ![i] = Idle]
<1>1. /\ calls[i].op = "removeUser" /\ tokens' = FALSE /\ pending' = "none"
      /\ user' = FALSE /\ authError' = FALSE /\ cut' = (cut \/ Cuts) /\ account' = account
      /\ Render(page, "unauthenticated", IF calls[i].left THEN form ELSE form, cs, i)
  BY DEF RemoveUser
<1>2. page' \in {page, "products"} /\ status' = "unauthenticated"
  BY <1>1, RenderCases
<1>3. NoNews
  <2>1. cut' \in BOOLEAN
    BY <1>1, InvTypes DEF Cuts
  <2> QED
    BY <1>1, <1>2, <2>1, InvTypes DEF NoNews, Pages, Statuses
<1>4. SessionIsReal'
  BY <1>2 DEF SessionIsReal
<1>5. \A j \in Calls : calls[j].saw = "session" => tokens' \/ cut'
  BY <1>1, SessionsRead
<1>6. status # "loading"
  BY <1>1, WhileLoading
<1>7. calls[i].op \in Ours \ {"refresh", "setup", "disable"}
  BY <1>1 DEF Ours
<1> QED
  BY <1>1, <1>3, <1>4, <1>5, <1>6, <1>7, RenderStep

\* Cognito answers a sign-in.
LEMMA AttemptInv == ASSUME Inv, NEW i \in Calls, Attempt(i) PROVE Inv'
<1>1. /\ calls[i].op = "signIn" /\ calls[i].at \in {"attempt", "again"}
      /\ Key(calls[i]) = "submit" /\ "submit" \in Keys
      /\ UNCHANGED <<account, cut>>
  BY SubmitKey DEF Attempt, Keys
<1>2. PICK result \in Attempts :
        IF result = "already" /\ calls[i].at = "attempt"
        THEN Stay(i, [calls[i] EXCEPT !.at = "clear"], form) /\ UNCHANGED <<tokens, pending>>
        ELSE Result(i, result)
  BY DEF Attempt
<1>3. calls[i].op \notin Ours \cup {"refresh", "setup"}
  BY <1>1 DEF Ours
<1>4. result # "already" => ~tokens
  BY <1>2 DEF Attempts
<1>5. result \in {"already", "refused", "unconfirmed", "signedIn", "unknown",
                  "challenge_totp", "challenge_totp_setup", "challenge_other"}
  BY <1>2, InvTypes DEF Attempts, AccountType
<1>6. CASE result = "already" /\ calls[i].at = "attempt"
  <2>1. /\ Stay(i, [calls[i] EXCEPT !.at = "clear"], form) /\ UNCHANGED <<tokens, pending>>
    BY <1>2, <1>6
  <2>2. (\A j \in Calls : calls[j].saw # "session") \/ tokens' \/ cut'
    BY <1>1, <2>1, SessionsRead
  <2> QED
    BY <1>1, <2>1, <2>2, InvTypes, SessionsRead, SignInMoves DEF SignsIn
<1>7. CASE Result(i, result) /\ result = "signedIn"
  <2>1. /\ tokens' = TRUE /\ pending' = "none"
        /\ Stay(i, [calls[i] EXCEPT !.at = "fetch"], form)
    BY <1>7 DEF Result, SignedIn
  <2> QED
    BY <1>1, <2>1, InvTypes, SignInMoves DEF SignsIn
<1>8. CASE Result(i, result) /\ result \in {"already", "refused", "unconfirmed"}
  <2> DEFINE e == IF result = "already" THEN result ELSE "refused"
             b == result = "unconfirmed"
             r == Failed("submit", e, form)
             t == [r EXCEPT !.offer = b]
  <2>1. Refused(i, result)
    BY <1>8 DEF Result
  <2>2. tokens' = tokens /\ pending' = "none" /\ Stay(i, Idle, t)
    BY <2>1 DEF Refused
  <2>3. e \in {"none", "refused", "already"} /\ b \in BOOLEAN
    BY <1>8
  <2> HIDE DEF e, b
  <2>4. Plain(form, r) /\ SameSecret(form, r) /\ r.busy = form.busy \ {"submit"}
    BY <1>1, <2>3, InvTypes, FailedForm
  <2> HIDE DEF r
  <2>5. Plain(form, t) /\ SameSecret(form, t) /\ t.busy = r.busy
    BY <2>3, <2>4, InvTypes, ToldForm
  <2> HIDE DEF t
  <2>6. NoNews
    BY <1>1, <2>2, InvTypes DEF Stay, provider, NoNews
  <2> QED
    BY <1>1, <1>3, <2>2, <2>4, <2>5, <2>6, EndStep
<1>9. CASE /\ Result(i, result)
           /\ result \in {"challenge_totp", "challenge_totp_setup", "challenge_other", "unknown"}
  <2>1. Challenged(i, result)
    BY <1>9 DEF Result
  <2> QED
    BY <1>1, <1>4, <1>9, <2>1, ChallengedInv
<1> QED
  BY <1>2, <1>5, <1>6, <1>7, <1>8, <1>9

\* A page that has just been loaded.
Loaded ==
  /\ account \in AccountType /\ tokens \in BOOLEAN /\ pending = "none" /\ page \in Pages
  /\ status = "loading" /\ user = FALSE /\ authError = FALSE /\ cut = FALSE
  /\ form = Mounted("spinner")
  /\ \E i \in Calls : calls = [[j \in Calls |-> Idle] EXCEPT ![i] = Call("hydrate", "fetch")]

\* A page that has just been loaded, with the session about to be read.
LEMMA LoadedInv == Loaded => Inv
<1> SUFFICES ASSUME Loaded PROVE Inv
  OBVIOUS
<1>1. PICK i \in Calls : calls = [[j \in Calls |-> Idle] EXCEPT ![i] = Call("hydrate", "fetch")]
  BY DEF Loaded
<1>2. /\ account \in AccountType /\ tokens \in BOOLEAN /\ pending = "none" /\ page \in Pages
      /\ status = "loading" /\ user = FALSE /\ authError = FALSE /\ cut = FALSE
      /\ form = Mounted("spinner")
  BY DEF Loaded
<1> DEFINE d == Call("hydrate", "fetch")
<1>3. d \in CallType /\ d.op = "hydrate" /\ d.at = "fetch" /\ d.saw = "none" /\ ~d.left
  BY NewCall DEF Ops, Stages
<1>4. Staged(d) /\ ~Here(d)
  BY <1>3 DEF Staged, Refreshes, Here, Ours
<1>5. calls[i] = d /\ \A j \in Calls \ {i} : calls[j] = Idle
  BY <1>1
<1>6. calls \in [Calls -> CallType] /\ \A j \in Calls : Staged(calls[j])
  BY <1>1, <1>3, <1>4, IdleCall
<1> HIDE DEF d
<1>7. \A j \in Calls : ~Here(calls[j]) /\ calls[j].saw = "none" /\ calls[j].op \in {"none", "hydrate"}
  BY <1>3, <1>4, <1>5, IdleCall
<1>8. /\ form \in FormType /\ form.busy = {} /\ ~form.done /\ form.secret = "none"
      /\ ~form.loading /\ ~form.edited /\ form.flash = "none"
  BY <1>2 DEF Mounted, FormType
<1>9. screen = "spinner"
  BY <1>2 DEF screen, Shown
<1>10. Types
  BY <1>2, <1>6, <1>8 DEF Types, TypeOK, Statuses
<1>11. PlaceInv
  BY <1>2, <1>3, <1>5, <1>7, IdleCall DEF PlaceInv
<1>12. BusyInv
  BY <1>7, <1>8 DEF BusyInv, Holds
<1>13. SessionInv
  BY <1>2, <1>7 DEF SessionInv, SessionIsReal
<1>14. SetupInv
  BY <1>8, <1>9 DEF SetupInv, SecretIsLatest
<1>15. MfaInv
  BY <1>7, <1>8, <1>9 DEF MfaInv, MfaSaidIsTrue
<1>16. SignInv
  BY <1>7 DEF SignInv, SignsAlone, SignsIn
<1>17. EditInv
  BY <1>7, <1>8 DEF EditInv
<1> QED
  BY <1>10, <1>11, <1>12, <1>13, <1>14, <1>15, <1>16, <1>17 DEF Inv

\* The first page is loaded ...
LEMMA InitInv == Init => Inv
<1>1. Init => Loaded
  <2> SUFFICES ASSUME Init PROVE Loaded
    OBVIOUS
  <2>1. account \in AccountType /\ tokens \in BOOLEAN
    BY SessionAssumption DEF Init
  <2>2. (CHOOSE j \in Calls : TRUE) \in Calls
    BY SessionAssumption
  <2> QED
    BY <2>1, <2>2 DEF Init, Loaded
<1> QED
  BY <1>1, LoadedInv

\* ... and the others.
LEMMA LoadInv ==
  ASSUME Inv, NEW p \in Pages, Load(p), account' = account, tokens' \in BOOLEAN
  PROVE  Inv'
<1>1. Loaded'
  <2>1. (CHOOSE j \in Calls : TRUE) \in Calls
    BY SessionAssumption
  <2> QED
    BY <2>1, InvTypes DEF Load, Loaded
<1>2. Loaded' => Inv'
  BY LoadedInv, PTL
<1> QED
  BY <1>1, <1>2

\* The customer signs out, for good.
LEMMA SignOutInv == ASSUME Inv, NEW i \in Calls, SignOut(i) PROVE Inv'
BY LoadInv DEF SignOut, Pages, Public

-----------------------------------------------------------------------------
(* What the customer does.                                                  *)

\* A call starts in a free slot.
LEMMA FreeSlot ==
  ASSUME Inv, Free # {}
  PROVE  LET i == CHOOSE j \in Free : TRUE IN i \in Calls /\ calls[i].op = "none" /\ calls[i] = Idle
<1>1. (CHOOSE j \in Free : TRUE) \in Free
  OBVIOUS
<1> QED
  BY <1>1, InvTypes DEF Free, Staged

\* A link is followed.
LEMMA GoInv == ASSUME Inv, NEW p \in Pages, Go(p) PROVE Inv'
<1> DEFINE i == CHOOSE j \in Free : TRUE
<1>1. /\ p \in Links /\ Free # {} /\ Render(p, status, form, calls, i)
      /\ UNCHANGED <<account, tokens, pending, user, authError, cut>>
  BY DEF Go, cognito
<1>2. i \in Calls
  BY <1>1, FreeSlot
<1> HIDE DEF i
<1>3. /\ page' \in {p, "products"} /\ status' = status
      /\ \/ screen' = screen /\ form' = form /\ calls' = calls
         \/ Remount(calls, i, screen')
  BY <1>1, <1>2, RenderCases
<1>4. status # "loading"
  BY <1>1, WhileLoading DEF Links, Header
<1>5. NoNews
  BY <1>1, <1>3, InvTypes DEF NoNews, Pages
<1>6. SessionIsReal'
  BY <1>1, <1>3 DEF Inv, SessionInv, SessionIsReal
<1>7. CASE screen' = screen /\ form' = form /\ calls' = calls
  <2>1. Hydrates /\ \A j \in Calls : Quiet(calls[j], calls'[j])
    BY <1>3, <1>7 DEF Hydrates, Quiet, GoesOn
  <2>2. BusyInv' /\ SetupInv' /\ SignInv' /\ SessionInv'
    <3>1. SetupInv'
      BY <1>7, InvTypes, SameForm, SetupKept
    <3>2. BusyInv'
      BY <1>7, BusyKept
    <3>3. SignInv'
      BY <1>1, <1>7, SignKept
    <3>4. SessionInv'
      BY <1>1, <1>3, <1>7, SessionKept
    <3> QED
      BY <3>1, <3>2, <3>3, <3>4
  <2> QED
    BY <1>5, <1>7, <2>1, <2>2, InvTypes, SameForm, QuietStep
<1>8. CASE Remount(calls, i, screen')
  <2>1. \A j \in Calls : calls[j].op # "hydrate"
    BY <1>4, WhileLoading
  <2>2. \A j \in Calls : calls[j].saw = "session" => tokens' \/ cut'
    BY <1>1, SessionsRead
  <2>3. SignsAlone(calls, tokens')
    BY <1>1 DEF Inv, SignInv
  <2> QED
    BY <1>2, <1>3, <1>4, <1>5, <1>6, <1>8, <2>1, <2>2, <2>3, InvTypes, RemountStep
<1> QED
  BY <1>3, <1>7, <1>8

\* A sign-in is given up on the screen of its challenge.
LEMMA CancelInv == ASSUME Inv, Cancel PROVE Inv'
<1> DEFINE i == CHOOSE j \in Free : TRUE
           cs == [calls EXCEPT ![i] = Call("removeUser", "clear")]
<1>1. /\ screen = "mfa" /\ Free # {} /\ Render("login", status, form, cs, i)
      /\ UNCHANGED <<account, tokens, pending, user, authError, cut>>
  BY DEF Cancel, cognito
<1>2. i \in Calls
  BY <1>1, FreeSlot
<1> HIDE DEF i
<1>3. status # "loading"
  BY <1>1, WhileLoading
<1>4. /\ cs \in [Calls -> CallType] /\ \A j \in Calls : Staged(cs[j])
      /\ \A j \in Calls : cs[j].op # "hydrate"
      /\ \A j \in Calls : cs[j].saw = "session" => calls[j].saw = "session"
      /\ SignsAlone(cs, tokens')
  BY <1>1, <1>2, <1>3, GoneCalls
<1> HIDE DEF cs
<1>5. /\ page' = "login" /\ status' = status
      /\ \/ screen' = screen /\ form' = form /\ calls' = cs
         \/ Remount(cs, i, screen')
  <2>1. /\ page' \in {"login", "products"} /\ status' = status
        /\ \/ screen' = screen /\ form' = form /\ calls' = cs
           \/ Remount(cs, i, screen')
    BY <1>1, <1>2, RenderCases
  <2>2. page' = "login"
    BY <1>1 DEF Render
  <2> QED
    BY <2>1, <2>2
<1>6. screen' = "login"
  BY <1>3, <1>5, InvTypes, PublicShown DEF screen, Public
<1>7. NoNews
  BY <1>1, <1>5, InvTypes DEF NoNews, Pages, Public
<1>8. SessionIsReal'
  BY <1>1, <1>5 DEF Inv, SessionInv, SessionIsReal
<1>9. \A j \in Calls : cs[j].saw = "session" => tokens' \/ cut'
  BY <1>1, <1>4, SessionsRead
<1> QED
  BY <1>1, <1>2, <1>3, <1>4, <1>5, <1>6, <1>7, <1>8, <1>9, RemountStep

\* Amplify is told to sign out.
LEMMA LeavesInv == ASSUME Inv, Leaves PROVE Inv'
<1> DEFINE i == CHOOSE j \in Free : TRUE
           d == Call("signOut", "clear")
<1>1. /\ status = "authenticated" /\ Free # {} /\ calls' = [calls EXCEPT ![i] = d]
      /\ UNCHANGED <<account, tokens, pending, status, user, authError, page, form, cut>>
  BY DEF Leaves, cognito, provider
<1>2. i \in Calls /\ calls[i].op = "none" /\ calls[i] = Idle
  BY <1>1, FreeSlot
<1> HIDE DEF i
<1>3. d \in CallType /\ d.op = "signOut" /\ d.at = "clear" /\ d.saw = "none" /\ ~d.left
  BY NewCall DEF Ops, Stages
<1> HIDE DEF d
<1>4. Staged(d) /\ ~Here(d)
  BY <1>3 DEF Staged, Refreshes, Here, Ours
<1>5. /\ calls'[i] = d /\ \A j \in Calls \ {i} : calls'[j] = calls[j]
  BY <1>1, <1>2, InvTypes
<1>6. Quiet(calls[i], d) /\ \A l \in Keys : Holds(d, l) <=> Holds(calls[i], l)
  BY <1>1, <1>2, <1>3, <1>4, IdleCall DEF Quiet, Begins, Holds
<1>7. screen' = screen /\ Hydrates /\ NoNews
  BY <1>1, ScreenKept, InvTypes DEF Hydrates, NoNews
<1>8. SessionInv'
  BY <1>1, <1>3, <1>5, SessionKept
<1>9. SignInv'
  BY <1>1, <1>3, <1>5, SignKept DEF SignsIn
<1>10. form' = IF calls[i].left THEN form ELSE form
  BY <1>1
<1> QED
  BY <1>1, <1>2, <1>3, <1>4, <1>6, <1>7, <1>8, <1>9, <1>10, InvTypes, SameForm, KeepStep

\* A handler of the screen starts, and its button is off.
LEMMA BeginStep ==
  ASSUME Inv, NEW k \in Keys, NEW op \in Ops, NEW a \in Stages, NEW call \in CallType, NEW f,
         Begin(k, call, f), call.op = op, call.at = a, ~call.left,
         call.saw \in {"none", "latest", "replaced"},
         op \notin Ours \cup {"hydrate", "refresh", "setup"}, screen = ScreenOf(op), Key(call) = k,
         op \in Refreshes => a = "send" /\ call.saw = "none",
         op \in {"signIn", "confirm"} => call.saw = "none",
         a \notin {"timer", "again"}, k \notin form.busy, ~form.loading,
         Plain(form, f), SameSecret(form, f), f.busy = form.busy,
         authError' = FALSE \/ authError' = authError
  PROVE  Inv'
<1> DEFINE i == CHOOSE j \in Free : TRUE
           others == \E j \in Calls : SignsIn(calls[j].op)
           b == ~(SignsIn(call.op) /\ others)
           d == [call EXCEPT !.alone = b]
<1>1. /\ Free # {}
      /\ calls' = [j \in Calls |->
           IF j = i THEN d
           ELSE IF SignsIn(call.op) /\ SignsIn(calls[j].op) THEN [calls[j] EXCEPT !.alone = FALSE]
           ELSE calls[j]]
      /\ form' = Busy(k, f)
      /\ UNCHANGED <<account, tokens, pending, status, user, page, cut>>
  BY DEF Begin, cognito
<1>2. i \in Calls /\ calls[i].op = "none" /\ calls[i] = Idle
  BY <1>1, FreeSlot
<1>3. b \in BOOLEAN /\ (SignsIn(op) /\ b => \A j \in Calls : ~SignsIn(calls[j].op))
  OBVIOUS
<1> HIDE DEF i, b
<1>4. /\ d \in CallType /\ d.op = op /\ d.at = a /\ ~d.left /\ d.saw = call.saw /\ d.alone = b
  BY <1>3 DEF CallType
<1> HIDE DEF d
<1>5. calls'[i] = d
  BY <1>1, <1>2
<1>6. ASSUME NEW j \in Calls \ {i}
      PROVE  /\ calls'[j] \in CallType /\ Staged(calls'[j])
             /\ calls'[j].op = calls[j].op /\ calls'[j].at = calls[j].at
             /\ calls'[j].left = calls[j].left /\ calls'[j].saw = calls[j].saw
             /\ SignsIn(op) /\ SignsIn(calls[j].op) => ~calls'[j].alone
             /\ ~SignsIn(op) => calls'[j] = calls[j]
  <2>1. calls[j] \in CallType /\ Staged(calls[j])
    BY InvTypes
  <2>2. CASE SignsIn(op) /\ SignsIn(calls[j].op)
    <3>1. calls'[j] = [calls[j] EXCEPT !.alone = FALSE]
      BY <1>1, <2>2
    <3>2. /\ calls'[j] \in CallType
          /\ calls'[j].op = calls[j].op /\ calls'[j].at = calls[j].at
          /\ calls'[j].left = calls[j].left /\ calls'[j].saw = calls[j].saw
          /\ ~calls'[j].alone
      BY <2>1, <3>1 DEF CallType
    <3>3. Staged(calls'[j])
      BY <2>1, <2>2, <3>2 DEF Staged, SignsIn
    <3> QED
      BY <2>2, <3>2, <3>3
  <2>3. CASE ~(SignsIn(op) /\ SignsIn(calls[j].op))
    <3>1. calls'[j] = calls[j]
      BY <1>1, <2>3
    <3> QED
      BY <2>1, <2>3, <3>1
  <2> QED
    BY <2>2, <2>3
<1>7. Staged(d)
  BY <1>4 DEF Staged, Ours, Refreshes
<1>8. calls' \in [Calls -> CallType] /\ \A j \in Calls : Staged(calls'[j])
  <2>1. \A j \in Calls : calls'[j] \in CallType /\ Staged(calls'[j])
    BY <1>4, <1>5, <1>6, <1>7
  <2>2. calls' = [j \in Calls |-> calls'[j]]
    BY <1>1
  <2> QED
    BY <2>1, <2>2
<1>9. status # "loading"
  <2>1. screen # "spinner"
    BY DEF ScreenOf
  <2> QED
    BY <2>1, WhileLoading
<1>10. \A j \in Calls : Quiet(calls[j], calls'[j])
  <2>1. Quiet(calls[i], d)
    BY <1>2, <1>4, <1>9, IdleCall DEF Quiet, Begins, Ours, Refreshes
  <2>2. \A j \in Calls \ {i} : Quiet(calls[j], calls'[j])
    BY <1>6 DEF Quiet, GoesOn
  <2> QED
    BY <1>5, <2>1, <2>2
<1>11. screen' = screen /\ Hydrates /\ NoNews
  BY <1>1, ScreenKept, InvTypes DEF Hydrates, NoNews
<1>12. /\ Plain(form, form') /\ SameSecret(form, form')
       /\ form'.busy = form.busy \cup {k}
  <2>1. f \in FormType
    BY DEF Plain
  <2> DEFINE g == [f EXCEPT !.busy = f.busy \cup {k}, !.error = "none", !.flash = "none"]
  <2>2. form' = g
    BY <1>1 DEF Busy
  <2>3. /\ g \in FormType /\ g.busy = f.busy \cup {k} /\ g.flash = "none"
        /\ g.secret = f.secret /\ g.done = f.done /\ g.overlap = f.overlap
        /\ g.loading = f.loading /\ g.mfa = f.mfa /\ g.edited = f.edited
        /\ g.mixed = f.mixed /\ g.crossed = f.crossed
    BY <2>1 DEF FormType, Keys
  <2> HIDE DEF g
  <2> QED
    BY <2>2, <2>3 DEF Plain, SameSecret
<1>13. BusyInv'
  <2>1. Holds(calls'[i], k) /\ \A l \in Keys : ~Holds(calls[i], l)
    BY <1>2, <1>4, <1>5, IdleCall DEF Holds, Here, Key
  <2>2. \A j \in Calls \ {i} : \A l \in Keys : Holds(calls'[j], l) <=> Holds(calls[j], l)
    BY <1>6 DEF Holds, Here, Key
  <2> QED
    BY <1>2, <1>12, <2>1, <2>2, BusyTaken
<1>14. SetupInv'
  <2>1. \A j \in Calls : calls'[j].op = "setup" =>
          calls[j].op = "setup" /\ calls'[j].saw = calls[j].saw
    BY <1>4, <1>5, <1>6
  <2> QED
    BY <1>11, <1>12, <2>1, SetupKept
<1>15. SignInv'
  <2>1. CASE SignsIn(op)
    BY <1>1, <1>3, <1>4, <1>5, <1>6, <2>1 DEF SignInv, SignsAlone
  <2>2. CASE ~SignsIn(op)
    BY <1>1, <1>4, <1>5, <1>6, <2>2, SignKept
  <2> QED
    BY <2>1, <2>2
<1>16. SessionInv'
  <2>1. \A j \in Calls : calls'[j].saw = "session" => calls[j].saw = "session"
    BY <1>4, <1>5, <1>6
  <2> QED
    BY <1>1, <2>1, SessionKept
<1> QED
  BY <1>8, <1>10, <1>11, <1>12, <1>13, <1>14, <1>15, <1>16, QuietStep

\* The profile's forms are there when it is loaded; the other screens do not load.
LEMMA NotLoading == ASSUME Inv, screen # "profile" PROVE ~form.loading
BY DEF Inv, EditInv

\* The handlers of the screens that keep "submit" off.
LEMMA SubmitInv ==
  ASSUME Inv, NEW op \in {"signIn", "confirm", "signUp", "verify", "reset", "forgot"},
         NEW a \in {"attempt", "send"}, On(ScreenOf(op), "submit"),
         Begin("submit", Call(op, a), form), authError' = FALSE \/ authError' = authError
  PROVE  Inv'
<1> DEFINE call == Call(op, a)
<1>1. op \in Ops /\ a \in Stages /\ "submit" \in Keys
  BY DEF Ops, Stages, Keys
<1>2. /\ call \in CallType /\ call.op = op /\ call.at = a /\ call.saw = "none" /\ ~call.left
  BY <1>1, NewCall
<1> HIDE DEF call
<1>3. Key(call) = "submit"
  BY <1>2, SubmitKey
<1>4. screen = ScreenOf(op) /\ "submit" \notin form.busy /\ screen # "profile"
  BY DEF On, ScreenOf
<1>5. op \notin Ours \cup {"hydrate", "refresh", "setup"} /\ op \notin Refreshes
  BY DEF Ours, Refreshes
<1> QED
  BY <1>1, <1>2, <1>3, <1>4, <1>5, InvTypes, SameForm, NotLoading, BeginStep DEF call

\* A code is asked for again.
LEMMA ResendInv == ASSUME Inv, Resend PROVE Inv'
<1> DEFINE call == Call("resend", "send")
<1>1. "resend" \in Ops /\ "send" \in Stages /\ "resend" \in Keys
  BY DEF Ops, Stages, Keys
<1>2. /\ call \in CallType /\ call.op = "resend" /\ call.at = "send" /\ call.saw = "none" /\ ~call.left
  BY <1>1, NewCall
<1>3. Begin("resend", call, form) /\ authError' = authError
  BY DEF Resend
<1> HIDE DEF call
<1>4. Key(call) = "resend"
  BY <1>2 DEF Key
<1>5. screen = ScreenOf("resend") /\ "resend" \notin form.busy /\ screen # "profile"
  BY DEF Resend, On, ScreenOf
<1>6. "resend" \notin Ours \cup {"hydrate", "refresh", "setup"} /\ "resend" \notin Refreshes
  BY DEF Ours, Refreshes
<1> QED
  BY <1>1, <1>2, <1>3, <1>4, <1>5, <1>6, InvTypes, SameForm, NotLoading, BeginStep

\* The handlers of the profile.
LEMMA ProfileInv ==
  ASSUME Inv, NEW k \in {"save", "password", "mfa"},
         NEW op \in {"save", "email", "password", "disable"},
         k = IF op \in {"save", "email"} THEN "save" ELSE IF op = "disable" THEN "mfa" ELSE op,
         OnProfile(k), Begin(k, Call(op, "send"), form), authError' = authError
  PROVE  Inv'
<1> DEFINE call == Call(op, "send")
<1>1. op \in Ops /\ "send" \in Stages /\ k \in Keys
  BY DEF Ops, Stages, Keys, Refreshes
<1>2. /\ call \in CallType /\ call.op = op /\ call.at = "send" /\ call.saw = "none" /\ ~call.left
  BY <1>1, NewCall
<1>3. Begin(k, call, form)
  OBVIOUS
<1> HIDE DEF call
<1>4. Key(call) = k
  BY <1>2 DEF Key
<1>5. screen = ScreenOf(op) /\ k \notin form.busy /\ ~form.loading
  BY DEF OnProfile, On, ScreenOf
<1>6. op \notin Ours \cup {"hydrate", "refresh", "setup"}
  BY DEF Ours
<1> QED
  BY <1>1, <1>2, <1>3, <1>4, <1>5, <1>6, InvTypes, SameForm, BeginStep

\* The code of the authenticator is sent.
LEMMA ActivateInv == ASSUME Inv, Activate PROVE Inv'
<1> DEFINE c == Call("activate", "send")
           call == [c EXCEPT !.saw = form.secret]
           f == [form EXCEPT !.flash = "none"]
<1>1. "activate" \in Ops /\ "send" \in Stages /\ "submit" \in Keys
  BY DEF Ops, Stages, Keys
<1>2. c \in CallType /\ c.op = "activate" /\ c.at = "send" /\ ~c.left
  BY <1>1, NewCall
<1>3. Begin("submit", call, f) /\ authError' = authError
  BY DEF Activate
<1>4. form.secret \in {"none", "latest", "replaced"}
  BY InvTypes DEF FormType
<1>5. Plain(form, f) /\ SameSecret(form, f) /\ f.busy = form.busy
  BY InvTypes, SameForm, ToldForm
<1> HIDE DEF c, f
<1>6. /\ call \in CallType /\ call.op = "activate" /\ call.at = "send" /\ ~call.left
      /\ call.saw = form.secret
  BY <1>2, <1>4 DEF CallType
<1> HIDE DEF call
<1>7. Key(call) = "submit"
  BY <1>6, SubmitKey
<1>8. screen = ScreenOf("activate") /\ "submit" \notin form.busy /\ screen # "profile"
  BY DEF Activate, On, ScreenOf
<1>9. "activate" \notin Ours \cup {"hydrate", "refresh", "setup"} /\ "activate" \notin Refreshes
  BY DEF Ours, Refreshes
<1> QED
  BY <1>1, <1>3, <1>4, <1>5, <1>6, <1>7, <1>8, <1>9, InvTypes, NotLoading, BeginStep

\* The customer types, or a timer of the screen counts: no handler moves.
LEMMA FormStep ==
  ASSUME Inv, UNCHANGED <<cognito, provider, page, calls, cut>>,
         Plain(form, form'), SameSecret(form, form'), form'.busy = form.busy
  PROVE  Inv'
<1>1. UNCHANGED <<account, tokens, pending, status, user, authError, page, calls, cut>>
  BY DEF cognito, provider
<1>2. screen' = screen /\ Hydrates /\ NoNews
  BY <1>1, ScreenKept, InvTypes DEF Hydrates, NoNews
<1>3. \A j \in Calls : Quiet(calls[j], calls'[j])
  BY <1>1 DEF Quiet, GoesOn
<1>4. BusyInv'
  BY <1>1, BusyKept
<1>5. SetupInv'
  BY <1>1, <1>2, SetupKept
<1>6. SignInv'
  BY <1>1, SignKept
<1>7. SessionInv'
  BY <1>1, SessionKept
<1> QED
  BY <1>1, <1>2, <1>3, <1>4, <1>5, <1>6, <1>7, InvTypes, QuietStep

\* Something is typed into the profile.
LEMMA EditedInv == ASSUME Inv, Edit PROVE Inv'
<1> DEFINE g == [form EXCEPT !.edited = TRUE]
<1>1. /\ form' = g /\ UNCHANGED <<cognito, provider, page, calls, cut>>
      /\ screen = "profile" /\ ~form.loading
  BY DEF Edit, OnProfile, On
<1>2. Plain(form, g) /\ SameSecret(form, g) /\ g.busy = form.busy
  BY <1>1, InvTypes DEF Plain, SameSecret, FormType
<1> HIDE DEF g
<1> QED
  BY <1>1, <1>2, FormStep

\* One word or switch of the screen changes.
LEMMA SwitchInv ==
  ASSUME Inv, UNCHANGED <<cognito, provider, page, calls, cut>>, NEW b \in BOOLEAN,
         \/ form' = [form EXCEPT !.cooling = b] \/ form' = [form EXCEPT !.code = b]
         \/ form' = [form EXCEPT !.ask = b] \/ form' = [form EXCEPT !.error = "refused"]
  PROVE  Inv'
<1>1. \A h \in {[form EXCEPT !.cooling = b], [form EXCEPT !.code = b],
                [form EXCEPT !.ask = b], [form EXCEPT !.error = "refused"]} :
        Plain(form, h) /\ SameSecret(form, h) /\ h.busy = form.busy
  BY InvTypes DEF Plain, SameSecret, FormType
<1>2. Plain(form, form') /\ SameSecret(form, form') /\ form'.busy = form.busy
  BY <1>1
<1> QED
  BY <1>2, FormStep

-----------------------------------------------------------------------------
(* Setting up TOTP.                                                         *)

\* A set-up starts over.
LEMMA RestartInv == ASSUME Inv, Restart PROVE Inv'
<1> DEFINE i == CHOOSE j \in Free : TRUE
           d == Call("setup", "send")
           b == form.overlap \/ SetupsUnderWay(calls)
           g == [form EXCEPT !.error = "none", !.secret = "none", !.overlap = b]
<1>1. /\ screen = "setup" /\ Free # {} /\ calls' = [calls EXCEPT ![i] = d]
      /\ form' = g
      /\ UNCHANGED <<account, tokens, pending, status, user, authError, page, cut>>
  BY DEF Restart, cognito, provider, CleanSetup
<1>2. i \in Calls /\ calls[i].op = "none" /\ calls[i] = Idle
  BY <1>1, FreeSlot
<1>3. b \in BOOLEAN /\ (~b => ~form.overlap /\ \A j \in Calls : calls[j].op # "setup")
  BY InvTypes DEF FormType, SetupsUnderWay
<1> HIDE DEF i, b
<1>4. d \in CallType /\ d.op = "setup" /\ d.at = "send" /\ d.saw = "none" /\ ~d.left
  BY NewCall DEF Ops, Stages
<1> HIDE DEF d
<1>5. Staged(d)
  BY <1>4 DEF Staged, Refreshes
<1>6. /\ calls'[i] = d /\ \A j \in Calls \ {i} : calls'[j] = calls[j]
      /\ calls' \in [Calls -> CallType] /\ \A j \in Calls : Staged(calls'[j])
  BY <1>1, <1>2, <1>4, <1>5, InvTypes
<1>7. /\ g \in FormType /\ g.busy = form.busy /\ g.secret = "none" /\ g.overlap = b
      /\ g.done = form.done /\ g.loading = form.loading /\ g.mfa = form.mfa
      /\ g.edited = form.edited /\ g.mixed = form.mixed /\ g.crossed = form.crossed
      /\ g.flash = form.flash
  BY <1>3, InvTypes DEF FormType
<1> HIDE DEF g
<1>8. Plain(form, form')
  BY <1>1, <1>7 DEF Plain
<1>9. screen' = screen /\ Hydrates /\ NoNews
  BY <1>1, ScreenKept, InvTypes DEF Hydrates, NoNews
<1>10. \A j \in Calls : Quiet(calls[j], calls'[j])
  <2>1. status # "loading" /\ ~form.loading
    BY <1>1, WhileLoading, NotLoading
  <2>2. Quiet(calls[i], d)
    BY <1>1, <1>2, <1>4, <2>1 DEF Quiet, Begins, ScreenOf
  <2> QED
    BY <1>6, <2>2 DEF Quiet, GoesOn
<1>11. BusyInv'
  <2>1. \A l \in Keys : ~Holds(d, l) /\ ~Holds(calls[i], l)
    BY <1>2, <1>4, IdleCall DEF Holds
  <2> QED
    BY <1>1, <1>6, <1>7, <2>1, BusyKept
<1>12. SetupInv'
  BY <1>1, <1>3, <1>4, <1>6, <1>7, <1>9 DEF Inv, SetupInv, SecretIsLatest
<1>13. SignInv'
  BY <1>1, <1>4, <1>6, SignKept DEF SignsIn
<1>14. SessionInv'
  BY <1>1, <1>4, <1>6, SessionKept
<1> QED
  BY <1>6, <1>8, <1>9, <1>10, <1>11, <1>12, <1>13, <1>14, QuietStep

\* A new secret takes the place of the one before, wherever that is.
LEMMA SetUpTotpInv == ASSUME Inv, NEW i \in Calls, SetUpTotp(i) PROVE Inv'
<1> DEFINE g == [form EXCEPT !.secret = Replaced(form.secret)]
<1>1. /\ calls[i].op = "setup" /\ calls[i].at = "send" /\ form' = g
      /\ calls' = [j \in Calls |-> IF j = i THEN [calls[i] EXCEPT !.at = "reply", !.saw = "latest"]
                                   ELSE [calls[j] EXCEPT !.saw = Replaced(calls[j].saw)]]
      /\ UNCHANGED <<account, tokens, pending, status, user, authError, page, cut>>
  BY DEF SetUpTotp, Sends, cognito, provider
<1>2. /\ calls'[i] \in CallType /\ calls'[i].op = "setup" /\ calls'[i].at = "reply"
      /\ calls'[i].saw = "latest" /\ calls'[i].left = calls[i].left /\ Staged(calls'[i])
  <2> DEFINE d == [calls[i] EXCEPT !.at = "reply", !.saw = "latest"]
  <2>1. d \in CallType /\ d.op = "setup" /\ d.at = "reply" /\ d.saw = "latest" /\ d.left = calls[i].left
    BY <1>1, InvTypes DEF CallType, Stages
  <2> HIDE DEF d
  <2>2. calls'[i] = d
    BY <1>1 DEF d
  <2> QED
    BY <2>1, <2>2 DEF Staged, Refreshes
<1>3. ASSUME NEW j \in Calls \ {i}
      PROVE  /\ calls'[j] \in CallType /\ Staged(calls'[j])
             /\ calls'[j].op = calls[j].op /\ calls'[j].at = calls[j].at
             /\ calls'[j].left = calls[j].left /\ calls'[j].alone = calls[j].alone
             /\ calls'[j].saw = Replaced(calls[j].saw)
  <2> DEFINE d == [calls[j] EXCEPT !.saw = Replaced(calls[j].saw)]
  <2>1. calls[j] \in CallType /\ Staged(calls[j])
    BY InvTypes
  <2>2. /\ d \in CallType /\ d.op = calls[j].op /\ d.at = calls[j].at
        /\ d.left = calls[j].left /\ d.alone = calls[j].alone
        /\ d.saw = Replaced(calls[j].saw)
    BY <2>1 DEF CallType, Replaced
  <2>3. d.op = "none" => d = Idle
    BY <2>1 DEF Staged, Idle, Replaced
  <2> HIDE DEF d
  <2>4. Staged(d)
    BY <2>1, <2>2, <2>3 DEF Staged, Replaced
  <2>5. calls'[j] = d
    BY <1>1 DEF d
  <2> QED
    BY <2>2, <2>4, <2>5
<1>4. calls' \in [Calls -> CallType] /\ \A j \in Calls : Staged(calls'[j])
  <2>1. \A j \in Calls : calls'[j] \in CallType /\ Staged(calls'[j])
    BY <1>2, <1>3
  <2>2. calls' = [j \in Calls |-> calls'[j]]
    BY <1>1
  <2> QED
    BY <2>1, <2>2
<1>5. /\ g \in FormType /\ g.secret = Replaced(form.secret) /\ g.busy = form.busy
      /\ g.overlap = form.overlap
      /\ g.done = form.done /\ g.loading = form.loading /\ g.mfa = form.mfa
      /\ g.edited = form.edited /\ g.mixed = form.mixed /\ g.crossed = form.crossed
      /\ g.flash = form.flash
  BY InvTypes DEF FormType, Replaced
<1> HIDE DEF g
<1>6. Plain(form, form')
  BY <1>1, <1>5 DEF Plain
<1>7. screen' = screen /\ Hydrates /\ NoNews
  BY <1>1, ScreenKept, InvTypes DEF Hydrates, NoNews
<1>8. \A j \in Calls : Quiet(calls[j], calls'[j])
  <2>1. Quiet(calls[i], calls'[i])
    BY <1>1, <1>2 DEF Quiet, GoesOn
  <2>2. ASSUME NEW j \in Calls \ {i} PROVE Quiet(calls[j], calls'[j])
    BY <1>3 DEF Quiet, GoesOn, Replaced
  <2> QED
    BY <2>1, <2>2
<1>9. BusyInv'
  <2>1. \A l \in Keys : ~Holds(calls[i], l) /\ ~Holds(calls'[i], l)
    BY <1>1, <1>2 DEF Holds
  <2>2. \A j \in Calls \ {i} : \A l \in Keys : Holds(calls'[j], l) <=> Holds(calls[j], l)
    BY <1>3 DEF Holds, Here, Key
  <2> QED
    BY <1>1, <1>5, <2>1, <2>2, BusyKept
<1>10. SetupInv'
  <2>1. screen # "setup" => form'.secret = "none" /\ ~form'.done
    BY <1>1, <1>5 DEF Inv, SetupInv, Replaced
  <2>2. ASSUME screen = "setup", ~form.overlap
        PROVE  /\ form'.secret = "none"
               /\ \A j \in Calls : calls'[j].op = "setup" => j = i
    <3>1. form.secret = "none" /\ \A j \in Calls : calls[j].op = "setup" => j = i
      BY <1>1, <2>2 DEF Inv, SetupInv
    <3>2. \A j \in Calls : calls'[j].op = calls[j].op
      BY <1>1, <1>2, <1>3
    <3> QED
      BY <1>1, <1>5, <3>1, <3>2 DEF Replaced
  <2> QED
    BY <1>1, <1>2, <1>5, <1>7, <2>1, <2>2 DEF SetupInv, SecretIsLatest
<1>11. SignInv'
  <2>1. \A j \in Calls : SignsIn(calls'[j].op) =>
          /\ calls'[j].op = calls[j].op /\ calls'[j].alone = calls[j].alone
          /\ calls'[j].at = calls[j].at
    BY <1>2, <1>3 DEF SignsIn
  <2> QED
    BY <1>1, <2>1, SignKept
<1>12. SessionInv'
  <2>1. \A j \in Calls : calls'[j].saw = "session" => calls[j].saw = "session"
    BY <1>2, <1>3 DEF Replaced
  <2> QED
    BY <1>1, <2>1, SessionKept
<1> QED
  BY <1>4, <1>6, <1>7, <1>8, <1>9, <1>10, <1>11, <1>12, QuietStep

\* A set-up ends: with an error, or with the secret it was given.
LEMMA SetUpEnds ==
  ASSUME Inv, NEW i \in Calls, calls[i].op = "setup", UNCHANGED <<cognito, cut>>, NEW g,
         Stay(i, Idle, g), g \in {[form EXCEPT !.error = "refused"],
                                  [form EXCEPT !.secret = calls[i].saw]}
  PROVE  Inv'
<1>1. /\ calls' = [calls EXCEPT ![i] = Idle]
      /\ form' = IF calls[i].left THEN form ELSE g
      /\ UNCHANGED <<account, tokens, pending, status, user, authError, page, cut>>
  BY DEF Stay, cognito, provider
<1>2. calls[i].saw \in {"none", "latest", "replaced"}
  <2>1. calls[i] \in CallType /\ Staged(calls[i])
    BY InvTypes
  <2> QED
    BY <2>1 DEF CallType, Staged, Refreshes
<1>3. /\ g \in FormType /\ g.secret \in {form.secret, calls[i].saw} /\ g.busy = form.busy
      /\ g.overlap = form.overlap
      /\ g.done = form.done /\ g.loading = form.loading /\ g.mfa = form.mfa
      /\ g.edited = form.edited /\ g.mixed = form.mixed /\ g.crossed = form.crossed
      /\ g.flash = form.flash
  <2>1. CASE g = [form EXCEPT !.error = "refused"]
    BY <2>1, InvTypes DEF FormType
  <2>2. CASE g = [form EXCEPT !.secret = calls[i].saw]
    BY <1>2, <2>2, InvTypes DEF FormType
  <2> QED
    BY <2>1, <2>2
<1>4. Plain(form, form') /\ form'.busy = form.busy
  BY <1>1, <1>3, InvTypes DEF Plain
<1>5. /\ calls' \in [Calls -> CallType] /\ \A j \in Calls : Staged(calls'[j])
      /\ calls'[i] = Idle /\ \A j \in Calls \ {i} : calls'[j] = calls[j]
  BY <1>1, IdleCall, InvTypes
<1>6. screen' = screen /\ Hydrates /\ NoNews
  BY <1>1, ScreenKept, InvTypes DEF Hydrates, NoNews
<1>7. \A j \in Calls : Quiet(calls[j], calls'[j])
  BY <1>5, IdleCall DEF Quiet, GoesOn, Ends
<1>8. BusyInv'
  <2>1. \A l \in Keys : ~Holds(calls[i], l) /\ ~Holds(Idle, l)
    BY IdleCall DEF Holds
  <2> QED
    BY <1>4, <1>5, <2>1, BusyKept
<1>9. SetupInv'
  <2>1. /\ form'.overlap = form.overlap /\ form'.done = form.done
        /\ form'.secret \in {form.secret, calls[i].saw}
        /\ calls[i].left => form'.secret = form.secret
    BY <1>1, <1>3
  <2>2. ~calls[i].left => screen = "setup"
    BY DEF Inv, PlaceInv, Here, Ours, ScreenOf
  <2>3. \A j \in Calls : calls'[j].op = "setup" => j # i /\ calls'[j] = calls[j]
    BY <1>5, IdleCall
  <2>4. screen = "setup" /\ ~form.overlap =>
          /\ calls[i].saw # "replaced" /\ \A j \in Calls : calls[j].op = "setup" => j = i
    BY DEF Inv, SetupInv
  <2>5. /\ form.secret = "replaced" => form.overlap
        /\ screen # "setup" => form.secret = "none" /\ ~form.done
    BY DEF Inv, SetupInv, SecretIsLatest
  <2> QED
    BY <1>6, <2>1, <2>2, <2>3, <2>4, <2>5 DEF SetupInv, SecretIsLatest
<1>10. SignInv'
  BY <1>1, <1>5, IdleCall, SignKept DEF SignsIn
<1>11. SessionInv'
  BY <1>1, <1>5, IdleCall, SessionKept
<1> QED
  BY <1>4, <1>5, <1>6, <1>7, <1>8, <1>9, <1>10, <1>11, QuietStep

\* It is refused ...
LEMMA SetUpFailsInv == ASSUME Inv, NEW i \in Calls, SetUpFails(i) PROVE Inv'
BY SetUpEnds DEF SetUpFails, Sends

\* ... or answered, if the answer comes.
LEMMA SetUpAnsweredInv == ASSUME Inv, NEW i \in Calls, SetUpAnswered(i) PROVE Inv'
<1>1. PICK lost \in BOOLEAN :
        Stay(i, Idle, IF lost THEN [form EXCEPT !.error = "refused"]
                      ELSE [form EXCEPT !.secret = calls[i].saw])
  BY DEF SetUpAnswered
<1>2. calls[i].op = "setup" /\ UNCHANGED <<cognito, cut>>
  BY DEF SetUpAnswered
<1>3. CASE lost
  BY <1>1, <1>2, <1>3, SetUpEnds
<1>4. CASE ~lost
  BY <1>1, <1>2, <1>4, SetUpEnds
<1> QED
  BY <1>3, <1>4

-----------------------------------------------------------------------------
(* The TOTP preference: changed, read, shown.                               *)

\* A change of it ends its handler, or has it read back, and tells the screen f.
Tells(c, d, f) ==
  /\ \/ d = Idle /\ f.busy = form.busy \ {Key(c)}
     \/ /\ c.op = "disable" /\ d.op = c.op /\ d.at = "fetch" /\ d.left = c.left
        /\ d.saw = c.saw /\ f.busy = form.busy
  /\ f \in FormType /\ f.loading = form.loading /\ f.edited = form.edited /\ f.mfa = form.mfa
  /\ f.flash = form.flash /\ f.crossed = form.crossed
  /\ f.overlap = form.overlap /\ f.secret \in {form.secret, "none"}
  /\ f.done => form.done \/ c.op = "activate"
  /\ form.mixed => f.mixed
  /\ c.op = "disable" /\ d = Idle => f.mixed

\* What a change of the preference leaves of the form g.
Changed(i, totp, d, g) ==
  /\ account' \in AccountType /\ account'.admin = account.admin /\ account'.totp = totp
  /\ UNCHANGED <<page, status, user, authError, tokens, pending, cut>>
  /\ calls' \in [Calls -> CallType] /\ calls'[i] = d
  /\ \A j \in Calls \ {i} : calls'[j] = calls[j]
  /\ form' \in FormType /\ form'.busy = g.busy /\ form'.flash = g.flash
  /\ form'.loading = g.loading /\ form'.edited = g.edited /\ form'.mfa = g.mfa
  /\ form'.secret = g.secret /\ form'.done = g.done /\ form'.overlap = g.overlap
  /\ g.crossed \/ calls[i].left => form'.crossed
  /\ g.mixed \/ Reading => form'.mixed

\* Setting the TOTP preference does that, whichever answer it gets.
LEMMA Preferred ==
  ASSUME Inv, NEW i \in Calls, NEW totp \in BOOLEAN, NEW d \in CallType, NEW f \in FormType,
         Prefer(i, totp, d, f)
  PROVE  Changed(i, totp, d, IF calls[i].left THEN form ELSE f)
<1> DEFINE g == IF calls[i].left THEN form ELSE f
           crossed == g.crossed \/ calls[i].left
           mixed == g.mixed \/ Reading
           h == [g EXCEPT !.crossed = crossed, !.mixed = mixed]
<1>1. /\ account' = [account EXCEPT !.totp = totp] /\ calls' = [calls EXCEPT ![i] = d]
      /\ form' = h
      /\ UNCHANGED <<page, status, user, authError, tokens, pending, cut>>
  BY DEF Prefer, provider
<1>2. account' \in AccountType /\ account'.admin = account.admin /\ account'.totp = totp
  BY <1>1, InvTypes DEF AccountType
<1>3. g \in FormType /\ calls[i].left \in BOOLEAN /\ Reading \in BOOLEAN
  BY InvTypes DEF CallType, Reading
<1>4. crossed \in BOOLEAN /\ mixed \in BOOLEAN
  BY <1>3 DEF FormType
<1>5. /\ g.crossed \/ calls[i].left => crossed
      /\ g.mixed \/ Reading => mixed
  OBVIOUS
<1> HIDE DEF g, crossed, mixed
<1>6. /\ h \in FormType /\ h.busy = g.busy /\ h.flash = g.flash
      /\ h.loading = g.loading /\ h.edited = g.edited /\ h.mfa = g.mfa
      /\ h.secret = g.secret /\ h.done = g.done /\ h.overlap = g.overlap
      /\ h.crossed = crossed /\ h.mixed = mixed
  BY <1>3, <1>4 DEF FormType
<1> HIDE DEF h
<1> QED
  BY <1>1, <1>2, <1>5, <1>6, InvTypes DEF g, Changed

\* A change of the preference, by the handler that makes it.
LEMMA PreferStep ==
  ASSUME Inv, NEW i \in Calls, NEW totp \in BOOLEAN, NEW d \in CallType, Staged(d), NEW f,
         Prefer(i, totp, d, f), calls[i].op \in {"activate", "disable"}, calls[i].at # "timer",
         totp = (calls[i].op = "activate"), Tells(calls[i], d, f)
  PROVE  Inv'
<1> DEFINE g == IF calls[i].left THEN form ELSE f
<1>1. f \in FormType
  BY DEF Tells
<1>2. /\ account' \in AccountType /\ account'.admin = account.admin /\ account'.totp = totp
      /\ UNCHANGED <<page, status, user, authError, tokens, pending, cut>>
      /\ calls' \in [Calls -> CallType] /\ calls'[i] = d
      /\ \A j \in Calls \ {i} : calls'[j] = calls[j]
      /\ form' \in FormType /\ form'.busy = g.busy /\ form'.flash = g.flash
      /\ form'.loading = g.loading /\ form'.edited = g.edited /\ form'.mfa = g.mfa
      /\ form'.secret = g.secret /\ form'.done = g.done /\ form'.overlap = g.overlap
      /\ g.crossed \/ calls[i].left => form'.crossed
      /\ g.mixed \/ Reading => form'.mixed
  <2>1. Changed(i, totp, d, g)
    BY <1>1, Preferred
  <2> QED
    BY <2>1 DEF Changed
<1>3. screen' = screen
  BY <1>2, ScreenKept
<1>4. /\ form'.loading = form.loading /\ form'.edited = form.edited /\ form'.mfa = form.mfa
      /\ form'.flash = form.flash /\ form'.overlap = form.overlap
      /\ form'.secret \in {form.secret, "none"}
      /\ form.crossed => form'.crossed
      /\ form.mixed => form'.mixed
  BY <1>2 DEF Tells
<1>5. /\ d = Idle \/ (d.op = calls[i].op /\ d.left = calls[i].left /\ d.at # "timer" /\ d.saw = calls[i].saw)
      /\ d.op \in {"none", "activate", "disable"}
      /\ ~Here(d) \/ Here(calls[i])
  BY IdleCall DEF Tells, Here
<1>6. /\ d.saw # "session"
  <2>1. Staged(calls[i])
    BY InvTypes
  <2> QED
    BY <1>5, <2>1, IdleCall DEF Staged
<1>7. calls[i].left \/ screen = IF calls[i].op = "activate" THEN "setup" ELSE "profile"
  BY DEF Inv, PlaceInv, Here, Ours, ScreenOf
<1>8. Types'
  <2>1. \A j \in Calls : Staged(calls'[j])
    BY <1>2, InvTypes
  <2> QED
    BY <1>2, <2>1, InvTypes DEF Types, TypeOK
<1>9. PlaceInv'
  <2>1. \A j \in Calls : Here(calls'[j]) => screen' = ScreenOf(calls'[j].op)
    BY <1>2, <1>3, <1>5, IdleCall DEF Inv, PlaceInv
  <2>2. status' # "loading" /\ \A j \in Calls : calls'[j].op # "hydrate"
    BY <1>2, <1>5, WhileLoading
  <2> QED
    BY <2>1, <2>2 DEF PlaceInv
<1>10. BusyInv'
  <2>1. Key(calls[i]) \in Keys
    BY DEF Key, Keys
  <2>2. CASE d = Idle /\ ~calls[i].left
    <3>1. Holds(calls[i], Key(calls[i])) /\ \A l \in Keys : ~Holds(d, l)
      BY <2>2, IdleCall DEF Holds, Here, Ours
    <3>2. form'.busy = form.busy \ {Key(calls[i])}
      BY <1>2, <2>2, IdleCall DEF Tells
    <3> QED
      BY <1>2, <2>1, <3>1, <3>2, BusyFreed
  <2>3. CASE d # Idle \/ calls[i].left
    <3>1. form'.busy = form.busy
      BY <1>2, <2>3 DEF Tells
    <3>2. \A l \in Keys : Holds(d, l) <=> Holds(calls[i], l)
      BY <1>5, <2>3, IdleCall DEF Holds, Here, Key
    <3> QED
      BY <1>2, <3>1, <3>2, BusyKept
  <2> QED
    BY <2>2, <2>3
<1>11. SessionInv'
  BY <1>2, <1>6, SessionKept
<1>12. SetupInv'
  <2>1. \A j \in Calls : calls'[j].op = "setup" => calls'[j] = calls[j]
    BY <1>2, <1>5
  <2>2. screen # "setup" => form'.secret = "none" /\ ~form'.done
    BY <1>2, <1>7 DEF Inv, SetupInv, Tells
  <2> QED
    BY <1>3, <1>4, <2>1, <2>2 DEF Inv, SetupInv, SecretIsLatest
<1>13. MfaInv'
  <2>1. form'.flash = "disabled" => screen' = "profile"
    BY <1>3, <1>4 DEF Inv, MfaInv
  <2>2. CASE calls[i].left
    BY <1>2, <2>1, <2>2 DEF MfaInv, MfaSaidIsTrue, Agrees
  <2>3. CASE ~calls[i].left /\ calls[i].op = "activate"
    <3>1. screen' = "setup" /\ account'.totp
      BY <1>2, <1>3, <1>7, <2>3
    <3>2. \A j \in Calls : Here(calls'[j]) => calls'[j].op \notin {"disable"} \cup Refreshes
      BY <1>9, <3>1 DEF PlaceInv, ScreenOf, Refreshes
    <3>3. \A j \in Calls : Staged(calls'[j])
      BY <1>8 DEF Types
    <3>4. \A j \in Calls : Here(calls'[j]) => calls'[j].saw \notin {"on", "off"}
      BY <3>2, <3>3 DEF Staged
    <3> QED
      BY <2>1, <3>1, <3>2, <3>4 DEF MfaInv, MfaSaidIsTrue
  <2>4. CASE ~calls[i].left /\ calls[i].op = "disable"
    <3>1. screen' = "profile" /\ ~account'.totp /\ ~form'.done
      BY <1>2, <1>3, <1>7, <1>12, <2>4 DEF SetupInv
    <3>2. ASSUME NEW j \in Calls, Here(calls'[j]), calls'[j].saw \in {"on", "off"}
          PROVE  form'.mixed
      <4>1. CASE j = i
        <5>1. Here(calls[i]) /\ calls[i].saw \in {"on", "off"}
          BY <1>2, <1>5, <3>2, <4>1, IdleCall
        <5>2. Staged(calls[i]) /\ calls[i].op \in Refreshes
          BY <2>4, InvTypes DEF Refreshes
        <5>3. Reading
          BY <5>1, <5>2 DEF Reading, Staged, Here
        <5> QED
          BY <1>2, <5>3
      <4>2. CASE j # i
        <5>1. calls'[j] = calls[j] /\ Staged(calls[j])
          BY <1>2, <4>2, InvTypes
        <5>2. calls[j].op \in Refreshes /\ calls[j].at = "read" /\ ~calls[j].left
          BY <3>2, <5>1 DEF Staged, Here
        <5> QED
          BY <1>2, <5>2 DEF Reading
      <4> QED
        BY <4>1, <4>2
    <3>3. CASE d = Idle
      <4>1. form'.mixed
        BY <1>2, <2>4, <3>3 DEF Tells
      <4> QED
        BY <2>1, <3>1, <4>1 DEF MfaInv, MfaSaidIsTrue, Agrees
    <3>4. CASE d # Idle
      <4>1. Here(calls'[i]) /\ calls'[i].op = "disable" /\ calls'[i].at = "fetch"
        BY <1>2, <2>4, <3>4 DEF Tells, Here, Ours
      <4> QED
        BY <2>1, <3>1, <3>2, <4>1 DEF MfaInv, MfaSaidIsTrue, Agrees
    <3> QED
      BY <3>3, <3>4
  <2> QED
    BY <2>2, <2>3, <2>4
<1>14. SignInv'
  BY <1>2, <1>5, SignKept DEF SignsIn
<1>15. EditInv'
  <2>1. \A j \in Calls : Here(calls'[j]) => Here(calls[j]) /\ calls'[j].op = calls[j].op
    BY <1>2, <1>5, IdleCall
  <2> QED
    BY <1>3, <1>4, <2>1 DEF Inv, EditInv
<1> QED
  BY <1>8, <1>9, <1>10, <1>11, <1>12, <1>13, <1>14, <1>15 DEF Inv

\* TOTP is set up: the preference is set, or the answer says it is not.
LEMMA ActivatedInv == ASSUME Inv, NEW i \in Calls, Activated(i) PROVE Inv'
<1>1. /\ calls[i].op = "activate" /\ calls[i].at = "prefer" /\ Key(calls[i]) = "submit"
      /\ "submit" \in Keys
  BY SubmitKey DEF Activated, Keys
<1> DEFINE f == [Ready("submit", form) EXCEPT !.done = TRUE, !.secret = "none"]
           e == Failed("submit", "refused", form)
<1>2. Tells(calls[i], Idle, f)
  <2> DEFINE h == [form EXCEPT !.busy = form.busy \ {"submit"}, !.done = TRUE, !.secret = "none"]
  <2>1. f = h
    BY InvTypes DEF Ready, FormType
  <2> HIDE DEF f
  <2>2. /\ f \in FormType /\ f.loading = form.loading /\ f.edited = form.edited
        /\ f.mfa = form.mfa /\ f.flash = form.flash /\ f.crossed = form.crossed
        /\ f.overlap = form.overlap /\ f.secret = "none" /\ f.mixed = form.mixed
        /\ f.busy = form.busy \ {"submit"}
    BY <2>1, InvTypes DEF FormType, Keys
  <2> QED
    BY <1>1, <2>2 DEF Tells
<1>3. Tells(calls[i], Idle, e)
  <2> DEFINE h == [form EXCEPT !.busy = form.busy \ {"submit"}, !.error = "refused"]
  <2>1. e = h
    BY DEF Failed
  <2> HIDE DEF e
  <2>2. /\ e \in FormType /\ e.loading = form.loading /\ e.edited = form.edited
        /\ e.mfa = form.mfa /\ e.flash = form.flash /\ e.crossed = form.crossed
        /\ e.overlap = form.overlap /\ e.secret = form.secret /\ e.mixed = form.mixed
        /\ e.done = form.done /\ e.busy = form.busy \ {"submit"}
    BY <2>1, InvTypes DEF FormType, Keys
  <2> QED
    BY <1>1, <2>2 DEF Tells
<1>4. CASE Prefer(i, TRUE, Idle, f)
  <2> HIDE DEF f
  <2> QED
    BY <1>1, <1>2, <1>4, IdleCall, PreferStep
<1>5. CASE Prefer(i, TRUE, Idle, e)
  <2> HIDE DEF e
  <2> QED
    BY <1>1, <1>3, <1>5, IdleCall, PreferStep
<1>6. CASE Stay(i, Idle, e) /\ UNCHANGED <<cognito, cut>>
  <2>1. UNCHANGED <<account, tokens, pending>> /\ NoNews
    BY <1>6, StateNoNews DEF Stay, cognito
  <2> QED
    BY <1>1, <1>6, <2>1, FailStep DEF Ours
<1> QED
  BY <1>4, <1>5, <1>6 DEF Activated

\* TOTP is switched off, and that is read back.
LEMMA DisabledInv == ASSUME Inv, NEW i \in Calls, Disabled(i) PROVE Inv'
<1>1. /\ calls[i].op = "disable" /\ calls[i].at = "send" /\ Key(calls[i]) = "mfa"
      /\ "mfa" \in Keys
  BY DEF Disabled, Sends, Key, Keys
<1> DEFINE f == [form EXCEPT !.ask = FALSE]
           e == [Failed("mfa", "refused", form) EXCEPT !.mixed = TRUE]
           d == [calls[i] EXCEPT !.at = "fetch"]
<1>2. /\ d \in CallType /\ d.op = "disable" /\ d.at = "fetch" /\ d.left = calls[i].left
      /\ d.saw = calls[i].saw
  BY <1>1, InvTypes DEF CallType, Stages
<1>3. Staged(d)
  <2>1. Staged(calls[i])
    BY InvTypes
  <2> HIDE DEF d
  <2> QED
    BY <1>1, <1>2, <2>1 DEF Staged
<1>4. Tells(calls[i], d, f)
  <2>1. /\ f \in FormType /\ f.loading = form.loading /\ f.edited = form.edited
        /\ f.mfa = form.mfa /\ f.flash = form.flash /\ f.crossed = form.crossed
        /\ f.overlap = form.overlap /\ f.secret = form.secret /\ f.mixed = form.mixed
        /\ f.done = form.done /\ f.busy = form.busy
    BY InvTypes DEF FormType
  <2> HIDE DEF f, d
  <2> QED
    BY <1>1, <1>2, <2>1, IdleCall DEF Tells
<1>5. Tells(calls[i], Idle, e)
  <2> DEFINE h == [form EXCEPT !.busy = form.busy \ {"mfa"}, !.error = "refused", !.mixed = TRUE]
  <2>1. e = h
    BY InvTypes DEF Failed, FormType
  <2> HIDE DEF e
  <2>2. /\ e \in FormType /\ e.loading = form.loading /\ e.edited = form.edited
        /\ e.mfa = form.mfa /\ e.flash = form.flash /\ e.crossed = form.crossed
        /\ e.overlap = form.overlap /\ e.secret = form.secret /\ e.mixed
        /\ e.done = form.done /\ e.busy = form.busy \ {"mfa"}
    BY <2>1, InvTypes DEF FormType, Keys
  <2> QED
    BY <1>1, <2>2 DEF Tells
<1>6. CASE Prefer(i, FALSE, d, f)
  <2> HIDE DEF f, d
  <2> QED
    BY <1>1, <1>2, <1>3, <1>4, <1>6, PreferStep
<1>7. CASE Prefer(i, FALSE, Idle, e)
  <2> HIDE DEF e
  <2> QED
    BY <1>1, <1>5, <1>7, IdleCall, PreferStep
<1>8. CASE Stay(i, Idle, Failed("mfa", "refused", form)) /\ UNCHANGED <<cognito, cut>>
  <2>1. UNCHANGED <<account, tokens, pending>> /\ NoNews
    BY <1>8, StateNoNews DEF Stay, cognito
  <2> QED
    BY <1>1, <1>8, <2>1, FailStep DEF Ours
<1> QED
  BY <1>6, <1>7, <1>8 DEF Disabled

\* It is read.
LEMMA FetchInv == ASSUME Inv, NEW i \in Calls, Fetch(i) PROVE Inv'
<1>1. PICK saw \in Preference : calls' = [calls EXCEPT ![i].at = "read", ![i].saw = saw]
  BY DEF Fetch
<1> DEFINE d == [calls[i] EXCEPT !.at = "read", !.saw = saw]
<1>2. /\ calls[i].at = "fetch" /\ calls[i].op \in Refreshes
      /\ UNCHANGED <<account, tokens, pending, status, user, authError, page, form, cut>>
  BY DEF Fetch, cognito, provider
<1>3. saw \in {"on", "off", "error"} /\ (saw \in {"on", "off"} => (saw = "on") = account.totp)
  BY <1>1, InvTypes DEF Preference, AccountType
<1>4. calls' = [calls EXCEPT ![i] = d]
  BY <1>1, InvTypes
<1>5. /\ d \in CallType /\ d.op = calls[i].op /\ d.at = "read" /\ d.left = calls[i].left
      /\ d.saw = saw
  BY <1>3, InvTypes DEF CallType, Stages
<1> HIDE DEF d
<1>6. Staged(d)
  BY <1>2, <1>3, <1>5 DEF Staged, Refreshes
<1>7. /\ Quiet(calls[i], d) /\ \A l \in Keys : Holds(d, l) <=> Holds(calls[i], l)
      /\ d.op # "setup" /\ ~SignsIn(d.op)
  BY <1>2, <1>3, <1>5 DEF Quiet, GoesOn, Holds, Here, Key, Refreshes, SignsIn
<1>8. screen' = screen /\ Hydrates /\ NoNews
  BY <1>2, ScreenKept, InvTypes DEF Hydrates, NoNews
<1>9. calls'[i] = d /\ \A j \in Calls \ {i} : calls'[j] = calls[j]
  BY <1>4, InvTypes
<1>10. SessionInv'
  BY <1>2, <1>3, <1>5, <1>9, SessionKept
<1>11. SignInv'
  BY <1>2, <1>7, <1>9, SignKept
<1>12. form' = IF calls[i].left THEN form ELSE form
  BY <1>2
<1> QED
  BY <1>4, <1>5, <1>6, <1>7, <1>8, <1>10, <1>11, <1>12, InvTypes, SameForm, KeepStep

\* What a refresh makes of the screen.
Shows(c, g) ==
  /\ g \in FormType /\ ~g.loading
  /\ g.busy = IF c.op = "refresh" THEN form.busy ELSE form.busy \ {Key(c)}
  /\ g.secret = form.secret /\ g.done = form.done /\ g.overlap = form.overlap
  /\ g.crossed = form.crossed /\ (form.mixed => g.mixed)
  /\ g.edited => form.edited
  /\ g.flash = form.flash \/ (g.flash = "disabled" /\ c.op = "disable")
  /\ IF c.saw = "error" THEN g.mixed ELSE g.mfa = (c.saw = "on")

\* The refresh of a screen that is still there.
LEMMA RefreshShows ==
  ASSUME Inv, NEW i \in Calls, calls[i].op \in Refreshes
  PROVE  Shows(calls[i], AfterRefresh(calls[i].op, Refreshed(calls[i].saw, form)))
<1> DEFINE on == calls[i].saw = "on"
           r == Refreshed(calls[i].saw, form)
<1>1. /\ r \in FormType /\ ~r.loading /\ r.busy = form.busy
      /\ r.secret = form.secret /\ r.done = form.done /\ r.overlap = form.overlap
      /\ r.crossed = form.crossed /\ (form.mixed => r.mixed)
      /\ r.edited => form.edited
      /\ r.flash = form.flash
      /\ IF calls[i].saw = "error" THEN r.mixed ELSE r.mfa = on
  <2>1. on \in BOOLEAN
    OBVIOUS
  <2>2. r = IF calls[i].saw = "error"
            THEN [form EXCEPT !.loading = FALSE, !.error = "refused", !.mixed = TRUE]
            ELSE [form EXCEPT !.loading = FALSE, !.error = "none", !.mfa = on, !.edited = FALSE]
    BY DEF Refreshed
  <2> HIDE DEF on, r
  <2> QED
    BY <2>1, <2>2, InvTypes DEF FormType
<1> HIDE DEF r, on
<1>2. CASE calls[i].op = "refresh"
  <2>1. AfterRefresh(calls[i].op, r) = r
    BY <1>2 DEF AfterRefresh
  <2>2. Shows(calls[i], r)
    BY <1>1, <1>2 DEF Shows, on
  <2> QED
    BY <2>1, <2>2 DEF r
<1>3. CASE calls[i].op \in {"save", "email"}
  <2> DEFINE g == [r EXCEPT !.busy = r.busy \ {"save"}]
  <2>1. AfterRefresh(calls[i].op, r) = g
    BY <1>3 DEF AfterRefresh, Ready
  <2>2. /\ g \in FormType /\ g.loading = r.loading /\ g.busy = r.busy \ {"save"}
        /\ g.secret = r.secret /\ g.done = r.done /\ g.overlap = r.overlap
        /\ g.crossed = r.crossed /\ g.mixed = r.mixed /\ g.edited = r.edited
        /\ g.flash = r.flash /\ g.mfa = r.mfa
    BY <1>1 DEF FormType, Keys
  <2> HIDE DEF g
  <2>3. Key(calls[i]) = "save"
    BY <1>3 DEF Key
  <2>4. calls[i].op # "refresh"
    BY <1>3
  <2>5. Shows(calls[i], g)
    BY <1>1, <1>3, <2>2, <2>3, <2>4 DEF Shows, on
  <2> QED
    BY <2>1, <2>5 DEF r
<1>4. CASE calls[i].op = "disable"
  <2> DEFINE g == [r EXCEPT !.busy = r.busy \ {"mfa"}, !.flash = "disabled"]
  <2>1. AfterRefresh(calls[i].op, r) = g
    BY <1>1, <1>4 DEF AfterRefresh, Ready, FormType
  <2>2. /\ g \in FormType /\ g.loading = r.loading /\ g.busy = r.busy \ {"mfa"}
        /\ g.secret = r.secret /\ g.done = r.done /\ g.overlap = r.overlap
        /\ g.crossed = r.crossed /\ g.mixed = r.mixed /\ g.edited = r.edited
        /\ g.flash = "disabled" /\ g.mfa = r.mfa
    BY <1>1 DEF FormType, Keys
  <2> HIDE DEF g
  <2>3. Key(calls[i]) = "mfa"
    BY <1>4 DEF Key
  <2>4. calls[i].op # "refresh"
    BY <1>4
  <2>5. Shows(calls[i], g)
    BY <1>1, <1>4, <2>2, <2>3, <2>4 DEF Shows, on
  <2> QED
    BY <2>1, <2>5 DEF r
<1> QED
  BY <1>2, <1>3, <1>4 DEF Refreshes

\* What was read is shown.
LEMMA RefreshInv == ASSUME Inv, NEW i \in Calls, Refresh(i) PROVE Inv'
<1> DEFINE g == AfterRefresh(calls[i].op, Refreshed(calls[i].saw, form))
<1>1. /\ calls[i].op \in Refreshes /\ calls[i].at = "read"
      /\ calls' = [calls EXCEPT ![i] = Idle]
      /\ form' = IF calls[i].left THEN form ELSE g
      /\ UNCHANGED <<account, tokens, pending, status, user, authError, page, cut>>
  BY DEF Refresh, Stay, cognito, provider
<1>2. /\ calls' \in [Calls -> CallType] /\ \A j \in Calls : Staged(calls'[j])
      /\ calls'[i] = Idle /\ \A j \in Calls \ {i} : calls'[j] = calls[j]
  BY <1>1, IdleCall, InvTypes
<1>3. screen' = screen /\ Hydrates /\ NoNews
  BY <1>1, ScreenKept, InvTypes DEF Hydrates, NoNews
<1>4. SessionInv'
  BY <1>1, <1>2, IdleCall, SessionKept
<1>5. SignInv'
  BY <1>1, <1>2, IdleCall, SignKept DEF SignsIn
<1>6. CASE calls[i].left
  <2>1. Quiet(calls[i], Idle) /\ \A l \in Keys : Holds(Idle, l) <=> Holds(calls[i], l)
    BY <1>6, IdleCall DEF Quiet, Ends, Holds, Here
  <2>2. form' = IF calls[i].left THEN form ELSE form
    BY <1>1, <1>6
  <2> QED
    BY <1>1, <1>3, <1>4, <1>5, <2>1, <2>2, IdleCall, InvTypes, SameForm, KeepStep
<1>7. CASE ~calls[i].left
  <2>1. Shows(calls[i], form')
    BY <1>1, <1>7, RefreshShows
  <2> HIDE DEF g
  <2>2. Here(calls[i]) /\ screen = "profile"
    BY <1>1, <1>7 DEF Here, Ours, Refreshes, Inv, PlaceInv, ScreenOf
  <2>3. calls[i].saw \in {"on", "off", "error"}
    BY <1>1, InvTypes DEF Staged
  <2>4. \A j \in Calls : Here(calls'[j]) => j # i /\ calls'[j] = calls[j]
    BY <1>2, IdleCall
  <2>5. Types'
    BY <1>2, <1>3, <2>1 DEF Types, TypeOK, NoNews, Shows
  <2>6. PlaceInv'
    BY <1>1, <1>2, <1>3, IdleCall DEF Inv, PlaceInv
  <2>7. BusyInv'
    <3>1. Key(calls[i]) \in Keys /\ \A l \in Keys : ~Holds(calls'[i], l)
      BY <1>2, IdleCall DEF Key, Keys, Holds
    <3>2. CASE calls[i].op = "refresh"
      <4>1. \A l \in Keys : ~Holds(calls[i], l)
        BY <3>2 DEF Holds
      <4> QED
        BY <1>2, <2>1, <3>1, <3>2, <4>1, BusyKept DEF Shows
    <3>3. CASE calls[i].op # "refresh"
      <4>1. Holds(calls[i], Key(calls[i]))
        BY <1>1, <2>2, <3>3 DEF Holds, Refreshes
      <4> QED
        BY <1>2, <2>1, <3>1, <3>3, <4>1, BusyFreed DEF Shows
    <3> QED
      BY <3>2, <3>3
  <2>8. SetupInv'
    <3>1. \A j \in Calls : calls'[j].op = "setup" => calls'[j] = calls[j]
      BY <1>2, IdleCall
    <3> QED
      BY <1>3, <2>1, <3>1, SetupKept DEF Shows, SameSecret
  <2>9. MfaInv'
    <3>1. calls[i].saw \in {"on", "off"} => Agrees(calls[i].saw = "on")
      BY <2>2 DEF Inv, MfaInv
    <3>2. form'.mfa = account'.totp \/ form'.mixed \/ form'.crossed
      BY <1>1, <2>1, <2>3, <3>1 DEF Shows, Agrees
    <3>3. \A j \in Calls : Here(calls'[j]) /\ calls'[j].saw \in {"on", "off"} =>
            (calls'[j].saw = "on") = account'.totp \/ form'.mixed \/ form'.crossed
      BY <1>1, <2>1, <2>4 DEF Inv, MfaInv, Shows, Agrees
    <3>4. \A j \in Calls : Here(calls'[j]) /\ calls'[j].op = "disable" /\ calls'[j].at # "send" =>
            ~account'.totp \/ form'.crossed
      BY <1>1, <2>1, <2>4 DEF Inv, MfaInv, Shows
    <3>5. /\ form'.done => account'.totp \/ form'.crossed
          /\ form'.flash = "disabled" => ~account'.totp \/ form'.crossed
      BY <1>1, <2>1, <2>2 DEF Inv, MfaInv, MfaSaidIsTrue, Shows
    <3> QED
      BY <1>3, <2>2, <3>2, <3>3, <3>4, <3>5 DEF MfaInv, MfaSaidIsTrue, Agrees
  <2>10. EditInv'
    <3>1. \A j \in Calls : Here(calls'[j]) => calls'[j].op # "refresh"
      BY <2>2, <2>4 DEF Inv, EditInv
    <3> QED
      BY <1>3, <2>1, <2>2, <3>1 DEF EditInv, Shows
  <2> QED
    BY <1>4, <1>5, <2>5, <2>6, <2>7, <2>8, <2>9, <2>10 DEF Inv
<1> QED
  BY <1>6, <1>7

-----------------------------------------------------------------------------
(* The invariant holds.                                                     *)

\* A step of the customer keeps it ...
LEMMA CustomerInv == ASSUME Inv, Customer PROVE Inv'
<1>1. CASE \E p \in Pages : Go(p)
  BY <1>1, GoInv
<1>2. CASE \E p \in Pages : Reload(p)
  BY <1>2, LoadInv, InvTypes DEF Reload
<1>3. CASE SignIn
  <2>1. Begin("submit", Call("signIn", "attempt"), form) /\ On(ScreenOf("signIn"), "submit")
        /\ authError' = FALSE
    BY <1>3 DEF SignIn, ScreenOf
  <2> QED
    BY <2>1, SubmitInv
<1>4. CASE Challenge
  <2>1. Begin("submit", Call("confirm", "send"), form) /\ On(ScreenOf("confirm"), "submit")
        /\ authError' = authError
    BY <1>4 DEF Challenge, ScreenOf
  <2> QED
    BY <2>1, SubmitInv
<1>5. CASE SignUp
  <2>1. Begin("submit", Call("signUp", "send"), form) /\ On(ScreenOf("signUp"), "submit")
        /\ authError' = authError
    BY <1>5 DEF SignUp, ScreenOf
  <2> QED
    BY <2>1, SubmitInv
<1>6. CASE Verify
  <2>1. Begin("submit", Call("verify", "send"), form) /\ On(ScreenOf("verify"), "submit")
        /\ authError' = authError
    BY <1>6 DEF Verify, ScreenOf
  <2> QED
    BY <2>1, SubmitInv
<1>7. CASE Reset
  <2>1. Begin("submit", Call("reset", "send"), form) /\ On(ScreenOf("reset"), "submit")
        /\ authError' = authError
    BY <1>7 DEF Reset, ScreenOf
  <2> QED
    BY <2>1, SubmitInv
<1>8. CASE Forgot
  <2>1. Begin("submit", Call("forgot", "send"), form) /\ On(ScreenOf("forgot"), "submit")
        /\ authError' = authError
    BY <1>8 DEF Forgot, ScreenOf
  <2> QED
    BY <2>1, SubmitInv
<1>9. CASE Save
  BY <1>9, ProfileInv DEF Save
<1>10. CASE VerifyNew
  BY <1>10, ProfileInv DEF VerifyNew
<1>11. CASE Disable
  BY <1>11, ProfileInv DEF Disable
<1>12. CASE ChangePassword
  <2>1. CASE Begin("password", Call("password", "send"), form) /\ UNCHANGED authError
    BY <1>12, <2>1, ProfileInv DEF ChangePassword
  <2>2. CASE /\ form' = [form EXCEPT !.error = "refused"]
             /\ UNCHANGED <<cognito, provider, page, calls, cut>>
    BY <2>2, SwitchInv
  <2> QED
    BY <1>12, <2>1, <2>2 DEF ChangePassword
<1>13. CASE CancelNew
  BY <1>13, SwitchInv DEF CancelNew
<1>14. CASE Ask
  <2>1. PICK ask \in {form.mfa, FALSE} : form' = [form EXCEPT !.ask = ask]
    BY <1>14 DEF Ask
  <2>2. ask \in BOOLEAN
    BY <2>1, InvTypes DEF FormType
  <2> QED
    BY <1>14, <2>1, <2>2, SwitchInv DEF Ask
<1> QED
  BY <1>1, <1>2, <1>3, <1>4, <1>5, <1>6, <1>7, <1>8, <1>9, <1>10, <1>11, <1>12, <1>13, <1>14,
     CancelInv, LeavesInv, ResendInv, RestartInv, ActivateInv, EditedInv DEF Customer

\* ... and so does one of a handler.
LEMMA StepInv == ASSUME Inv, NEW i \in Calls, Step(i) PROVE Inv'
<1>1. CASE ProviderStep(i)
  BY <1>1, FetchSessionInv, HydrateInv, AttemptInv, ClearStaleInv, RemoveUserInv, SignOutInv
  DEF ProviderStep
<1>2. CASE \/ Confirm(i) \/ SignUpAnswered(i) \/ VerifyAnswered(i) \/ ResetAnswered(i)
           \/ Timer(i) \/ ResendAnswered(i) \/ ForgotAnswered(i)
  BY <1>2, ConfirmInv, SignUpAnsweredInv, VerifyAnsweredInv, ResetAnsweredInv, TimerInv,
     ResendAnsweredInv, ForgotAnsweredInv
<1>3. CASE \/ SetUpTotp(i) \/ SetUpFails(i) \/ SetUpAnswered(i) \/ VerifyTotp(i)
           \/ Activated(i)
  BY <1>3, SetUpTotpInv, SetUpFailsInv, SetUpAnsweredInv, VerifyTotpInv, ActivatedInv
<1>4. CASE \/ Saved(i) \/ EmailVerified(i) \/ PasswordChanged(i) \/ Disabled(i)
           \/ Fetch(i) \/ Refresh(i)
  BY <1>4, SavedInv, EmailVerifiedInv, PasswordChangedInv, DisabledInv, FetchInv, RefreshInv
<1> QED
  BY <1>1, <1>2, <1>3, <1>4 DEF Step

\* Customers, the cooldown and handlers keep the invariant.
LEMMA NextInv == Inv /\ [Next]_vars => Inv'
<1> SUFFICES ASSUME Inv, [Next]_vars PROVE Inv'
  OBVIOUS
<1>1. CASE Customer
  BY <1>1, CustomerInv
<1>2. CASE Cooled
  BY <1>2, SwitchInv DEF Cooled
<1>3. CASE \E i \in Calls : Step(i)
  BY <1>3, StepInv
<1>4. CASE UNCHANGED vars
  <2>1. UNCHANGED <<cognito, provider, page, calls, cut>> /\ form' = form
    BY <1>4 DEF vars
  <2> QED
    BY <2>1, InvTypes, SameForm, FormStep
<1> QED
  BY <1>1, <1>2, <1>3, <1>4 DEF Next

\* What every screen keeps follows from it.
LEMMA InvAccount == Inv => AccountInv
<1> SUFFICES ASSUME Inv PROVE AccountInv
  OBVIOUS
<1>1. TypeOK /\ SessionIsReal /\ SecretIsLatest
  BY DEF Inv, Types, SessionInv, SetupInv
<1>2. BusyIsInFlight
  <2> SUFFICES ASSUME NEW k \in Keys
               PROVE  Cardinality(OfScreen(k)) = IF k \in form.busy THEN 1 ELSE 0
    BY DEF BusyIsInFlight, Keys
  <2>1. \A i \in Calls : i \in OfScreen(k) <=> Holds(calls[i], k)
    BY DEF OfScreen, Holds, Here
  <2>2. CASE k \in form.busy
    <3>1. PICK i \in Calls : Holds(calls[i], k)
      BY <2>2 DEF Inv, BusyInv
    <3>2. OfScreen(k) = {i}
      BY <2>1, <3>1 DEF Inv, BusyInv, OfScreen
    <3> QED
      BY <2>2, <3>2, FS_Singleton
  <2>3. CASE k \notin form.busy
    <3>1. OfScreen(k) = {}
      BY <2>1, <2>3 DEF Inv, BusyInv, OfScreen
    <3> QED
      BY <2>3, <3>1, FS_EmptySet
  <2> QED
    BY <2>2, <2>3
<1> QED
  BY <1>1, <1>2 DEF AccountInv

\* So does what they say of TOTP.
LEMMA InvMfa == Inv => MfaIsTrue
<1> SUFFICES ASSUME Inv PROVE MfaIsTrue
  OBVIOUS
<1>1. MfaSaidIsTrue
  BY DEF Inv, MfaInv
<1>2. MfaShownIsCurrent
  <2> SUFFICES ASSUME screen = "profile", ~form.loading, OfScreen("mfa") = {}
               PROVE  Agrees(form.mfa)
    BY DEF MfaShownIsCurrent, Agrees
  <2>1. ASSUME NEW i \in Calls, Here(calls[i]), calls[i].op = "disable" PROVE FALSE
    <3>1. calls[i].at # "timer"
      BY <2>1, InvTypes DEF Staged
    <3> QED
      BY <2>1, <3>1 DEF OfScreen, Here, Key
  <2> QED
    BY <2>1 DEF Inv, MfaInv
<1> QED
  BY <1>1, <1>2 DEF MfaIsTrue

\* In every reachable state the state has its types; a screen of a signed-in customer has
\* a user, no error, and a session behind it unless a sign-out cut it; a button is off
\* exactly while one handler of its own is under way; and the secret on the screen is the
\* latest, unless two set-ups overlapped.
THEOREM ScreensKeep == Spec => []AccountInv
<1>1. Spec => []Inv
  BY InitInv, NextInv, PTL DEF Spec
<1> QED
  BY <1>1, InvAccount, PTL

\* In every reachable state what a screen says of the TOTP preference is so: "protected"
\* and "disabled" after its own change, and the status on the profile once its change is
\* read back, unless a handler of a left screen changed it or a refresh failed or was
\* overtaken.
THEOREM MfaSaidAndShown == Spec => []MfaIsTrue
<1>1. Spec => []Inv
  BY InitInv, NextInv, PTL DEF Spec
<1> QED
  BY <1>1, InvMfa, PTL

-----------------------------------------------------------------------------
(* What no step does: keep a customer out, or lose what they typed.         *)

\* A step tells of no other session, and what is edited stays so.
Mild(f, g) == g.error \in {f.error, "none", "refused"} /\ (f.edited => g.edited)
MildStep ==
  /\ form'.error \in {form.error, "none", "refused"}
  /\ form.edited /\ screen' = "profile" => form'.edited

\* The helpers do so.
LEMMA MildForms ==
  ASSUME NEW f \in FormType, NEW k \in Keys
  PROVE  /\ Mild(f, f) /\ Mild(f, Busy(k, f)) /\ Mild(f, Ready(k, f))
         /\ Mild(f, Failed(k, "refused", f))
BY DEF Mild, Busy, Ready, Failed, FormType

\* A handler that ends on its screen, or goes on.
LEMMA MildStay ==
  ASSUME Inv, NEW i \in Calls, NEW d, NEW g, Stay(i, d, g), Mild(form, g)
  PROVE  MildStep
BY DEF Stay, Mild, MildStep

\* One that renders: what was edited is gone with its screen only.
LEMMA MildRender ==
  ASSUME Inv, NEW p, NEW s, NEW f, NEW cs, NEW i \in Calls, Render(p, s, f, cs, i),
         account'.admin = account.admin, Mild(form, f)
  PROVE  MildStep
<1>1. CASE screen' = screen /\ form' = f
  BY <1>1 DEF Mild, MildStep
<1>2. CASE ~(screen' = screen /\ SameTree(s)) /\ Remount(cs, i, screen')
  <2> DEFINE b == screen' = "setup" /\ SetupsUnderWay(cs)
  <2>1. b \in BOOLEAN /\ form' = [Mounted(screen') EXCEPT !.overlap = b]
    BY <1>2 DEF Remount, SetupsUnderWay
  <2> HIDE DEF b
  <2>2. form'.error = "none"
    BY <2>1, MountedForm
  <2>3. form.edited => screen = "profile"
    BY DEF Inv, EditInv
  <2>4. form.edited /\ screen' = "profile" => status = "authenticated" /\ status' = "authenticated"
    <3>1. \A q \in Pages : \A r, b2 : Shown(q, r, b2) = "profile" => r = "authenticated"
      BY DEF Shown, Public
    <3>2. page \in Pages /\ page' \in Pages \cup {p}
      BY InvTypes, RenderCases DEF Pages
    <3> QED
      BY <2>3, <3>1, <3>2 DEF screen, Shown, Public
  <2>5. status' = s
    BY RenderCases
  <2> QED
    BY <1>2, <2>2, <2>3, <2>4, <2>5 DEF MildStep, SameTree
<1> QED
  BY <1>1, <1>2, RenderCases

\* A page that loads shows no error, and no profile.
LEMMA MildLoad == ASSUME Inv, NEW p, Load(p) PROVE MildStep
<1>1. screen' = "spinner" /\ form'.error = "none"
  BY DEF Load, screen, Shown, Mounted
<1> QED
  BY <1>1 DEF MildStep

\* A handler that starts has cleared the error.
LEMMA MildBegin ==
  ASSUME Inv, NEW k \in Keys, NEW c, NEW f \in FormType, Begin(k, c, f), Mild(form, f)
  PROVE  MildStep
BY DEF Begin, Mild, MildStep, Busy, FormType

\* The steps of the customer.
LEMMA MildCustomer == ASSUME Inv, Customer PROVE MildStep
<1> USE InvTypes
<1>1. CASE \E p \in Pages : Go(p) \/ Reload(p)
  <2>1. PICK p \in Pages : Go(p) \/ Reload(p)
    BY <1>1
  <2>2. CASE Go(p)
    <3>1. Free # {} /\ Render(p, status, form, calls, CHOOSE j \in Free : TRUE)
      BY <2>2 DEF Go
    <3>2. (CHOOSE j \in Free : TRUE) \in Calls
      BY <3>1, FreeSlot
    <3>3. account'.admin = account.admin /\ Mild(form, form)
      BY <2>2 DEF Go, cognito, Mild
    <3> QED
      BY <3>1, <3>2, <3>3, MildRender
  <2>3. CASE Reload(p)
    BY <2>3, MildLoad DEF Reload
  <2> QED
    BY <2>1, <2>2, <2>3
<1>2. CASE \/ SignIn \/ Challenge \/ SignUp \/ Verify \/ Reset \/ Resend \/ Forgot
           \/ Save \/ VerifyNew \/ Disable
  <2>1. \E k \in Keys, c \in {Call("signIn", "attempt"), Call("confirm", "send"),
             Call("signUp", "send"), Call("verify", "send"), Call("reset", "send"),
             Call("resend", "send"), Call("forgot", "send"), Call("save", "send"),
             Call("email", "send"), Call("disable", "send")} : Begin(k, c, form)
    BY <1>2 DEF SignIn, Challenge, SignUp, Verify, Reset, Resend, Forgot, Save, VerifyNew,
                Disable, Keys
  <2> QED
    BY <2>1, MildBegin, MildForms DEF Keys, Mild
<1>3. CASE Activate
  <2> DEFINE f == [form EXCEPT !.flash = "none"]
  <2>1. f \in FormType /\ Mild(form, f)
    BY DEF FormType, Mild
  <2>2. Begin("submit", [Call("activate", "send") EXCEPT !.saw = form.secret], f)
    BY <1>3 DEF Activate
  <2> HIDE DEF f
  <2> QED
    BY <2>1, <2>2, MildBegin DEF Keys
<1>4. CASE Cancel
  <2> DEFINE i == CHOOSE j \in Free : TRUE
  <2>1. /\ Free # {}
        /\ Render("login", status, form, [calls EXCEPT ![i] = Call("removeUser", "clear")], i)
    BY <1>4 DEF Cancel
  <2>2. i \in Calls
    BY <2>1, FreeSlot
  <2>3. account'.admin = account.admin /\ Mild(form, form)
    BY <1>4 DEF Cancel, cognito, Mild
  <2> HIDE DEF i
  <2> QED
    BY <2>1, <2>2, <2>3, MildRender
<1>5. CASE ChangePassword
  <2>1. CASE Begin("password", Call("password", "send"), form)
    BY <2>1, MildBegin, MildForms DEF Keys, Mild
  <2>2. CASE form' = [form EXCEPT !.error = "refused"]
    BY <2>2 DEF MildStep, FormType
  <2> QED
    BY <1>5, <2>1, <2>2 DEF ChangePassword
<1>6. CASE Leaves \/ Restart \/ Edit \/ CancelNew \/ Ask
  BY <1>6 DEF Leaves, Restart, CleanSetup, Edit, CancelNew, Ask, MildStep, FormType
<1> QED
  BY <1>1, <1>2, <1>3, <1>4, <1>5, <1>6 DEF Customer

\* A handler that ends by a render, its slot free again.
LEMMA MildEndRender ==
  ASSUME Inv, NEW i \in Calls, NEW p, NEW s, NEW f, NEW cs,
         Render(p, s, IF calls[i].left THEN form ELSE f, cs, i),
         account'.admin = account.admin, Mild(form, f)
  PROVE  MildStep
<1>1. Mild(form, IF calls[i].left THEN form ELSE f)
  BY DEF Mild
<1> QED
  BY <1>1, MildRender

\* A handler that goes to another page.
LEMMA MildNavigate ==
  ASSUME Inv, NEW i \in Calls, NEW p, Navigate(i, p), account'.admin = account.admin
  PROVE  MildStep
<1>1. Render(p, status, IF calls[i].left THEN form ELSE Ready("submit", form),
             [calls EXCEPT ![i] = Idle], i)
  BY DEF Navigate
<1>2. Mild(form, Ready("submit", form))
  BY InvTypes, MildForms DEF Keys
<1> QED
  BY <1>1, <1>2, MildEndRender

\* A change of the preference.
LEMMA MildPrefer ==
  ASSUME Inv, NEW i \in Calls, NEW totp, NEW d, NEW f \in FormType, Prefer(i, totp, d, f),
         Mild(form, f)
  PROVE  MildStep
<1> DEFINE g == IF calls[i].left THEN form ELSE f
           crossed == g.crossed \/ calls[i].left
           mixed == g.mixed \/ Reading
           h == [g EXCEPT !.crossed = crossed, !.mixed = mixed]
<1>1. form' = h
  BY DEF Prefer
<1>2. g \in FormType /\ Mild(form, g)
  BY InvTypes DEF Mild
<1> HIDE DEF g, crossed, mixed
<1>3. h.error = g.error /\ h.edited = g.edited
  BY <1>2 DEF FormType
<1> QED
  BY <1>1, <1>2, <1>3 DEF Mild, MildStep

\* The steps of the handlers, but for two.
LEMMA MildHandler ==
  ASSUME Inv, NEW i \in Calls, Step(i), ~Attempt(i), ~Refresh(i)
  PROVE  MildStep
<1> USE InvTypes
<1>0. Mild(form, form)
  BY DEF Mild
<1>1. CASE FetchSession(i) \/ Fetch(i)
  BY <1>1, <1>0 DEF FetchSession, Fetch, Mild, MildStep
<1>2. CASE Hydrate(i)
  <2>1. PICK p, s : Render(p, s, IF calls[i].left THEN form ELSE Ready("submit", form),
                           [calls EXCEPT ![i] = Idle], i)
    BY <1>2 DEF Hydrate
  <2>2. account' = account
    BY <1>2 DEF Hydrate, cognito
  <2>3. Mild(form, Ready("submit", form))
    BY MildForms DEF Keys
  <2> QED
    BY <2>1, <2>2, <2>3, MildEndRender
<1>3. CASE ClearStale(i)
  BY <1>0, <1>3, MildStay DEF ClearStale
<1>4. CASE RemoveUser(i)
  BY <1>0, <1>4, MildRender DEF RemoveUser
<1>5. CASE SignOut(i)
  BY <1>5, MildLoad DEF SignOut
<1>6. CASE Confirm(i)
  <2>1. Mild(form, Failed("submit", "refused", form))
    BY MildForms DEF Keys
  <2> QED
    BY <1>0, <1>6, <2>1, MildStay DEF Confirm
<1>7. CASE SignUpAnswered(i)
  <2>1. CASE \E p : Navigate(i, p) /\ account'.admin = account.admin
    BY <2>1, MildNavigate
  <2>2. CASE \E known \in BOOLEAN :
               Stay(i, Idle, [Failed("submit", "refused", form) EXCEPT !.offer = known])
    <3>1. PICK known \in BOOLEAN :
            Stay(i, Idle, [Failed("submit", "refused", form) EXCEPT !.offer = known])
      BY <2>2
    <3>2. Mild(form, [Failed("submit", "refused", form) EXCEPT !.offer = known])
      BY DEF Mild, Failed, FormType
    <3> QED
      BY <3>1, <3>2, MildStay
  <2>3. \/ \E p : Navigate(i, p) /\ account'.admin = account.admin
        \/ \E known \in BOOLEAN :
             Stay(i, Idle, [Failed("submit", "refused", form) EXCEPT !.offer = known])
    <3>1. CASE \E state \in {"unconfirmed", "confirmed"} :
             /\ account' = [account EXCEPT !.state = state]
             /\ Navigate(i, IF state = "confirmed" THEN "login" ELSE "verify-email")
      BY <3>1 DEF AccountType
    <3>2. CASE \E known \in {FALSE, account.state # "none"}, lost \in {FALSE, account.state = "none"} :
          /\ Stay(i, Idle, [Failed("submit", "refused", form) EXCEPT !.offer = known])
          /\ account' = IF lost THEN [account EXCEPT !.state = "unconfirmed"] ELSE account
      BY <3>2
    <3> QED
      BY <1>7, <3>1, <3>2 DEF SignUpAnswered
  <2> QED
    BY <2>1, <2>2, <2>3
<1>8. CASE VerifyAnswered(i) \/ ResetAnswered(i)
  <2>1. /\ Mild(form, Failed("submit", "refused", form))
        /\ Mild(form, [Ready("submit", form) EXCEPT !.flash = "ok"])
    BY DEF Mild, Failed, Ready, FormType
  <2> QED
    BY <1>8, <2>1, MildStay DEF VerifyAnswered, ResetAnswered, Redirects
<1>9. CASE Timer(i) \/ ForgotAnswered(i)
  BY <1>9, MildNavigate DEF Timer, ForgotAnswered, cognito
<1>10. CASE ResendAnswered(i)
  <2>1. /\ Mild(form, [Ready("resend", form) EXCEPT !.cooling = TRUE, !.flash = "ok"])
        /\ Mild(form, Failed("resend", "refused", form))
    BY DEF Mild, Failed, Ready, FormType
  <2>2. PICK ok \in BOOLEAN :
          Stay(i, Idle, IF ok THEN [Ready("resend", form) EXCEPT !.cooling = TRUE, !.flash = "ok"]
                        ELSE Failed("resend", "refused", form))
    BY <1>10 DEF ResendAnswered
  <2> QED
    BY <2>1, <2>2, MildStay
<1>11. CASE SetUpTotp(i)
  BY <1>11 DEF SetUpTotp, MildStep, FormType
<1>12. CASE SetUpFails(i) \/ SetUpAnswered(i)
  <2>1. /\ Mild(form, [form EXCEPT !.error = "refused"])
        /\ Mild(form, [form EXCEPT !.secret = calls[i].saw])
    BY DEF Mild, FormType
  <2>2. \/ Stay(i, Idle, [form EXCEPT !.error = "refused"])
        \/ Stay(i, Idle, [form EXCEPT !.secret = calls[i].saw])
    BY <1>12 DEF SetUpFails, SetUpAnswered
  <2> QED
    BY <2>1, <2>2, MildStay
<1>13. CASE VerifyTotp(i)
  <2>1. Mild(form, Failed("submit", "refused", form))
    BY MildForms DEF Keys
  <2> QED
    BY <1>0, <1>13, <2>1, MildStay DEF VerifyTotp
<1>14. CASE Activated(i)
  <2> DEFINE f == [Ready("submit", form) EXCEPT !.done = TRUE, !.secret = "none"]
             e == Failed("submit", "refused", form)
  <2>1. /\ f \in FormType /\ Mild(form, f)
        /\ e \in FormType /\ Mild(form, e)
    BY DEF Mild, Failed, Ready, FormType
  <2>2. Prefer(i, TRUE, Idle, f) \/ Prefer(i, TRUE, Idle, e) \/ Stay(i, Idle, e)
    BY <1>14 DEF Activated
  <2> HIDE DEF f, e
  <2> QED
    BY <2>1, <2>2, MildPrefer, MildStay
<1>15. CASE Saved(i)
  <2> DEFINE t == [form EXCEPT !.flash = "ok"]
             u == [Ready("save", form) EXCEPT !.code = TRUE, !.flash = "ok"]
             e == Failed("save", "refused", form)
  <2>1. Mild(form, t) /\ Mild(form, u) /\ Mild(form, e)
    BY DEF Mild, Failed, Ready, FormType
  <2>2. PICK result \in UpdateResults :
          Stay(i, IF result = "stored" THEN [calls[i] EXCEPT !.at = "fetch"] ELSE Idle,
               CASE result = "stored" -> t
                 [] result = "code" -> u
                 [] OTHER -> e)
    BY <1>15 DEF Saved
  <2> HIDE DEF t, u, e
  <2>3. Mild(form, CASE result = "stored" -> t
                     [] result = "code" -> u
                     [] OTHER -> e)
    BY <2>1
  <2> QED
    BY <2>2, <2>3, MildStay
<1>16. CASE EmailVerified(i)
  <2>1. /\ Mild(form, [form EXCEPT !.code = FALSE, !.flash = "ok"])
        /\ Mild(form, Failed("save", "refused", form))
    BY DEF Mild, Failed, FormType
  <2> QED
    BY <1>16, <2>1, MildStay DEF EmailVerified
<1>17. CASE PasswordChanged(i)
  <2>1. /\ Mild(form, [Ready("password", form) EXCEPT !.flash = "ok"])
        /\ Mild(form, Failed("password", "refused", form))
    BY DEF Mild, Failed, Ready, FormType
  <2> QED
    BY <1>17, <2>1, MildStay DEF PasswordChanged
<1>18. CASE Disabled(i)
  <2> DEFINE f == [form EXCEPT !.ask = FALSE]
             e == Failed("mfa", "refused", form)
             m == [e EXCEPT !.mixed = TRUE]
             d == [calls[i] EXCEPT !.at = "fetch"]
  <2>1. /\ f \in FormType /\ Mild(form, f)
        /\ m \in FormType /\ Mild(form, m)
        /\ Mild(form, e)
    BY DEF Mild, Failed, FormType
  <2>2. Prefer(i, FALSE, d, f) \/ Prefer(i, FALSE, Idle, m) \/ Stay(i, Idle, e)
    BY <1>18 DEF Disabled
  <2> HIDE DEF f, e, m, d
  <2> QED
    BY <2>1, <2>2, MildPrefer, MildStay
<1> QED
  BY <1>1, <1>2, <1>3, <1>4, <1>5, <1>6, <1>7, <1>8, <1>9, <1>10, <1>11, <1>12, <1>13,
     <1>14, <1>15, <1>16, <1>17, <1>18 DEF Step, ProviderStep

\* Cognito's answer to a sign-in tells of another session only if there is one, and the
\* stale one has been cleared.
LEMMA AttemptTells ==
  ASSUME Inv, NEW i \in Calls, Attempt(i)
  PROVE  /\ form.edited /\ screen' = "profile" => form'.edited
         /\ \/ form'.error \in {form.error, "none", "refused"}
            \/ calls[i].op = "signIn" /\ calls[i].at = "again" /\ tokens
<1>1. calls[i].op = "signIn" /\ calls[i].at \in {"attempt", "again"} /\ account' = account
  BY DEF Attempt
<1>2. PICK result \in Attempts :
        IF result = "already" /\ calls[i].at = "attempt"
        THEN Stay(i, [calls[i] EXCEPT !.at = "clear"], form) /\ UNCHANGED <<tokens, pending>>
        ELSE Result(i, result)
  BY DEF Attempt
<1>3. CASE \E d : Stay(i, d, form)
  BY <1>3, MildStay DEF Mild, MildStep
<1>4. CASE Challenged(i, result)
  <2>1. PICK p, s : Render(p, s, IF calls[i].left THEN form ELSE Failed("submit", "refused", form),
                           [calls EXCEPT ![i] = Idle], i)
    BY <1>4 DEF Challenged
  <2>2. Mild(form, Failed("submit", "refused", form))
    BY InvTypes, MildForms DEF Keys
  <2> QED
    BY <1>1, <2>1, <2>2, MildEndRender DEF MildStep
<1>5. CASE Refused(i, result) /\ ~(result = "already" /\ calls[i].at = "attempt")
  <2> DEFINE e == IF result = "already" THEN result ELSE "refused"
             b == result = "unconfirmed"
             g == [Failed("submit", e, form) EXCEPT !.offer = b]
  <2>1. Stay(i, Idle, g)
    BY <1>5 DEF Refused
  <2>2. g.error = e /\ g.edited = form.edited
    BY InvTypes DEF Failed, FormType
  <2>3. form' = IF calls[i].left THEN form ELSE g
    BY <2>1 DEF Stay
  <2>4. result = "already" => tokens
    BY <1>2, InvTypes DEF Attempts, AccountType
  <2> HIDE DEF g
  <2> QED
    BY <1>1, <1>5, <2>2, <2>3, <2>4
<1> QED
  BY <1>2, <1>3, <1>4, <1>5 DEF Result, SignedIn

\* A refresh replaces what was edited only if a button of the profile asked for it.
LEMMA RefreshTells ==
  ASSUME Inv, NEW i \in Calls, Refresh(i)
  PROVE  /\ form'.error \in {form.error, "none", "refused"}
         /\ form.edited /\ ~form'.edited =>
              calls[i].op \in {"save", "email", "disable"} /\ calls[i].at = "read"
<1> DEFINE g == AfterRefresh(calls[i].op, Refreshed(calls[i].saw, form))
<1>1. /\ calls[i].op \in Refreshes /\ calls[i].at = "read"
      /\ form' = IF calls[i].left THEN form ELSE g
  BY DEF Refresh, Stay
<1>2. g.error \in {"none", "refused"}
  <2> DEFINE r == Refreshed(calls[i].saw, form)
  <2>1. r \in FormType /\ r.error \in {"none", "refused"}
    <3> DEFINE on == calls[i].saw = "on"
    <3>1. on \in BOOLEAN
      OBVIOUS
    <3>2. r = IF calls[i].saw = "error"
              THEN [form EXCEPT !.loading = FALSE, !.error = "refused", !.mixed = TRUE]
              ELSE [form EXCEPT !.loading = FALSE, !.error = "none", !.mfa = on, !.edited = FALSE]
      BY DEF Refreshed
    <3> HIDE DEF on, r
    <3> QED
      BY <3>1, <3>2, InvTypes DEF FormType
  <2> HIDE DEF r
  <2>2. AfterRefresh(calls[i].op, r).error = r.error
    BY <1>1, <2>1 DEF AfterRefresh, Ready, Refreshes, FormType
  <2> QED
    BY <2>1, <2>2 DEF r
<1>3. calls[i].op = "refresh" /\ ~calls[i].left => form.loading
  BY DEF Inv, EditInv, Here, Ours
<1>4. form.edited => ~form.loading
  BY DEF Inv, EditInv
<1> QED
  BY <1>1, <1>2, <1>3, <1>4 DEF Refreshes

\* A customer whose sign-in is the only one is never told that somebody is signed in
\* already: the session that was in the way is cleared before the second attempt, and
\* nobody else makes one in between.
THEOREM NobodyStranded == Spec => NotStranded
<1>1. ASSUME Inv, Next, NEW i \in Calls, calls[i].op = "signIn", calls[i].alone,
             form.error # "already"
      PROVE  form'.error # "already"
  <2>1. CASE Customer
    BY <1>1, <2>1, MildCustomer DEF MildStep
  <2>2. CASE Cooled
    BY <1>1, <2>2, InvTypes DEF Cooled, FormType
  <2>3. ASSUME NEW j \in Calls, Step(j) PROVE form'.error # "already"
    <3>1. CASE ~Attempt(j) /\ ~Refresh(j)
      BY <1>1, <2>3, <3>1, MildHandler DEF MildStep
    <3>2. CASE Refresh(j)
      BY <1>1, <3>2, RefreshTells
    <3>3. CASE Attempt(j)
      <4>1. SUFFICES ASSUME calls[j].op = "signIn", calls[j].at = "again", tokens PROVE FALSE
        BY <1>1, <3>3, AttemptTells
      <4> QED
        BY <1>1, <4>1 DEF Inv, SignInv, SignsAlone, SignsIn
    <3> QED
      BY <3>1, <3>2, <3>3
  <2> QED
    BY <1>1, <2>1, <2>2, <2>3 DEF Next
<1>2. Inv /\ [Next]_vars =>
        [\A i \in Calls :
           calls[i].op = "signIn" /\ calls[i].alone /\ form.error # "already" =>
             form'.error # "already"]_vars
  BY <1>1
<1>3. Spec => []Inv
  BY InitInv, NextInv, PTL DEF Spec
<1> QED
  BY <1>2, <1>3, PTL DEF Spec, NotStranded

\* What a customer typed into the profile and has not saved is there until one of their
\* own clicks reads the profile anew, or they leave it.
THEOREM NothingTypedIsLost == Spec => EditsKept
<1>1. ASSUME Inv, Next, form.edited, screen' = "profile", ~form'.edited
      PROVE  \E i \in Calls : calls[i].op \in {"save", "email", "disable"} /\ calls[i].at = "read"
  <2>1. CASE Customer
    BY <1>1, <2>1, MildCustomer DEF MildStep
  <2>2. CASE Cooled
    BY <1>1, <2>2, InvTypes DEF Cooled, FormType
  <2>3. ASSUME NEW j \in Calls, Step(j)
        PROVE  \E i \in Calls : calls[i].op \in {"save", "email", "disable"} /\ calls[i].at = "read"
    <3>1. CASE ~Attempt(j) /\ ~Refresh(j)
      BY <1>1, <2>3, <3>1, MildHandler DEF MildStep
    <3>2. CASE Refresh(j)
      BY <1>1, <3>2, RefreshTells
    <3>3. CASE Attempt(j)
      BY <1>1, <3>3, AttemptTells
    <3> QED
      BY <3>1, <3>2, <3>3
  <2> QED
    BY <1>1, <2>1, <2>2, <2>3 DEF Next
<1>2. Inv /\ [Next]_vars =>
        [form.edited /\ screen' = "profile" /\ ~form'.edited =>
           \E i \in Calls : calls[i].op \in {"save", "email", "disable"} /\ calls[i].at = "read"]_vars
  BY <1>1
<1>3. Spec => []Inv
  BY InitInv, NextInv, PTL DEF Spec
<1> QED
  BY <1>2, <1>3, PTL DEF Spec, EditsKept
=============================================================================
