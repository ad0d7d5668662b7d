------------------------------ MODULE Account ------------------------------
(* The screens of an account: signing in and up, verifying, recovering, the  *)
(* TOTP challenge and its set-up, the profile.  A handler sends its requests *)
(* to Cognito one after the other and then changes its screen, if that is    *)
(* still there, or goes to another one, wherever the customer is by then.    *)
EXTENDS Session

\* What the header and the screen link to.
Header == IF status # "authenticated" \/ screen = "landing" THEN {}
          ELSE {"landing", "products", "profile"} \cup IF account.admin THEN {"admin"} ELSE {}

Landing ==
  IF status = "authenticated"
  THEN {"products", "profile"} \cup IF account.admin THEN {"admin"} ELSE {}
  ELSE {"products", "login", "signup"}

\* "Set up authenticator" on the profile.
EnableMfa == IF form.mfa \/ "mfa" \in form.busy \/ form.loading THEN {} ELSE {"setup"}

Links ==
  Header \cup
  CASE screen = "landing" -> Landing
    [] screen = "login" -> {"forgot-password", "signup"} \cup IF form.offer THEN {"verify-email"} ELSE {}
    [] screen = "signup" -> {"login"} \cup IF form.offer THEN {"verify-email"} ELSE {}
    [] screen \in {"verify-email", "forgot-password", "reset-password"} -> {"login"}
    [] screen = "setup" -> {"profile"}
    [] screen = "profile" -> EnableMfa
    [] screen \in {"notfound", "restricted"} -> {"products"}
    [] OTHER -> {}

Go(p) ==
  /\ p \in Links /\ Free # {}
  /\ LET i == CHOOSE j \in Free : TRUE IN Render(p, status, form, calls, i)
  /\ UNCHANGED <<cognito, user, authError, cut>>

\* The customer starts a handler: what it does at once is that its key is busy and the
\* messages of before are gone.
SignsIn(op) == op \in {"signIn", "confirm"}
Begin(k, call, f) ==
  /\ Free # {}
  /\ LET i == CHOOSE j \in Free : TRUE
         others == \E j \in Calls : SignsIn(calls[j].op) IN
     calls' = [j \in Calls |->
       IF j = i THEN [call EXCEPT !.alone = ~(SignsIn(call.op) /\ others)]
       ELSE IF SignsIn(call.op) /\ SignsIn(calls[j].op) THEN [calls[j] EXCEPT !.alone = FALSE]
       ELSE calls[j]]
  /\ form' = Busy(k, f)
  /\ UNCHANGED <<cognito, status, user, page, cut>>

On(scr, k) == screen = scr /\ k \notin form.busy
Sends(i, op) == calls[i].op = op /\ calls[i].at = "send"

----------------------------------------------------------------------------
(* SignInPage and MfaChallengePage.                                        *)

\* signIn starts with setError(null).
SignIn == On("login", "submit") /\ authError' = FALSE /\ Begin("submit", Call("signIn", "attempt"), form)

Challenge == On("mfa", "submit") /\ Begin("submit", Call("confirm", "send"), form) /\ UNCHANGED authError

\* The code is right, or it is not; without a sign-in that waits for it, it never is.
Confirm(i) ==
  /\ Sends(i, "confirm")
  /\ \/ /\ pending = "challenge_totp" /\ tokens' = TRUE /\ pending' = "none"
        /\ Stay(i, [calls[i] EXCEPT !.at = "fetch"], form)
     \/ Stay(i, Idle, Failed("submit", "refused", form)) /\ UNCHANGED <<tokens, pending>>
  /\ UNCHANGED <<account, cut>>

\* "Cancel and sign in as someone else": the link leaves at once, removeUser follows.
Cancel ==
  /\ screen = "mfa" /\ Free # {}
  /\ LET i == CHOOSE j \in Free : TRUE IN
     Render("login", status, form, [calls EXCEPT ![i] = Call("removeUser", "clear")], i)
  /\ UNCHANGED <<cognito, user, authError, cut>>

\* The header's button.
Leaves ==
  /\ status = "authenticated" /\ screen # "landing" /\ Free # {}
  /\ calls' = [calls EXCEPT ![CHOOSE j \in Free : TRUE] = Call("signOut", "clear")]
  /\ UNCHANGED <<cognito, provider, page, form, cut>>

----------------------------------------------------------------------------
(* SignUpPage, VerifyEmailPage, ForgotPasswordPage, ResetPasswordPage.     *)

SignUp == On("signup", "submit") /\ Begin("submit", Call("signUp", "send"), form) /\ UNCHANGED authError

\* A handler that ends by navigate(): it moves the customer from wherever they are.
Navigate(i, p) ==
  /\ Render(p, status, IF calls[i].left THEN form ELSE Ready("submit", form),
            [calls EXCEPT ![i] = Idle], i)
  /\ UNCHANGED <<user, authError>>

\* An account is made and awaits its code, or is confirmed at once; a known address and
\* any other failure (or a lost answer) stay on the screen, the first with a link to the
\* verification.
SignUpAnswered(i) ==
  /\ Sends(i, "signUp")
  /\ \/ /\ account.state = "none"
        /\ \E state \in {"unconfirmed", "confirmed"} :
             /\ account' = [account EXCEPT !.state = state]
             /\ Navigate(i, IF state = "confirmed" THEN "login" ELSE "verify-email")
     \/ \E known \in {FALSE, account.state # "none"}, lost \in {FALSE, account.state = "none"} :
          /\ Stay(i, Idle, [Failed("submit", "refused", form) EXCEPT !.offer = known])
          /\ account' = IF lost THEN [account EXCEPT !.state = "unconfirmed"] ELSE account
  /\ UNCHANGED <<tokens, pending, cut>>

Verify == On("verify-email", "submit") /\ Begin("submit", Call("verify", "send"), form) /\ UNCHANGED authError

Reset == On("reset-password", "submit") /\ Begin("submit", Call("reset", "send"), form) /\ UNCHANGED authError

\* Success is shown, and a timer is set that takes the customer to the sign-in.
Redirects(i) ==
  /\ Stay(i, [calls[i] EXCEPT !.at = "timer"], [Ready("submit", form) EXCEPT !.flash = "ok"])

VerifyAnswered(i) ==
  /\ Sends(i, "verify")
  /\ \/ /\ account.state = "unconfirmed" /\ account' = [account EXCEPT !.state = "confirmed"]
        /\ Redirects(i)
     \/ /\ Stay(i, Idle, Failed("submit", "refused", form))
        /\ account' \in {account, [account EXCEPT !.state = IF @ = "unconfirmed" THEN "confirmed" ELSE @]}
  /\ UNCHANGED <<tokens, pending, cut>>

ResetAnswered(i) ==
  /\ Sends(i, "reset")
  /\ \/ account.state = "confirmed" /\ Redirects(i)
     \/ Stay(i, Idle, Failed("submit", "refused", form))
  /\ UNCHANGED <<cognito, cut>>

\* The timer of a page that was left fires as well.
Timer(i) == calls[i].at = "timer" /\ Navigate(i, "login") /\ UNCHANGED <<cognito, cut>>

Resend ==
  /\ On("verify-email", "resend") /\ ~form.cooling
  /\ Begin("resend", Call("resend", "send"), form) /\ UNCHANGED authError

ResendAnswered(i) ==
  /\ Sends(i, "resend")
  /\ \E ok \in BOOLEAN :
       Stay(i, Idle, IF ok THEN [Ready("resend", form) EXCEPT !.cooling = TRUE, !.flash = "ok"]
                     ELSE Failed("resend", "refused", form))
  /\ UNCHANGED <<cognito, cut>>

\* The last of the thirty seconds.
Cooled ==
  /\ form.cooling /\ form' = [form EXCEPT !.cooling = FALSE]
  /\ UNCHANGED <<cognito, provider, page, calls, cut>>

Forgot == On("forgot-password", "submit") /\ Begin("submit", Call("forgot", "send"), form) /\ UNCHANGED authError

\* Whatever Cognito answers.
ForgotAnswered(i) ==
  Sends(i, "forgot") /\ Navigate(i, "reset-password") /\ UNCHANGED <<cognito, cut>>

----------------------------------------------------------------------------
(* MfaSetupPage.                                                           *)

\* What startSetup does at once.
CleanSetup(f) == [f EXCEPT !.error = "none", !.secret = "none", !.overlap = @ \/ SetupsUnderWay(calls)]

\* "Restart setup" and "Try again" call startSetup, which may be under way already.
Restart ==
  /\ screen = "setup" /\ ~form.done /\ "submit" \notin form.busy /\ Free # {}
  /\ calls' = [calls EXCEPT ![CHOOSE j \in Free : TRUE] = Call("setup", "send")]
  /\ form' = CleanSetup(form)
  /\ UNCHANGED <<cognito, provider, page, cut>>

\* Cognito makes a new secret, and the one before is worth nothing.
Replaced(saw) == IF saw = "latest" THEN "replaced" ELSE saw
SetUpTotp(i) ==
  /\ Sends(i, "setup") /\ tokens
  /\ calls' = [j \in Calls |-> IF j = i THEN [calls[i] EXCEPT !.at = "reply", !.saw = "latest"]
                               ELSE [calls[j] EXCEPT !.saw = Replaced(@)]]
  /\ form' = [form EXCEPT !.secret = Replaced(@)]
  /\ UNCHANGED <<cognito, provider, page, cut>>

SetUpFails(i) ==
  /\ Sends(i, "setup") /\ Stay(i, Idle, [form EXCEPT !.error = "refused"])
  /\ UNCHANGED <<cognito, cut>>

SetUpAnswered(i) ==
  /\ calls[i].op = "setup" /\ calls[i].at = "reply"
  /\ \E lost \in BOOLEAN :
       Stay(i, Idle, IF lost THEN [form EXCEPT !.error = "refused"]
                     ELSE [form EXCEPT !.secret = calls[i].saw])
  /\ UNCHANGED <<cognito, cut>>

\* The code is from the secret on the screen.
Activate ==
  /\ On("setup", "submit") /\ ~form.done /\ form.secret # "none"
  /\ Begin("submit", [Call("activate", "send") EXCEPT !.saw = form.secret],
           [form EXCEPT !.flash = "none"])
  /\ UNCHANGED authError

VerifyTotp(i) ==
  /\ Sends(i, "activate")
  /\ \/ tokens /\ calls[i].saw = "latest" /\ Stay(i, [calls[i] EXCEPT !.at = "prefer"], form)
     \/ Stay(i, Idle, Failed("submit", "refused", form))
  /\ UNCHANGED <<cognito, cut>>

\* A refresh of the screen that has read what it is about to show.
Refreshes == {"refresh", "save", "email", "disable"}
Reading == \E j \in Calls : calls[j].op \in Refreshes /\ calls[j].at = "read" /\ ~calls[j].left

\* A change of the preference lands.  A screen of after its own is not told.
Prefer(i, totp, c, f) ==
  /\ account' = [account EXCEPT !.totp = totp]
  /\ calls' = [calls EXCEPT ![i] = c]
  /\ form' = [(IF calls[i].left THEN form ELSE f) EXCEPT
                !.crossed = @ \/ calls[i].left, !.mixed = @ \/ Reading]
  /\ UNCHANGED <<page, provider, tokens, pending, cut>>

\* Seeded mistake: the screen is done with the code, before the preference is set.
ActivatedEarly(i) ==
  /\ calls[i].op = "activate" /\ calls[i].at = "prefer"
  /\ \/ tokens /\ Prefer(i, TRUE, Idle, [Ready("submit", form) EXCEPT !.done = TRUE, !.secret = "none"])
     \/ Stay(i, Idle, [Ready("submit", form) EXCEPT !.done = TRUE, !.secret = "none"]) /\ UNCHANGED <<cognito, cut>>

\* updateMFAPreference is done, done and its answer lost, or not done.
Activated(i) ==
  /\ calls[i].op = "activate" /\ calls[i].at = "prefer"
  /\ \/ tokens /\ Prefer(i, TRUE, Idle, [Ready("submit", form) EXCEPT !.done = TRUE, !.secret = "none"])
     \/ tokens /\ Prefer(i, TRUE, Idle, Failed("submit", "refused", form))
     \/ Stay(i, Idle, Failed("submit", "refused", form)) /\ UNCHANGED <<cognito, cut>>

----------------------------------------------------------------------------
(* ProfilePage.                                                            *)

OnProfile(k) == On("profile", k) /\ ~form.loading

Edit ==
  /\ OnProfile("") /\ ~form.code /\ ~form.edited
  /\ form' = [form EXCEPT !.edited = TRUE]
  /\ UNCHANGED <<cognito, provider, page, calls, cut>>

Save == OnProfile("save") /\ ~form.code /\ Begin("save", Call("save", "send"), form) /\ UNCHANGED authError

VerifyNew == OnProfile("save") /\ form.code /\ Begin("save", Call("email", "send"), form) /\ UNCHANGED authError

CancelNew ==
  /\ OnProfile("save") /\ form.code /\ form' = [form EXCEPT !.code = FALSE]
  /\ UNCHANGED <<cognito, provider, page, calls, cut>>

\* A confirmation that differs is an error at once.
ChangePassword ==
  /\ OnProfile("password")
  /\ \/ Begin("password", Call("password", "send"), form) /\ UNCHANGED authError
     \/ /\ form' = [form EXCEPT !.error = "refused"]
        /\ UNCHANGED <<cognito, provider, page, calls, cut>>

Ask ==
  /\ OnProfile("mfa") /\ \E ask \in {form.mfa, FALSE} : ask # form.ask /\ form' = [form EXCEPT !.ask = ask]
  /\ UNCHANGED <<cognito, provider, page, calls, cut>>

Disable ==
  /\ OnProfile("mfa") /\ form.ask /\ Begin("mfa", Call("disable", "send"), form) /\ UNCHANGED authError

\* What updateUserAttributes can say.
UpdateResults == {"error"} \cup IF tokens THEN {"stored", "code"} ELSE {}

\* The attributes are stored, or the new address waits for its code, and nothing is
\* read back.
Saved(i) ==
  /\ Sends(i, "save")
  /\ \E result \in UpdateResults :
       Stay(i, IF result = "stored" THEN [calls[i] EXCEPT !.at = "fetch"] ELSE Idle,
            CASE result = "stored" -> [form EXCEPT !.flash = "ok"]
              [] result = "code" -> [Ready("save", form) EXCEPT !.code = TRUE, !.flash = "ok"]
              [] OTHER -> Failed("save", "refused", form))
  /\ UNCHANGED <<cognito, cut>>

EmailVerified(i) ==
  /\ Sends(i, "email")
  /\ \/ tokens /\ Stay(i, [calls[i] EXCEPT !.at = "fetch"], [form EXCEPT !.code = FALSE, !.flash = "ok"])
     \/ Stay(i, Idle, Failed("save", "refused", form))
  /\ UNCHANGED <<cognito, cut>>

PasswordChanged(i) ==
  /\ Sends(i, "password")
  /\ \/ tokens /\ Stay(i, Idle, [Ready("password", form) EXCEPT !.flash = "ok"])
     \/ Stay(i, Idle, Failed("password", "refused", form))
  /\ UNCHANGED <<cognito, cut>>

\* As Activated, with a refresh to follow.
Disabled(i) ==
  /\ Sends(i, "disable")
  /\ \/ tokens /\ Prefer(i, FALSE, [calls[i] EXCEPT !.at = "fetch"], [form EXCEPT !.ask = FALSE])
     \/ tokens /\ Prefer(i, FALSE, Idle, [Failed("mfa", "refused", form) EXCEPT !.mixed = TRUE])
     \/ Stay(i, Idle, Failed("mfa", "refused", form)) /\ UNCHANGED <<cognito, cut>>

\* What fetchMFAPreference can say.
Preference == {"error"} \cup IF tokens THEN {IF account.totp THEN "on" ELSE "off"} ELSE {}

\* refresh reads the preference and the attributes, or fails.
Fetch(i) ==
  /\ calls[i].op \in Refreshes /\ calls[i].at = "fetch"
  /\ \E saw \in Preference :
       calls' = [calls EXCEPT ![i].at = "read", ![i].saw = saw]
  /\ UNCHANGED <<cognito, provider, page, form, cut>>

\* What refresh does to the screen: a failure is only an error to it.
Refreshed(saw, f) ==
  IF saw = "error" THEN [f EXCEPT !.loading = FALSE, !.error = "refused", !.mixed = TRUE]
  ELSE [f EXCEPT !.loading = FALSE, !.error = "none", !.mfa = saw = "on", !.edited = FALSE]

\* The rest of the handler that called it.
AfterRefresh(op, f) ==
  CASE op = "refresh" -> f
    [] op \in {"save", "email"} -> Ready("save", f)
    [] op = "disable" -> [Ready("mfa", f) EXCEPT !.flash = "disabled"]

Refresh(i) ==
  /\ calls[i].op \in Refreshes /\ calls[i].at = "read"
  /\ Stay(i, Idle, AfterRefresh(calls[i].op, Refreshed(calls[i].saw, form)))
  /\ UNCHANGED <<cognito, cut>>

----------------------------------------------------------------------------
Customer ==
  \/ \E p \in Pages : Go(p) \/ Reload(p)
  \/ SignIn \/ Challenge \/ Cancel \/ Leaves
  \/ SignUp \/ Verify \/ Reset \/ Resend \/ Forgot
  \/ Restart \/ Activate
  \/ Edit \/ Save \/ VerifyNew \/ CancelNew \/ ChangePassword \/ Ask \/ Disable

\* A handler goes on.
Step(i) ==
  /\ calls[i].op # "none"
  /\ \/ ProviderStep(i) \/ Confirm(i)
     \/ SignUpAnswered(i) \/ VerifyAnswered(i) \/ ResetAnswered(i) \/ Timer(i)
     \/ ResendAnswered(i) \/ ForgotAnswered(i)
     \/ SetUpTotp(i) \/ SetUpFails(i) \/ SetUpAnswered(i) \/ VerifyTotp(i) \/ Activated(i)
     \/ Saved(i) \/ EmailVerified(i) \/ PasswordChanged(i) \/ Disabled(i) \/ Fetch(i) \/ Refresh(i)

Next == Customer \/ Cooled \/ \E i \in Calls : Step(i)

\* Cognito answers or fails, and a timer fires; nothing makes a customer act.
Fairness == \A i \in Calls : WF_vars(Step(i))

Spec == Init /\ [][Next]_vars /\ Fairness

----------------------------------------------------------------------------
FormType ==
  [busy : SUBSET {"submit", "resend", "save", "password", "mfa"},
   error : {"none", "refused", "already"},
   flash : {"none", "ok", "disabled"},
   loading : BOOLEAN, mfa : BOOLEAN, ask : BOOLEAN, code : BOOLEAN, edited : BOOLEAN,
   secret : {"none", "latest", "replaced"}, done : BOOLEAN, cooling : BOOLEAN,
   offer : BOOLEAN, crossed : BOOLEAN, mixed : BOOLEAN, overlap : BOOLEAN]

Ops == {"none", "hydrate", "signIn", "confirm", "removeUser", "signOut", "signUp", "verify",
        "reset", "resend", "forgot", "setup", "activate", "password"} \cup Refreshes
Stages == {"idle", "attempt", "clear", "again", "send", "fetch", "read", "reply", "prefer", "timer"}
CallType ==
  [op : Ops, at : Stages, left : BOOLEAN, alone : BOOLEAN,
   saw : {"none", "session", "error", "latest", "replaced", "on", "off"}]

TypeOK ==
  /\ account \in AccountType
  /\ tokens \in BOOLEAN /\ user \in BOOLEAN /\ authError \in BOOLEAN /\ cut \in BOOLEAN
  /\ pending \in {"none", "challenge_totp"}
  /\ status \in Statuses /\ page \in Pages
  /\ form \in FormType
  /\ calls \in [Calls -> CallType]

\* A screen of a signed-in customer has a user to ask with and no error to show (so that
\* ProtectedRoute's "Auth session error" is never seen), and Amplify still has the
\* session, unless a sign-out overtook what the screen is or was made from.
SessionIsReal ==
  status = "authenticated" => user /\ ~authError /\ (tokens \/ cut)

\* A session left in storage does not keep a customer out: a sign-in with no other one
\* under way is not refused because of it.
NotStranded ==
  [][\A i \in Calls :
       calls[i].op = "signIn" /\ calls[i].alone /\ form.error # "already" =>
         form'.error # "already"]_vars

\* The key of the handler on its screen.
Key(c) ==
  CASE c.op \in {"save", "email"} -> "save"
    [] c.op = "disable" -> "mfa"
    [] c.op \in {"password", "resend"} -> c.op
    [] OTHER -> "submit"
OfScreen(k) ==
  {i \in Calls : /\ calls[i].op \notin Ours \cup {"refresh", "setup"}
                 /\ ~calls[i].left /\ calls[i].at # "timer" /\ Key(calls[i]) = k}

\* A button is off exactly while one handler of its own, begun on this screen, is under
\* way.
BusyIsInFlight ==
  \A k \in {"submit", "resend", "save", "password", "mfa"} :
    Cardinality(OfScreen(k)) = IF k \in form.busy THEN 1 ELSE 0

\* "Your account is now protected", "authentication is now disabled": so it is, unless
\* a handler of a screen that was left changed it since.
MfaSaidIsTrue ==
  /\ form.done => account.totp \/ form.crossed
  /\ form.flash = "disabled" => ~account.totp \/ form.crossed

\* The status on the profile is Cognito's once the page's own change is read back,
\* unless a refresh failed or was overtaken, or an earlier screen's handler changed it.
MfaShownIsCurrent ==
  screen = "profile" /\ ~form.loading /\ OfScreen("mfa") = {} =>
    form.mfa = account.totp \/ form.mixed \/ form.crossed

\* The secret on the screen is the one that Cognito waits to be verified, unless two
\* set-ups overlapped.
SecretIsLatest == form.secret = "replaced" => form.overlap

\* What every screen keeps: types; AuthContext's copy of the session is a real one; a
\* button that is off has its handler; the TOTP secret on the screen is the live one.
AccountInv == TypeOK /\ SessionIsReal /\ BusyIsInFlight /\ SecretIsLatest

\* What a screen says of the TOTP preference is so: after its own change, and on the
\* profile once that is read back.
MfaIsTrue == MfaSaidIsTrue /\ MfaShownIsCurrent

\* What the customer typed is replaced by a refresh that one of their own clicks
\* started, and by no other.
EditsKept ==
  [][form.edited /\ screen' = "profile" /\ ~form'.edited =>
       \E i \in Calls : calls[i].op \in {"save", "email", "disable"} /\ calls[i].at = "read"]_vars

\* A button comes back, or its screen is left.
ButtonsReturn ==
  \A k \in {"submit", "mfa"} : k \in form.busy ~> k \notin form.busy

\* "the UI cannot drift out of sync with the authoritative state": without an error on
\* it and with nothing under way, the profile shows what Cognito has.
MfaNeverDrifts ==
  screen = "profile" /\ ~form.loading /\ form.error = "none" /\ Free = Calls =>
    form.mfa = account.totp
=============================================================================
