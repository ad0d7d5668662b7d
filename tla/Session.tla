------------------------------ MODULE Session ------------------------------
(* Who is signed in: Cognito's account, the tokens that Amplify keeps in the *)
(* browser, AuthContext's own copy of them, and the routes of App that show  *)
(* one screen or another by that copy.  Every asynchronous handler is a call *)
(* that goes on when its screen is gone.  One tab, one account.              *)
EXTENDS Naturals, FiniteSets

CONSTANTS
  Calls,     \* bound: the calls that may be under way at once
  Typed,     \* bound: the paths a customer reloads or types in
  Accounts   \* the accounts a behaviour may start with

VARIABLES
  account,    \* Cognito (external): the account's state, preference and group
  tokens,     \* Amplify: a session is stored
  pending,    \* Amplify, in memory: the challenge a sign-in waits on
  status,     \* AuthContext: status, and whether user and error are set
  user, authError,
  page,       \* the path of the URL
  form,       \* the state of the component on the screen
  calls,      \* the handlers under way
  cut         \* history: a sign-out took the session that a screen shows or a read saw

cognito == <<account, tokens, pending>>
provider == <<status, user, authError>>
vars == <<cognito, provider, page, form, calls, cut>>

AccountType ==
  [state : {"none", "unconfirmed", "confirmed"}, totp : BOOLEAN, admin : BOOLEAN]

ASSUME SessionAssumption ==
  Calls # {} /\ IsFiniteSet(Calls) /\ Accounts \subseteq AccountType

Public == {"landing", "login", "signup", "verify-email", "forgot-password",
           "reset-password", "mfa", "setup", "callback"}
\* "products" stands for every page of a customer, "admin" for every page of the admin.
Pages == Public \cup {"products", "admin", "profile"}

ASSUME TypedAssumption == Typed \subseteq Pages

Statuses == {"loading", "unauthenticated", "authenticated", "challenge_totp",
             "challenge_totp_setup", "challenge_other"}

\* What App shows for a path.
Shown(p, s, admin) ==
  CASE s = "loading" -> "spinner"
    [] s # "loading" /\ s # "authenticated" -> IF p \in Public THEN p ELSE "login"
    [] s = "authenticated" /\ p = "mfa" -> "notfound"
    [] s = "authenticated" /\ p = "admin" /\ ~admin -> "restricted"
    [] OTHER -> p

screen == Shown(page, status, account.admin)

\* Seeded mistake: the profile's forms are there before it is loaded.
MountedAtOnce(scr) ==
  [busy |-> {}, error |-> "none", flash |-> "none", loading |-> FALSE,
   mfa |-> FALSE, ask |-> FALSE, code |-> FALSE, edited |-> FALSE, secret |-> "none",
   done |-> FALSE, cooling |-> FALSE, offer |-> FALSE,
   crossed |-> FALSE, mixed |-> FALSE, overlap |-> FALSE]

\* The state a component mounts with.  "crossed", "mixed" and "overlap" are history:
\* a preference was changed for a page that was left; a refresh failed or was
\* overtaken by a change; two set-ups were under way at once.
Mounted(scr) ==
  [busy |-> {}, error |-> "none", flash |-> "none", loading |-> scr = "profile",
   mfa |-> FALSE, ask |-> FALSE, code |-> FALSE, edited |-> FALSE, secret |-> "none",
   done |-> FALSE, cooling |-> FALSE, offer |-> FALSE,
   crossed |-> FALSE, mixed |-> FALSE, overlap |-> FALSE]

Idle == [op |-> "none", at |-> "idle", left |-> FALSE, saw |-> "none", alone |-> TRUE]
Call(op, at) == [Idle EXCEPT !.op = op, !.at = at]

Free == {i \in Calls : calls[i].op = "none"}
\* Handlers of the provider belong to no screen.
Ours == {"none", "hydrate", "signOut", "removeUser"}
Leave(c) == IF c.op \in Ours THEN c ELSE [c EXCEPT !.left = TRUE]

\* A setUpTOTP that is sent while another one is under way.
SetupsUnderWay(cs) == \E i \in Calls : cs[i].op = "setup"

\* The effect of a component that mounts: ProfilePage loads, MfaSetupPage starts.
MountCall(scr) ==
  CASE scr = "profile" -> Call("refresh", "fetch")
    [] scr = "setup" -> Call("setup", "send")
    [] OTHER -> Idle

\* App has one tree of routes for who is signed in and one for who is not; a screen
\* that is in both mounts anew when one takes the place of the other.
SameTree(s) == (s = "authenticated") = (status = "authenticated")

\* The outcome of a step for the browser: path p and status s.  While the screen
\* stays, its state is f; another screen mounts anew, in the slot i if it loads
\* something, and the handlers of the old one go on.  CallbackPage's effect sends a
\* customer who is signed in to the products.
Render(p, s, f, cs, i) ==
  LET at == IF p = "callback" /\ s = "authenticated" THEN "products" ELSE p
      next == Shown(at, s, account.admin)
      gone == [j \in Calls |-> Leave(cs[j])] IN
  /\ page' = at /\ status' = s
  /\ IF next = screen /\ SameTree(s) THEN form' = f /\ calls' = cs
     ELSE /\ form' = [Mounted(next) EXCEPT !.overlap = next = "setup" /\ SetupsUnderWay(cs)]
          /\ calls' = IF gone[i].op = "none" THEN [gone EXCEPT ![i] = MountCall(next)] ELSE gone

\* A step of handler i that leaves the provider and the path alone; its screen's
\* state becomes f, if the screen is still there.
Stay(i, c, f) ==
  /\ calls' = [calls EXCEPT ![i] = c]
  /\ form' = IF calls[i].left THEN form ELSE f
  /\ UNCHANGED <<page, provider>>

Busy(k, f) == [f EXCEPT !.busy = @ \cup {k}, !.error = "none", !.flash = "none"]
Ready(k, f) == [f EXCEPT !.busy = @ \ {k}]
\* Seeded mistake: a failure does not reset busy.
FailedBusy(k, e, f) == [f EXCEPT !.error = e]
Failed(k, e, f) == [f EXCEPT !.busy = @ \ {k}, !.error = e]

----------------------------------------------------------------------------
\* A page load: the provider starts from nothing and hydrates.  What Amplify keeps in
\* memory is gone, and so is every handler.
Load(p) ==
  LET i == CHOOSE j \in Calls : TRUE IN
  /\ page' = p /\ status' = "loading" /\ user' = FALSE /\ authError' = FALSE
  /\ pending' = "none" /\ cut' = FALSE
  /\ form' = Mounted("spinner")
  /\ calls' = [[j \in Calls |-> Idle] EXCEPT ![i] = Call("hydrate", "fetch")]

Init ==
  /\ account \in Accounts
  /\ tokens \in {FALSE, account.state = "confirmed"}
  /\ pending = "none"
  /\ page \in Pages /\ status = "loading" /\ user = FALSE /\ authError = FALSE
  /\ form = Mounted("spinner")
  /\ calls = [[j \in Calls |-> Idle] EXCEPT ![CHOOSE j \in Calls : TRUE] = Call("hydrate", "fetch")]
  /\ cut = FALSE

Reload(p) == p \in Typed /\ Load(p) /\ UNCHANGED <<account, tokens>>

----------------------------------------------------------------------------
(* The provider.                                                           *)

\* fetchAuthSession reads the stored session, refreshing it; it may fail.
FetchSession(i) ==
  /\ calls[i].at = "fetch" /\ calls[i].op \in {"hydrate", "signIn", "confirm"}
  /\ \E saw \in {IF tokens THEN "session" ELSE "none", "error"} :
       calls' = [calls EXCEPT ![i].at = "read", ![i].saw = saw]
  /\ UNCHANGED <<cognito, provider, page, form, cut>>

\* Where a handler goes when its session is there: signIn and MfaChallengePage leave
\* for the products, whatever the session turned out to be.
AfterHydrate(op) == IF op = "hydrate" THEN page ELSE "products"

\* Seeded mistake: a failed read leaves the copy as it was.
HydrateKeeps(i) ==
  /\ calls[i].at = "read" /\ calls[i].op \in {"hydrate", "signIn", "confirm"}
  /\ LET in == calls[i].saw = "session" IN
     /\ user' = (in \/ user)
     /\ authError' = (calls[i].saw = "error" \/ (~in /\ authError))
     /\ Render(AfterHydrate(calls[i].op), IF in \/ user THEN "authenticated" ELSE "unauthenticated",
               IF calls[i].left THEN form ELSE Ready("submit", form),
               [calls EXCEPT ![i] = Idle], i)
  /\ cut' = (cut /\ ~tokens)
  /\ UNCHANGED cognito

\* The rest of hydrateFromSession, and of the handler that called it.
Hydrate(i) ==
  /\ calls[i].at = "read" /\ calls[i].op \in {"hydrate", "signIn", "confirm"}
  /\ LET in == calls[i].saw = "session" IN
     /\ user' = in
     /\ authError' = (calls[i].saw = "error" \/ (~in /\ authError))
     /\ Render(AfterHydrate(calls[i].op), IF in THEN "authenticated" ELSE "unauthenticated",
               IF calls[i].left THEN form ELSE Ready("submit", form),
               [calls EXCEPT ![i] = Idle], i)
  /\ cut' = (cut /\ ~tokens)
  /\ UNCHANGED cognito

\* What Cognito answers to a sign-in (external).  Amplify refuses while it has a session.
Attempts ==
  IF tokens THEN {"already"}
  ELSE {"refused"} \cup
       CASE account.state = "none" -> {}
         [] account.state = "unconfirmed" -> {"unconfirmed"}
         [] account.state = "confirmed" ->
              IF account.totp THEN {"challenge_totp"}
              ELSE {"signedIn", "challenge_totp_setup", "challenge_other", "unknown"}

\* The screen that a challenge is met on.
ChallengePage(result) ==
  CASE result = "challenge_totp" -> "mfa"
    [] result = "challenge_totp_setup" -> "setup"
    [] OTHER -> page

SignedIn(i) ==
  /\ tokens' = TRUE /\ pending' = "none"
  /\ Stay(i, [calls[i] EXCEPT !.at = "fetch"], form)

\* A challenge becomes the status, but for one that signIn does not know.  The screen
\* that stays tells the customer what cannot be done here.
Challenged(i, result) ==
  LET known == result # "unknown" IN
  /\ tokens' = FALSE /\ pending' = IF result = "challenge_totp" THEN result ELSE "none"
  /\ user' = user /\ authError' = ~known
  /\ Render(ChallengePage(result), IF known THEN result ELSE "unauthenticated",
            IF calls[i].left THEN form ELSE Failed("submit", "refused", form),
            [calls EXCEPT ![i] = Idle], i)

\* SignInPage's catch: an unconfirmed account is offered its verification.
Refused(i, result) ==
  /\ tokens' = tokens /\ pending' = "none"
  /\ Stay(i, Idle, [Failed("submit", IF result = "already" THEN result ELSE "refused", form)
                    EXCEPT !.offer = result = "unconfirmed"])

Result(i, result) ==
  CASE result = "signedIn" -> SignedIn(i)
    [] result \in {"already", "refused", "unconfirmed"} -> Refused(i, result)
    [] OTHER -> Challenged(i, result)

\* Seeded mistake: the stale session is left where it is.
AttemptStale(i) ==
  /\ calls[i].op = "signIn" /\ calls[i].at \in {"attempt", "again"}
  /\ \E result \in Attempts :
       IF result = "already" /\ calls[i].at = "attempt"
       THEN Stay(i, [calls[i] EXCEPT !.at = "again"], form) /\ UNCHANGED <<tokens, pending>>
       ELSE Result(i, result)
  /\ UNCHANGED <<account, cut>>

\* signIn's attempt.  A stale session is cleared and the attempt repeated, once.
Attempt(i) ==
  /\ calls[i].op = "signIn" /\ calls[i].at \in {"attempt", "again"}
  /\ \E result \in Attempts :
       IF result = "already" /\ calls[i].at = "attempt"
       THEN Stay(i, [calls[i] EXCEPT !.at = "clear"], form) /\ UNCHANGED <<tokens, pending>>
       ELSE Result(i, result)
  /\ UNCHANGED <<account, cut>>

\* A session that is gone is still shown, or about to be.
Cuts == status = "authenticated" \/ \E j \in Calls : calls[j].at = "read" /\ calls[j].saw = "session"

\* Amplify's signOut in between; the provider is not told.
ClearStale(i) ==
  /\ calls[i].op = "signIn" /\ calls[i].at = "clear"
  /\ tokens' = FALSE /\ pending' = "none"
  /\ cut' = (cut \/ Cuts)
  /\ Stay(i, [calls[i] EXCEPT !.at = "again"], form)
  /\ UNCHANGED account

\* removeUser, behind MfaChallengePage's link.
RemoveUser(i) ==
  /\ calls[i].op = "removeUser" /\ tokens' = FALSE /\ pending' = "none"
  /\ user' = FALSE /\ authError' = FALSE /\ cut' = (cut \/ Cuts)
  /\ Render(page, "unauthenticated", form, [calls EXCEPT ![i] = Idle], i)
  /\ UNCHANGED account

\* App's signOut: removeUser, then the browser leaves for Cognito's logout URL and
\* comes back to the landing page.
SignOut(i) ==
  /\ calls[i].op = "signOut" /\ tokens' = FALSE
  /\ Load("landing") /\ UNCHANGED account

ProviderStep(i) ==
  \/ FetchSession(i) \/ Hydrate(i) \/ Attempt(i) \/ ClearStale(i)
  \/ RemoveUser(i) \/ SignOut(i)
=============================================================================
