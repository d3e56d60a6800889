----------------------------- MODULE SignInFlow -----------------------------
(***************************************************************************)
(* Signing in and signing up: the first screen, the sign-in, sign-up and   *)
(* force_auth forms, the screens a sign in may pass through (permissions,  *)
(* unblocking, second factors, choosing what to sync, confirmation), and   *)
(* what the broker of the context does at the end.                         *)
(*                                                                         *)
(* Each behaviour is one scenario: the context, what the relier asks for   *)
(* and what accounts there are.  A form that is submitted is a call that   *)
(* asks the browser, then the server; the user may leave the screen, and   *)
(* submit another form, before the answer comes.                           *)
(***************************************************************************)
EXTENDS Brokers, FiniteSets

CONSTANTS
    Scenarios,  \* the scenarios that are explored, see ScenarioType
    Slots,      \* calls that may be under way at the same time
    MaxSubmits  \* forms the user submits

ASSUME SignInFlowAssumption == MaxSubmits \in Nat

VARIABLES
    scenario,   \* the scenario of this behaviour
    relier,     \* the e-mail and uid the relier has
    server,     \* the auth server: its accounts and sessions
    user,       \* the stored accounts, the signed-in one, the cookie
    broker,     \* the broker, as in Brokers
    view,       \* the screen that is shown
    prefill,    \* the e-mail kept for the next form
    flow,       \* _isEmailFirstFlow of the router
    calls,      \* the submitted forms
    submits,    \* forms submitted so far
    asked       \* the e-mails the browser was asked about: its user agreed, or it failed

vars == <<scenario, relier, server, user, broker, view, prefill, flow, calls, submits, asked>>

Emails == {"a", "A", "b"}      \* "A" is "a" in another case

Uids == {"a", "b"}

\* What becomes of the question whether an account may be linked.
Answers == {"agreed", "refused", "failed"}

\* Screens below the settings look at the session before they are shown.
SettingsPages == {"settings", "avatar", "recovery_codes"}

\* What an account is like, for the server.
Kinds == {"plain", "missing", "unverified", "suspicious", "totp", "locked", "blocked", "throttled", "bounced"}

BrowserType == [modern : BOOLEAN, aboutAccounts : BOOLEAN, fxaStatus : {"none", "unsupported", "supported"},
                pairing : BOOLEAN, halt : BOOLEAN]

\* The context and its browser, which answers CAN_LINK (asks) or does not; what
\* the relier asks for and names; the page that is opened, what is stored, what
\* accounts there are, and what the user types.
ScenarioType ==
    [context : Contexts, browser : BrowserType, asks : BOOLEAN,
     keys : BOOLEAN, twoStep : BOOLEAN, permissions : BOOLEAN, emailFirst : BOOLEAN,
     action : {"none", "email", "signin", "signup", "force_auth"},
     tokenCode : {"none", "treatment-code", "treatment-link"},
     email : Emails \cup {"none"}, uid : Uids \cup {"none", "stale"},
     page : {"index", "oauth_index", "signin", "signup", "force_auth"}, redirectTo : {"none"} \cup SettingsPages,
     cached : {"none", "live", "dead"}, accounts : [Uids -> Kinds],
     typed : SUBSET Emails, passwords : SUBSET {"right", "wrong"}]

\* The reliers of Sync want keys; force_auth is refused without an e-mail.
ASSUME ScenariosAssumption ==
    \A sc \in Scenarios :
        /\ sc \in ScenarioType
        /\ sc.context \in SyncContexts => sc.keys
        /\ "force_auth" \in {sc.page, sc.action} => sc.email # "none"

UidOf(email) == IF email = "A" THEN "a" ELSE email

(***************************************************************************)
(* Accounts as the client holds them, and what is stored of them.          *)
(***************************************************************************)
InitAccount(email) ==
    [email |-> email, uid |-> "none", session |-> 0, sync |-> FALSE, keys |-> FALSE,
     verified |-> FALSE, method |-> "none", reason |-> "none", orig |-> "none"]

NoAccount == InitAccount("none")

Stored(u, email) ==
    LET found == {x \in Uids : u.stored[x].email = email}
    IN  IF found = {} THEN InitAccount(email) ELSE u.stored[CHOOSE x \in found : TRUE]

RemoveAccount(u, uid) ==
    [u EXCEPT !.stored = [x \in Uids |-> IF x = uid THEN NoAccount ELSE @[x]],
              !.signedIn = IF @.uid = uid THEN NoAccount ELSE @]

RemoveAllAccounts(u) ==
    [u EXCEPT !.stored = [x \in Uids |-> NoAccount], !.signedIn = NoAccount]

\* The keys are not stored; a field the server did not give keeps its value.
SignInAccount(u, account) ==
    LET old    == u.stored[account.uid]
        merged == [account EXCEPT !.method = IF @ = "none" THEN old.method ELSE @,
                                  !.reason = IF @ = "none" THEN old.reason ELSE @]
    IN  [u EXCEPT !.stored[account.uid] = [merged EXCEPT !.keys = FALSE], !.signedIn = merged]

GetChooserAccount ==
    LET sync == {x \in Uids : user.stored[x].sync /\ user.stored[x].session # 0}
    IN  IF sync # {} THEN user.stored[CHOOSE x \in sync : TRUE]
        ELSE IF user.signedIn.session # 0 THEN user.signedIn ELSE NoAccount

(***************************************************************************)
(* Which form asks for a password (cached-credentials-mixin).              *)
(***************************************************************************)
GetPrefillEmail == IF prefill # "none" THEN prefill ELSE relier.email

AllowSuggestedAccount(account) ==
    account.email # "none" /\ GetPrefillEmail \in {"none", account.email}

SuggestedAccount ==
    IF AllowSuggestedAccount(GetChooserAccount) THEN GetChooserAccount ELSE NoAccount

IsPasswordNeededForAccount(account) ==
    \/ account.email = "none"
    \/ scenario.keys
    \/ ~account.sync
    \/ view.ask
    \/ GetPrefillEmail \notin {"none", account.email}

(***************************************************************************)
(* Screens.  done: a broker method ended the flow here.  complete: the     *)
(* broker method that follows, for a screen in the middle of a flow.       *)
(***************************************************************************)
NewView(page, account) ==
    [page |-> page, account |-> account, shown |-> FALSE, ask |-> FALSE, from |-> "none",
     complete |-> "none", error |-> "none", password |-> "none", redirectTo |-> "none", done |-> FALSE]

NoCall ==
    [op |-> "none", step |-> "none", account |-> NoAccount, password |-> "none", unblock |-> "none",
     age |-> "none", page |-> "none", from |-> "none", complete |-> "none", redirectTo |-> "none", here |-> FALSE]

Free(s) == calls[s] = NoCall

\* Whatever is under way from a screen goes on when the screen is left.
Left(cs) == [s \in Slots |-> [cs[s] EXCEPT !.here = FALSE]]

Over(s) == [calls EXCEPT ![s] = NoCall]

\* The routes of the flow: signin and signup are other views once the flow
\* began with the e-mail.
RouteOf(page) ==
    CASE flow /\ page = "signin" -> "signin_password"
      [] flow /\ page = "signup" -> "signup_password"
      [] page = "index" /\ broker.context \in OAuthContexts -> "oauth_index"
      [] OTHER -> page

Go(v, cs) == view' = [v EXCEPT !.page = RouteOf(@)] /\ calls' = Left(cs)

Who(account) ==
    [signedIn |-> user'.signedIn.session # 0, redirectTo |-> view.redirectTo,
     another |-> user'.signedIn.uid \notin {"none", account.uid}]

Unfinished == {"confirm", "signin", "signin_totp_code"} \cup SettingsPages

\* invokeBehavior: the screen the behavior leads to.
GoBehavior(behavior, account, cs) ==
    \E page \in {Destination(behavior, broker'.caps, Who(account), view.page)} :
        IF page = view.page
        THEN UNCHANGED view /\ calls' = cs
        ELSE Go([NewView(page, account) EXCEPT !.done = page \notin Unfinished, !.complete = "end"], cs)

(***************************************************************************)
(* The broker at the end of a flow.  A broker of an OAuth relier first     *)
(* gets a code for it, which is a call of its own; on Chrome for Android   *)
(* the user is asked to continue before that.                              *)
(***************************************************************************)
Invoke(b, name, account) ==
    CASE name = "afterSignIn"                  -> AfterSignIn(b, account)
      [] name = "afterForceAuth"               -> AfterForceAuth(b, account)
      [] name = "afterSignUp"                  -> AfterSignUp(b, account)
      [] name = "afterCompleteSignInWithCode"  -> AfterCompleteSignInWithCode(b, account)
      [] name = "afterSignInConfirmationPoll"  -> AfterSignInConfirmationPoll(b, account)
      [] OTHER                                 -> AfterSignUpConfirmationPoll(b, account)

Polls == {"afterSignInConfirmationPoll", "afterSignUpConfirmationPoll"}

OAuthMethod(name, account) ==
    IF name = "afterSignUp" /\ account.verified THEN "afterSignUpConfirmationPoll" ELSE name

AfterSignUpRequireTotp(name) == name = "afterSignUpConfirmationPoll" /\ scenario.twoStep

ContinueOnAndroid(name) == broker.context = "oauth_chrome_android" /\ name \in Polls

ReadyPage(name) == IF name = "afterSignInConfirmationPoll" THEN "signin_confirmed" ELSE "signup_confirmed"

InvokeOAuth(s, b, name, account) ==
    /\ broker' = b
    /\ IF name = "afterSignUp" THEN GoBehavior(GetBehavior(b, "afterSignUp"), account, Over(s))
       ELSE IF ContinueOnAndroid(name)
            THEN Go([NewView(ReadyPage(name), account) EXCEPT !.complete = "finishOAuthFlow"], Over(s))
       ELSE IF AfterSignUpRequireTotp(name)
            THEN GoBehavior(GetBehavior(b, "afterSignUpRequireTOTP"), account, Over(s))
       ELSE     /\ calls' = [calls EXCEPT ![s].op = "finish", ![s].step = "request",
                                          ![s].account = account, ![s].complete = name]
                /\ UNCHANGED view

InvokeBrokerMethod(s, b, name, account) ==
    IF b.context \in OAuthContexts
    THEN InvokeOAuth(s, b, OAuthMethod(name, account), account)
    ELSE \E r \in {Invoke(b, name, account)} :
             broker' = r[1] /\ GoBehavior(r[2], account, Over(s))

(***************************************************************************)
(* The auth server: what it holds against a request, and the sessions it   *)
(* makes.  What an account is like decides: plain, totp, unverified,       *)
(* suspicious, locked, blocked, throttled, bounced or missing.             *)
(***************************************************************************)
Kind(email) == server.accounts[UidOf(email)]

Refusals(c, method) ==
    LET kind == Kind(c.account.email)
        case == c.account.email = "A"
    IN  IF kind = "missing" THEN {"UNKNOWN_ACCOUNT"}
        ELSE IF kind = "throttled" THEN {"THROTTLED"}
        ELSE IF kind = "blocked" /\ c.unblock = "none" THEN
                 {"REQUEST_BLOCKED"} \cup (IF case THEN {"INCORRECT_EMAIL_CASE"} ELSE {})
        ELSE IF kind = "blocked" /\ c.unblock = "wrong" THEN {"INVALID_UNBLOCK_CODE"}
        ELSE IF case THEN {"INCORRECT_EMAIL_CASE"}
        ELSE IF c.password = "wrong" THEN {"INCORRECT_PASSWORD"}
        ELSE IF kind = "locked" THEN {"ACCOUNT_RESET"}
        ELSE IF kind = "bounced" THEN {"EMAIL_HARD_BOUNCE"}
        ELSE IF method = "totp-2fa" /\ kind # "totp" THEN {"TOTP_REQUIRED"}
        ELSE {}

NewSession(uid, method) ==
    LET kind == server.accounts[uid]
    IN  [uid |-> uid, live |-> TRUE, verified |-> kind \notin {"totp", "unverified", "suspicious"},
         second |-> FALSE,
         method |-> CASE kind = "totp"       -> "totp-2fa"
                      [] kind = "unverified" -> IF method = "none" THEN "email" ELSE method
                      [] kind = "suspicious" -> IF method = "email-2fa" THEN method ELSE "email"
                      [] OTHER               -> "none",
         reason |-> CASE kind = "unverified"            -> "signup"
                      [] kind \in {"totp", "suspicious"} -> "login"
                      [] OTHER                           -> "none"]

VerifySession(i, second) == [server EXCEPT !.sessions[i].verified = TRUE, !.sessions[i].second = @ \/ second]

Live(i) == i # 0 /\ server.sessions[i].live

\* Mutant: the client takes every session for verified.
UpdatedSessionDataVerified(account, i, session) ==
    [account EXCEPT !.uid = session.uid, !.session = i, !.sync = scenario.context \in SyncContexts,
                    !.keys = scenario.keys \/ @, !.verified = TRUE,
                    !.method = session.method, !.reason = session.reason]

\* getUpdatedSessionData.
UpdatedSessionData(account, i, session) ==
    [account EXCEPT !.uid = session.uid, !.session = i, !.sync = scenario.context \in SyncContexts,
                    !.keys = scenario.keys \/ @, !.verified = session.verified,
                    !.method = session.method, !.reason = session.reason]

(***************************************************************************)
(* Where a behaviour begins: the page the relier opens, with perhaps an    *)
(* account signed in earlier, whose session may have ended since.          *)
(***************************************************************************)
CachedAccount ==
    [InitAccount("a") EXCEPT !.uid = "a", !.session = 1, !.sync = TRUE, !.verified = TRUE]

Init ==
    /\ scenario \in Scenarios
    /\ relier = [email |-> scenario.email, uid |-> scenario.uid]
    /\ server = [accounts |-> scenario.accounts,
                 sessions |-> IF scenario.cached = "none" THEN <<>>
                              ELSE <<[uid |-> "a", live |-> scenario.cached = "live", verified |-> TRUE,
                                      second |-> FALSE, method |-> "none", reason |-> "none"]>>]
    /\ LET account == IF scenario.cached = "none" THEN NoAccount ELSE CachedAccount
       IN  user = [stored |-> [x \in Uids |-> IF x = account.uid THEN account ELSE NoAccount],
                   signedIn |-> account, tooYoung |-> FALSE]
    /\ broker = NewBroker(scenario.context, scenario.browser)
    /\ view = [NewView(scenario.page, NoAccount) EXCEPT !.redirectTo = scenario.redirectTo]
    /\ prefill = "none"
    /\ flow = FALSE
    /\ calls = [s \in Slots |-> NoCall]
    /\ submits = 0
    /\ asked = {}

-----------------------------------------------------------------------------
(***************************************************************************)
(* Submitting: the browser is asked first.                                 *)
(***************************************************************************)
Asking == {"signIn", "cached", "signUp", "check"}

\* A session the context may not use again is dropped before the request.
Prepared(c) ==
    IF c.op \in {"signIn", "cached"} /\ ~HasCapability(broker, "reuseExistingSession")
        THEN [c EXCEPT !.account.session = 0]
        ELSE c

NewCall(op, account, password) ==
    [NoCall EXCEPT !.op = op, !.account = account, !.password = password, !.page = view.page,
                   !.from = view.from, !.here = TRUE, !.redirectTo = view.redirectTo,
                   !.complete = IF view.page = "force_auth" THEN "afterForceAuth" ELSE "afterSignIn"]

BrokerBeforeSignIn(c) ==
    IF c.op \in Asking /\ MustAsk(broker, c.account.email)
        THEN [c EXCEPT !.step = "ask"]
        ELSE [Prepared(c) EXCEPT !.step = "request"]

Start(s, c) == Free(s) /\ calls' = [calls EXCEPT ![s] = BrokerBeforeSignIn(c)]

Submit(s, c) ==
    /\ view.shown /\ submits < MaxSubmits
    /\ ~\E x \in Slots : calls[x].here     \* a form is not submitted twice
    /\ submits' = submits + 1
    /\ Start(s, c)
    /\ UNCHANGED <<scenario, relier, server, user, broker, view, flow, asked>>

\* The browser's user agrees or refuses; of a request that fails, as one to a
\* browser that does not know the command, nothing is kept, and the form goes on.
Answer(s, answer) ==
    LET c == calls[s]
    IN  /\ c.step = "ask" /\ (answer # "failed" => scenario.asks)
        /\ broker' = IF answer = "agreed" THEN BeforeSignIn(broker, c.account.email) ELSE broker
        /\ asked' = IF scenario.asks /\ answer # "refused" THEN asked \cup {<<c.account.email, answer>>} ELSE asked
        /\ calls' = [calls EXCEPT ![s] = IF answer # "refused" THEN [Prepared(c) EXCEPT !.step = "request"]
                                         ELSE IF c.op = "cached" THEN [c EXCEPT !.step = "failed"]
                                         ELSE NoCall]
        /\ UNCHANGED <<scenario, relier, server, user, view, prefill, flow, submits>>

\* submit of sign_in: an account whose e-mail was typed is used again.
SubmitSignIn(s) ==
    /\ view.page = "signin"
    /\ IF IsPasswordNeededForAccount(view.account)
       THEN \E email \in scenario.typed, password \in scenario.passwords :
              /\ Submit(s, NewCall("signIn", IF view.account.email # "none" /\ UidOf(view.account.email) = UidOf(email)
                                                 THEN view.account ELSE InitAccount(email), password))
              /\ prefill' = email
       ELSE Submit(s, NewCall("cached", view.account, "none")) /\ UNCHANGED prefill

SubmitSignInPassword(s) ==
    /\ view.page = "signin_password"
    /\ IF IsPasswordNeededForAccount(view.account)
       THEN \E password \in scenario.passwords : Submit(s, NewCall("signIn", view.account, password))
       ELSE Submit(s, NewCall("cached", view.account, "none"))
    /\ UNCHANGED prefill

SubmitForceAuth(s) ==
    /\ view.page = "force_auth"
    /\ \E password \in scenario.passwords : Submit(s, NewCall("signIn", InitAccount(relier.email), password))
    /\ UNCHANGED prefill

SubmitIndex(s) ==
    /\ view.page \in {"index", "oauth_index"}
    /\ \E email \in scenario.typed : Submit(s, NewCall("check", InitAccount(email), "none")) /\ prefill' = email

\* submit of sign_up: who is too young, or gave no age, may still sign in.
SubmitSignUp(s) ==
    /\ view.page = "signup"
    /\ \E email \in scenario.typed, age \in {"none", "young", "old"}, password \in scenario.passwords :
          /\ Submit(s, [NewCall(IF age = "old" THEN "signUp" ELSE "signIn", InitAccount(email), password)
                           EXCEPT !.age = age])
          /\ prefill' = email

SubmitSignUpPassword(s) ==
    /\ view.page = "signup_password"
    /\ Submit(s, [NewCall("signUp", view.account, "right") EXCEPT !.age = "old"])
    /\ UNCHANGED prefill

SubmitUnblock(s) ==
    /\ view.page = "signin_unblock"
    /\ \E code \in {"right", "wrong"} :
          Submit(s, [NewCall("signIn", view.account, view.password) EXCEPT !.unblock = code])
    /\ UNCHANGED prefill

SubmitCode(s) ==
    /\ view.page \in {"signin_token_code", "signin_totp_code", "signin_recovery_code"}
    /\ \E code \in {"right", "wrong", "last"} :
          /\ code = "last" => view.page = "signin_recovery_code"
          /\ Submit(s, NewCall("code", IF view.page = "signin_recovery_code" THEN user.signedIn
                                       ELSE view.account, code))
    /\ UNCHANGED prefill

-----------------------------------------------------------------------------
(***************************************************************************)
(* The answers to a sign in (account.signIn, signin-mixin).                *)
(***************************************************************************)
VerificationMethod ==
    IF scenario.twoStep THEN "totp-2fa"
    ELSE IF scenario.tokenCode = "treatment-code" THEN "email-2fa"
    ELSE IF scenario.tokenCode = "treatment-link" THEN "email"
    ELSE "none"

Requested(s, ops) == calls[s].step = "request" /\ calls[s].op \in ops

Display(c, error) == view' = IF c.here THEN [view EXCEPT !.error = error] ELSE view

\* Where a sign in that is not verified goes on.
ConfirmationPage(account) ==
    CASE account.reason = "login" /\ account.method = "email"     -> "confirm_signin"
      [] account.reason = "login" /\ account.method = "email-2fa" -> "signin_token_code"
      [] account.reason = "login" /\ account.method = "totp-2fa"  -> "signin_totp_code"
      [] OTHER                                                    -> "confirm"

\* The relier learns who signed in.
RelierOf(account) ==
    IF account.uid # relier.uid /\ HasCapability(broker, "allowUidChange") THEN
             [relier EXCEPT !.uid = account.uid]
    ELSE IF account.email # relier.email THEN [email |-> account.email, uid |-> account.uid]
    ELSE relier

\* A page to go back to replaces the behavior of the broker, for good.
RedirectTo(name, page) ==
    IF page = "none" THEN broker ELSE SetBehavior(broker, name, Navigate(page))

OnSignInSuccess(s, account, name, redirectTo) ==
    IF account.verified
    THEN /\ relier' = RelierOf(account)
         /\ InvokeBrokerMethod(s, RedirectTo(name, redirectTo), name, account)
    ELSE /\ Go(NewView(ConfirmationPage(account), account), Over(s))
         /\ UNCHANGED <<relier, broker>>

\* The account is stored; permissions are asked for before anything else.
SignedIn(s, account) ==
    LET c == calls[s]
    IN  \E u \in {SignInAccount(user, account)} :
        /\ user' = u
        /\ prefill' = "none"
        /\ IF scenario.permissions
           THEN /\ Go([NewView("signin_permissions", u.signedIn) EXCEPT
                           !.complete = c.complete, !.redirectTo = c.redirectTo], Over(s))
                /\ UNCHANGED <<relier, broker>>
           ELSE OnSignInSuccess(s, u.signedIn, c.complete, c.redirectTo)

SignInAccepted(s) ==
    LET c   == calls[s]
        new == NewSession(UidOf(c.account.email), VerificationMethod)
        i   == Len(server.sessions) + 1
    IN  /\ Requested(s, {"signIn"}) /\ c.account.session = 0
        /\ Refusals(c, VerificationMethod) = {}
        /\ server' = [server EXCEPT !.sessions = Append(@, new)]
        /\ \E account \in {UpdatedSessionData(c.account, i, new)} : SignedIn(s, account)
        /\ UNCHANGED <<scenario, flow, submits, asked>>

\* A session that may be used again is renewed with the password.
SessionReauth(s) ==
    LET c == calls[s]
        i == c.account.session
    IN  /\ Requested(s, {"signIn"}) /\ Live(i)
        /\ Refusals(c, VerificationMethod) = {}
        /\ LET new == NewSession(UidOf(c.account.email), VerificationMethod)
           IN  /\ server' = [server EXCEPT !.sessions[i] = new]
               /\ \E account \in {UpdatedSessionData(c.account, i, new)} : SignedIn(s, account)
        /\ UNCHANGED <<scenario, flow, submits, asked>>

\* What is done about a session that is gone.
DiscardSession(c) == [c EXCEPT !.account.session = 0]

SessionReauthRefused(s) ==
    /\ Requested(s, {"signIn"})
    /\ calls[s].account.session # 0 /\ ~Live(calls[s].account.session)
    /\ calls' = [calls EXCEPT ![s] = DiscardSession(@)]
    /\ UNCHANGED <<scenario, relier, server, user, broker, view, prefill, flow, submits, asked>>

\* Mutant: what the server says of the e-mail is not taken over.
KeepEmail(account) == [account EXCEPT !.orig = account.email]

\* The password was salted with the first e-mail: try with that one.
UseCanonicalEmail(account) == [account EXCEPT !.orig = account.email, !.email = UidOf(account.email)]

IncorrectEmailCase(s) ==
    LET c == calls[s]
    IN  /\ Requested(s, {"signIn"})
        /\ "INCORRECT_EMAIL_CASE" \in Refusals(c, VerificationMethod)
        /\ calls' = [calls EXCEPT ![s].account = UseCanonicalEmail(c.account)]
        /\ UNCHANGED <<scenario, relier, server, user, broker, view, prefill, flow, submits, asked>>

\* After a refusal the account has again the e-mail the user typed.
RestoredEmail(account) == [account EXCEPT !.email = IF account.orig # "none" THEN account.orig ELSE @]

OnSignInBlocked(s) ==
    /\ Requested(s, {"signIn"})
    /\ "REQUEST_BLOCKED" \in Refusals(calls[s], VerificationMethod)
    /\ calls' = [calls EXCEPT ![s].op = "unblock", ![s].account = RestoredEmail(@)]
    /\ UNCHANGED <<scenario, relier, server, user, broker, view, prefill, flow, submits, asked>>

(***************************************************************************)
(* onSignInError of each form.                                             *)
(***************************************************************************)
GetAuthPage(lastPage) == IF lastPage = "force_auth" THEN "force_auth" ELSE "signin"

\* _navigateToForceSignUp: the browser is not told before the confirmation.
NavigateToForceSignUp(account, cs) ==
    /\ broker' = SetBehavior(broker, "beforeSignUpConfirmationPoll", Null)
    /\ Go([NewView("signup", InitAccount(account.email)) EXCEPT !.error = "DELETED_ACCOUNT"], cs)

CanForceSignUp == relier.uid = "none" \/ HasCapability(broker, "allowUidChange")

TooYoung(cs) ==
    /\ user' = [user EXCEPT !.tooYoung = TRUE]
    /\ Go(NewView("cannot_create_account", NoAccount), cs)

OnSignInError(s, c, error) ==
    CASE error = "UNKNOWN_ACCOUNT" /\ c.page = "force_auth" /\ CanForceSignUp ->
             NavigateToForceSignUp(c.account, Over(s)) /\ UNCHANGED user
      [] error = "UNKNOWN_ACCOUNT" /\ c.page = "signup" /\ c.age = "young" ->
             TooYoung(Over(s)) /\ UNCHANGED broker
      [] error = "EMAIL_HARD_BOUNCE" ->
             /\ Go(NewView("signin_bounced", c.account), Over(s))
             /\ UNCHANGED <<user, broker>>
      [] error = "INCORRECT_PASSWORD" /\ c.page = "signin_unblock" ->
             /\ Go([NewView(GetAuthPage(c.from), NoAccount) EXCEPT !.error = error], Over(s))
             /\ UNCHANGED <<user, broker>>
      [] OTHER -> Display(c, error) /\ calls' = Over(s) /\ UNCHANGED <<user, broker>>

\* The mail may be refused itself; that is told on the form.
SendUnblockEmail(s) ==
    LET c == calls[s]
    IN  /\ Requested(s, {"unblock"})
        /\ \/ /\ Go([NewView("signin_unblock", c.account) EXCEPT !.from = c.page, !.password = c.password], Over(s))
              /\ UNCHANGED <<user, broker>>
           \/ OnSignInError(s, c, "THROTTLED")
        /\ UNCHANGED <<scenario, relier, server, prefill, flow, submits, asked>>

SignInRefused(s) ==
    LET c == calls[s]
    IN  /\ Requested(s, {"signIn"})
        /\ c.account.session = 0 \/ Live(c.account.session)
        /\ \E error \in Refusals(c, VerificationMethod) \ {"INCORRECT_EMAIL_CASE", "REQUEST_BLOCKED"} :
              OnSignInError(s, c, error)
        /\ UNCHANGED <<scenario, relier, server, prefill, flow, submits, asked>>

(***************************************************************************)
(* Signing in with the session that is stored.                             *)
(***************************************************************************)
\* What is wrong with a session that is not verified, as its account tells.
StatusReason(uid) == IF server.accounts[uid] = "unverified" THEN "signup" ELSE "login"

Refreshed(account) ==
    LET verified == server.sessions[account.session].verified
    IN  [account EXCEPT !.verified = verified, !.reason = IF verified THEN @ ELSE StatusReason(account.uid)]

RecoveryEmailStatus(s) ==
    LET c   == calls[s]
        i   == c.account.session
    IN  /\ Requested(s, {"cached"}) /\ Live(i)
        /\ SignedIn(s, Refreshed(c.account))
        /\ UNCHANGED <<scenario, server, flow, submits, asked>>

\* Whatever went wrong, the session is forgotten and the password asked for.
AskForPassword(account) ==
    [view EXCEPT !.ask = TRUE, !.error = "SESSION_EXPIRED",
                 !.account = IF view.page = "signin" THEN NoAccount ELSE account]

CachedSessionFails(s) ==
    LET c == calls[s]
    IN  /\ c.op = "cached"
        /\ c.step = "failed" \/ (c.step = "request" /\ ~Live(c.account.session))
        /\ calls' = Over(s)
        /\ user' = RemoveAccount(user, c.account.uid)
        /\ prefill' = c.account.email
        /\ view' = IF c.here THEN AskForPassword(c.account) ELSE view
        /\ UNCHANGED <<scenario, relier, server, broker, flow, submits, asked>>

(***************************************************************************)
(* The answers to a sign up (signup-mixin).                                *)
(***************************************************************************)
\* One screen may come before the confirmation.
ScreenBeforeConfirmation ==
    IF scenario.permissions THEN "signup_permissions"
    ELSE IF HasCapability(broker, "chooseWhatToSyncWebV1") THEN "choose_what_to_sync"
    ELSE "none"

SignUpAccepted(s) ==
    LET c       == calls[s]
        new     == [uid |-> UidOf(c.account.email), live |-> TRUE, verified |-> FALSE, second |-> FALSE,
                    method |-> "none", reason |-> "none"]
        account == UpdatedSessionData(c.account, Len(server.sessions) + 1, new)
    IN  /\ Requested(s, {"signUp"}) /\ Kind(c.account.email) = "missing"
        /\ server' = [accounts |-> [server.accounts EXCEPT ![UidOf(c.account.email)] = "unverified"],
                      sessions |-> Append(server.sessions, new)]
        /\ user' = [user EXCEPT !.stored[new.uid] = [account EXCEPT !.keys = FALSE], !.signedIn = account]
        /\ prefill' = "none"
        /\ IF ScreenBeforeConfirmation # "none"
           THEN /\ Go([NewView(ScreenBeforeConfirmation, account) EXCEPT !.complete = "afterSignUp"], Over(s))
                /\ UNCHANGED broker
           ELSE InvokeBrokerMethod(s, broker, "afterSignUp", account)
        /\ UNCHANGED <<scenario, relier, flow, submits, asked>>

\* The form of both e-mail and password signs in with what was typed.
AccountAlreadyExists(s) ==
    LET c == calls[s]
    IN  /\ Requested(s, {"signUp"}) /\ Kind(c.account.email) # "missing"
        /\ IF c.page = "signup"
           THEN calls' = [calls EXCEPT ![s] = BrokerBeforeSignIn([c EXCEPT !.op = "signIn"])] /\ UNCHANGED view
           ELSE calls' = Over(s) /\ Display(c, "ACCOUNT_ALREADY_EXISTS")
        /\ UNCHANGED <<scenario, relier, server, user, broker, prefill, flow, submits, asked>>

(***************************************************************************)
(* The answers to the other forms.                                         *)
(***************************************************************************)
\* checkAccountEmailExists: an account that does not exist is forgotten.
CheckEmail(u, email) == IF Kind(email) = "missing" THEN RemoveAccount(u, UidOf(email)) ELSE u

EmailChecked(s) ==
    LET email == calls[s].account.email
    IN  /\ Requested(s, {"check"})
        /\ user' = CheckEmail(user, email)
        /\ Go(IF Kind(email) = "missing" THEN NewView("signup", InitAccount(email))
              ELSE NewView("signin", Stored(user, email)), Over(s))
        /\ UNCHANGED <<scenario, relier, server, broker, prefill, flow, submits, asked>>

CodeAccepted(s) ==
    LET c       == calls[s]
        i       == c.account.session
    IN  /\ Requested(s, {"code"}) /\ c.password # "wrong" /\ Live(i)
        /\ server' = VerifySession(i, c.page # "signin_token_code")
        /\ UNCHANGED user
        /\ IF c.password = "last"
           THEN /\ Go([NewView("recovery_codes", NoAccount) EXCEPT !.from = c.page], Over(s))
                /\ UNCHANGED broker
           ELSE InvokeBrokerMethod(s, broker, "afterCompleteSignInWithCode", c.account)
        /\ UNCHANGED <<scenario, relier, prefill, flow, submits, asked>>

CodeRefused(s) ==
    /\ Requested(s, {"code"}) /\ (calls[s].password = "wrong" \/ ~Live(calls[s].account.session))
    /\ calls' = Over(s)
    /\ Display(calls[s], "INVALID_CODE")
    /\ UNCHANGED <<scenario, relier, server, user, broker, prefill, flow, submits, asked>>

\* The code an OAuth relier waits for (getOAuthResult).
GetOAuthResult(c) ==
    LET session == server.sessions[c.account.session]
    IN  IF ~Live(c.account.session) THEN "INVALID_TOKEN"
        ELSE IF ~session.verified THEN "UNVERIFIED_ACCOUNT"
        ELSE IF scenario.twoStep /\ ~session.second THEN "MISMATCH_ACR_VALUES"
        ELSE "code"

FinishOAuthFlow(s) ==
    LET c      == calls[s]
        result == GetOAuthResult(c)
    IN  /\ Requested(s, {"finish"})
        /\ IF result = "code"
           THEN /\ broker' = Send(broker, "oauth_code", [c.account EXCEPT !.verified =
                                                             server.sessions[c.account.session].verified])
                /\ Go([NewView("halted", c.account) EXCEPT !.done = TRUE], Over(s))
           ELSE calls' = Over(s) /\ Display(c, result) /\ UNCHANGED broker
        /\ UNCHANGED <<scenario, relier, server, user, prefill, flow, submits, asked>>

-----------------------------------------------------------------------------
(***************************************************************************)
(* A screen is shown: what its beforeRender, afterRender and afterVisible  *)
(* look at first.                                                          *)
(***************************************************************************)
Opening(page) == view.page = page /\ ~view.shown /\ UNCHANGED <<scenario, relier, server, submits, asked>>

Shown == view' = [view EXCEPT !.shown = TRUE]

Replace(page, account) == Go(NewView(page, account), calls)

\* The first screen of the content server.
ChooseEmailActionPage(s) ==
    /\ flow' = TRUE
    /\ prefill' = IF view.account.email # "none" THEN view.account.email
                  ELSE IF relier.email # "none" THEN relier.email ELSE prefill
    /\ IF view.account.email = "none" /\ relier.email # "none"
       THEN Start(s, NewCall("check", InitAccount(relier.email), "none")) /\ Shown
       ELSE IF view.account.email = "none" /\ AllowSuggestedAccount(GetChooserAccount)
       THEN /\ view' = NewView("signin_password", GetChooserAccount)
            /\ calls' = Left(calls)
       ELSE Shown /\ UNCHANGED calls

IndexPage == IF user.signedIn.session # 0 THEN "settings" ELSE "signup"

ShowIndex(s) ==
    /\ Opening("index")
    /\ CASE user.tooYoung -> Replace("cannot_create_account", NoAccount) /\ UNCHANGED <<flow, prefill>>
         [] ~user.tooYoung /\ scenario.action \notin {"none", "email"} ->
                Replace(scenario.action, NoAccount) /\ UNCHANGED <<flow, prefill>>
         [] ~user.tooYoung /\ (scenario.action = "email" \/ (scenario.action = "none" /\ scenario.emailFirst)) ->
                ChooseEmailActionPage(s)
         [] OTHER -> Replace(IndexPage, NoAccount) /\ UNCHANGED <<flow, prefill>>
    /\ UNCHANGED <<user, broker>>

\* The first screen of an OAuth relier: the e-mail it names decides.
OAuthPage ==
    IF relier.email = "none" THEN (IF GetChooserAccount = NoAccount THEN "signup" ELSE "signin")
    ELSE IF Kind(relier.email) = "missing" THEN "signup" ELSE "signin"

ShowOAuthIndex(s) ==
    /\ Opening("oauth_index")
    /\ IF scenario.action = "email"
       THEN ChooseEmailActionPage(s) /\ UNCHANGED user
       ELSE /\ Replace(OAuthPage, NoAccount)
            /\ user' = IF relier.email = "none" THEN user ELSE CheckEmail(user, relier.email)
            /\ UNCHANGED <<flow, prefill>>
    /\ UNCHANGED broker

\* Where the flow begins with the e-mail, the forms send back to it.
BackToEmailFirst == scenario.action = "email" \/ scenario.emailFirst

ShowSignIn ==
    /\ Opening("signin")
    /\ IF BackToEmailFirst THEN Replace("index", NoAccount)
       ELSE view' = [view EXCEPT !.shown = TRUE, !.account = SuggestedAccount] /\ UNCHANGED calls
    /\ UNCHANGED <<user, broker, prefill, flow>>

\* Mutant: only the first screen looks at the cookie.
ShowSignUpAtAnyAge ==
    /\ Opening("signup")
    /\ IF BackToEmailFirst THEN Replace("index", NoAccount) ELSE Shown /\ UNCHANGED calls
    /\ UNCHANGED <<user, broker, prefill, flow>>

ShowSignUp ==
    /\ Opening("signup")
    /\ CASE user.tooYoung                       -> Replace("cannot_create_account", NoAccount)
         [] BackToEmailFirst /\ ~user.tooYoung   -> Replace("index", NoAccount)
         [] OTHER                               -> Shown /\ UNCHANGED calls
    /\ UNCHANGED <<user, broker, prefill, flow>>

ShowPassword ==
    /\ \E page \in {"signin_password", "signup_password"} : Opening(page)
    /\ CASE view.account.email = "none" -> Replace("index", NoAccount)
         [] view.account.email # "none" /\ view.page = "signup_password" /\ user.tooYoung ->
                Replace("cannot_create_account", NoAccount)
         [] OTHER -> Shown /\ UNCHANGED calls
    /\ UNCHANGED <<user, broker, prefill, flow>>

\* force_auth checks both the e-mail and the uid before it shows the form.
UidExists == relier.uid # "none" => relier.uid \in Uids /\ server.accounts[relier.uid] # "missing"

ShowForceAuth ==
    LET gone == Kind(relier.email) = "missing"
        u    == IF UidExists THEN user ELSE RemoveAccount(user, relier.uid)
    IN  /\ Opening("force_auth")
        /\ user' = CheckEmail(u, relier.email)
        /\ IF gone /\ CanForceSignUp
           THEN NavigateToForceSignUp(InitAccount(relier.email), calls)
           ELSE /\ view' = [view EXCEPT !.shown = TRUE, !.error =
                                IF (gone \/ ~UidExists) /\ ~HasCapability(broker, "allowUidChange")
                                    THEN "DELETED_ACCOUNT" ELSE @]
                /\ UNCHANGED <<broker, calls>>
        /\ UNCHANGED <<prefill, flow>>

\* confirm tells the browser of an account before it waits for the e-mail.
ShowConfirm ==
    /\ \E page \in {"confirm", "confirm_signin"} : Opening(page)
    /\ LET r == BeforeSignUpConfirmationPoll(broker, view.account)
       IN  broker' = r[1] /\ Shown
    /\ UNCHANGED <<user, calls, prefill, flow>>

\* The settings are those of the account the relier names.
SettingsUser ==
    IF relier.uid \in {"none", user.signedIn.uid} THEN user
    ELSE [user EXCEPT !.signedIn = IF relier.uid \in Uids THEN user.stored[relier.uid] ELSE NoAccount]

ReAuthPage == IF relier.email = "none" THEN "signin" ELSE "force_auth"

\* Within the settings the session must be verified (checkAuthorization): a
\* second factor that is missing is taken for an e-mail to confirm.
TargetScreen(account) ==
    IF account.reason = "signup" THEN "confirm"
    ELSE IF account.method = "email-2fa" THEN "signin_code"
    ELSE "confirm_signin"

StoreSignedIn(u, account) ==
    [u EXCEPT !.signedIn = account, !.stored[account.uid] = [account EXCEPT !.keys = FALSE]]

ShowSettings ==
    LET u       == SettingsUser
        account == u.signedIn
        known   == Refreshed(account)
    IN  /\ \E page \in SettingsPages : Opening(page)
        /\ UNCHANGED <<broker, prefill, flow>>
        /\ \/ /\ Live(account.session) /\ known.verified
              /\ user' = StoreSignedIn(u, known)
              /\ view' = [view EXCEPT !.shown = TRUE,
                                        !.done = view.complete = "end" /\ view.account.session = known.session]
              /\ UNCHANGED calls
           \/ /\ Live(account.session) /\ ~known.verified
              /\ user' = StoreSignedIn(u, known)
              /\ Replace(TargetScreen(known), known)
           \/ /\ ~Live(account.session)
              /\ user' = IF account.uid = "none" THEN u ELSE StoreSignedIn(u, [account EXCEPT !.session = 0])
              /\ Go([NewView(ReAuthPage, NoAccount) EXCEPT !.redirectTo = view.page], calls)

\* The screens of a code need an account with a session.
ShowCode ==
    /\ \E page \in {"signin_token_code", "signin_totp_code", "signin_recovery_code"} : Opening(page)
    /\ LET account == IF view.account.email = "none" THEN user.signedIn ELSE view.account
       IN  IF account.session = 0 THEN Replace(GetAuthPage(view.from), NoAccount)
           ELSE view' = [view EXCEPT !.shown = TRUE, !.account = account] /\ UNCHANGED calls
    /\ UNCHANGED <<user, broker, prefill, flow>>

ShowOther ==
    /\ \E page \in {"signin_unblock", "signin_bounced", "signin_permissions", "signup_permissions",
                    "choose_what_to_sync"} : Opening(page)
    /\ Shown
    /\ UNCHANGED <<user, calls, broker, prefill, flow>>

-----------------------------------------------------------------------------
(***************************************************************************)
(* The screens in the middle of a flow, and the links.                     *)
(***************************************************************************)
On(page) == view.page = page /\ view.shown /\ UNCHANGED <<scenario, submits, asked, flow>>

AcceptPermissions(s) ==
    /\ \E page \in {"signin_permissions", "signup_permissions"} : On(page)
    /\ Free(s) /\ ~\E x \in Slots : calls[x].here
    /\ user' = [user EXCEPT !.stored[view.account.uid] = [view.account EXCEPT !.keys = FALSE]]
    /\ IF view.page = "signin_permissions"
       THEN OnSignInSuccess(s, view.account, view.complete, view.redirectTo)
       ELSE InvokeBrokerMethod(s, broker, "afterSignUp", view.account) /\ UNCHANGED relier
    /\ UNCHANGED <<server, prefill>>

\* The screen goes on by itself when the link was followed meanwhile.
ChooseWhatToSync(s) ==
    LET verified == server.sessions[view.account.session].verified
    IN  /\ On("choose_what_to_sync") /\ Free(s)
        /\ UNCHANGED <<relier, server, user, prefill>>
        /\ InvokeBrokerMethod(s, broker, "afterSignUp", [view.account EXCEPT !.verified = verified])

\* The user follows the link of the e-mail.
FollowLink ==
    /\ \E page \in {"confirm", "confirm_signin", "choose_what_to_sync"} : On(page)
    /\ ~server.sessions[view.account.session].verified
    /\ server' = [VerifySession(view.account.session, FALSE) EXCEPT !.accounts[view.account.uid] = "plain"]
    /\ UNCHANGED <<relier, user, broker, view, calls, prefill>>

GotoNextScreen(s) ==
    LET account == [view.account EXCEPT !.verified = TRUE]
    IN  /\ \E page \in {"confirm", "confirm_signin"} : On(page)
        /\ Free(s) /\ server.sessions[view.account.session].verified
        /\ user' = [user EXCEPT !.stored[account.uid] = [account EXCEPT !.keys = FALSE]]
        /\ InvokeBrokerMethod(s, broker, IF view.page = "confirm" THEN "afterSignUpConfirmationPoll"
                                         ELSE "afterSignInConfirmationPoll", account)
        /\ UNCHANGED <<relier, server, prefill>>

\* Continue, on the screen at the end of a confirmation on Android.
Continue(s) ==
    /\ view.complete = "finishOAuthFlow" /\ Free(s)
    /\ ~\E x \in Slots : calls[x].here
    /\ calls' = [calls EXCEPT ![s] = [NewCall("finish", view.account, "none") EXCEPT !.step = "request"]]
    /\ UNCHANGED <<scenario, relier, server, user, broker, view, prefill, flow, submits, asked>>

\* The codes that are left were few: new ones are shown before the end.
ReturnFromRecoveryCodes(s) ==
    /\ On("recovery_codes") /\ Free(s)
    /\ view.from = "signin_recovery_code"
    /\ UNCHANGED user
    /\ InvokeBrokerMethod(s, broker, "afterCompleteSignInWithCode", user.signedIn)
    /\ UNCHANGED <<relier, server, prefill>>

Links ==
    [signin |-> {"signup"}, signup |-> {"signin"}, confirm_signin |-> {"signin"},
     signin_totp_code |-> {"signin_recovery_code"}, signin_recovery_code |-> {"signin_totp_code"}]

\* On other screens there is nothing to click, or the flow is over.
FollowPageLink ==
    /\ view.page \in DOMAIN Links /\ On(view.page)
    /\ \E page \in Links[view.page] :
          Go([NewView(page, IF page \in {"signin_totp_code", "signin_recovery_code"} THEN view.account
                            ELSE NoAccount) EXCEPT !.from = view.from], calls)
    /\ UNCHANGED <<relier, server, user, broker, prefill>>

UseDifferentAccount ==
    /\ \E page \in {"signin", "signin_password", "signup_password"} : On(page)
    /\ IF view.page = "signin"
       THEN /\ user' = RemoveAllAccounts(user)
            /\ prefill' = "none"
            /\ view' = [view EXCEPT !.account = NoAccount, !.error = "none"]
            /\ UNCHANGED calls
       ELSE /\ Go(NewView("index", view.account), calls)
            /\ UNCHANGED <<user, prefill>>
    /\ UNCHANGED <<relier, server, broker>>

CreateAccount ==
    /\ On("signin_bounced")
    /\ user' = RemoveAllAccounts(user)
    /\ prefill' = "none"
    /\ Go(NewView("signup", NoAccount), calls)
    /\ UNCHANGED <<relier, server, broker>>

SubmitTooYoung ==
    /\ On("signup_password")
    /\ TooYoung(calls)
    /\ UNCHANGED <<relier, server, broker, prefill>>

\* Signing out of the settings leads to the form, in the same page.
SignOut ==
    /\ view.page = "settings" /\ view.shown
    /\ user' = RemoveAccount(user, user.signedIn.uid)
    /\ server' = [server EXCEPT !.sessions = [i \in DOMAIN @ |->
                      IF i = user.signedIn.session THEN [@[i] EXCEPT !.live = FALSE] ELSE @[i]]]
    /\ Go(NewView("signin", NoAccount), calls)
    /\ UNCHANGED <<scenario, relier, broker, prefill, flow, submits, asked>>

-----------------------------------------------------------------------------
\* What the browser, the server and the rendering do with a call or a screen.
Reply(s) ==
    \/ SignInAccepted(s) \/ SessionReauth(s) \/ SessionReauthRefused(s) \/ IncorrectEmailCase(s)
    \/ OnSignInBlocked(s) \/ SendUnblockEmail(s) \/ SignInRefused(s)
    \/ RecoveryEmailStatus(s) \/ CachedSessionFails(s)
    \/ SignUpAccepted(s) \/ AccountAlreadyExists(s)
    \/ EmailChecked(s) \/ CodeAccepted(s) \/ CodeRefused(s) \/ FinishOAuthFlow(s)

Show(s) ==
    \/ ShowIndex(s) \/ ShowOAuthIndex(s) \/ ShowSignIn \/ ShowSignUp \/ ShowPassword
    \/ ShowForceAuth \/ ShowConfirm \/ ShowCode \/ ShowSettings \/ ShowOther

UserActs(s) ==
    \/ SubmitIndex(s) \/ SubmitSignIn(s) \/ SubmitSignInPassword(s) \/ SubmitForceAuth(s)
    \/ SubmitSignUp(s) \/ SubmitSignUpPassword(s) \/ SubmitTooYoung
    \/ SubmitUnblock(s) \/ SubmitCode(s)
    \/ AcceptPermissions(s) \/ ChooseWhatToSync(s) \/ FollowLink \/ GotoNextScreen(s)
    \/ Continue(s) \/ ReturnFromRecoveryCodes(s) \/ FollowPageLink
    \/ UseDifferentAccount \/ CreateAccount \/ SignOut

Next == \E s \in Slots : (\E answer \in Answers : Answer(s, answer)) \/ Reply(s) \/ Show(s) \/ UserActs(s)

\* Browsers and servers answer, screens are rendered; the user need not act.
Fairness ==
    /\ \A s \in Slots : WF_vars(\E answer \in Answers : Answer(s, answer)) /\ WF_vars(Reply(s))
    /\ WF_vars(\E s \in Slots : Show(s))

Spec == Init /\ [][Next]_vars /\ Fairness

-----------------------------------------------------------------------------
(***************************************************************************)
(* What must hold.                                                         *)
(***************************************************************************)
AccountType ==
    [email : Emails \cup {"none"}, uid : Uids \cup {"none", "stale"}, session : Nat,
     sync : BOOLEAN, keys : BOOLEAN, verified : BOOLEAN,
     method : {"none", "email", "email-2fa", "totp-2fa"}, reason : {"none", "login", "signup"},
     orig : Emails \cup {"none"}]

\* The types; a session an account holds was made by the server, for it.
TypeOK ==
    /\ \A x \in Uids : user.stored[x] \in AccountType
    /\ user.signedIn \in AccountType /\ user.tooYoung \in BOOLEAN
    /\ view.account \in AccountType /\ view.shown \in BOOLEAN /\ view.done \in BOOLEAN
    /\ \A s \in Slots : calls[s].account \in AccountType /\ calls[s].step \in {"none", "ask", "request", "failed"}
    /\ \A account \in {user.signedIn, view.account} :
          account.session # 0 => account.session \in DOMAIN server.sessions
                                 /\ server.sessions[account.session].uid = account.uid
    /\ prefill \in Emails \cup {"none"} /\ asked \subseteq Emails \X {"agreed", "failed"} /\ submits \in 0 .. MaxSubmits

\* A browser that asks is told of a sign in it may link without asking again
\* only for an account its user agreed to: the broker sends that it asked, not
\* what about.  So there is one way round its user, a request that failed for
\* this account (fx-sync-channel.js:130) after one that was agreed to for another.
LoginIsAgreed ==
    scenario.asks =>
        \A i \in DOMAIN broker.sent :
            LET m == broker.sent[i]
                Asked(answer) == \E e \in Emails : UidOf(e) = m.uid /\ <<e, answer>> \in asked
            IN  m.command = "LOGIN" /\ m.canLink =>
                    Asked("agreed") \/ (Asked("failed") /\ \E e \in Emails : <<e, "agreed">> \in asked)

\* No flow ends before the server verified the session, whichever screens
\* and late answers led to the end.
VerifiedBeforeTheEnd ==
    view.done => /\ view.account.session # 0
                 /\ server.sessions[view.account.session].verified

HasKeysOf(uid) ==
    \E i \in DOMAIN broker.sent :
        LET m == broker.sent[i]
        IN  m.command = "LOGIN" /\ m.uid = uid /\ m.keys

\* A browser that syncs has the keys of the account when the flow ends, unless
\* the settings took a stored account, which has none, as the relier names it.
BrowserHasTheKeys ==
    view.done /\ scenario.context \in ChannelContexts =>
        HasKeysOf(view.account.uid) \/ (scenario.uid # "none" /\ ~view.account.keys)

\* Once it is known that the user is too young no form creates an account,
\* not even one that is opened by a link or an error.
TooYoungStaysOut ==
    [][\A s \in Slots : user.tooYoung /\ calls'[s].op = "signUp" => calls[s].op = "signUp"]_vars

\* What is submitted ends, whatever the server asks to be tried again.
SubmitEnds == \A s \in Slots : calls[s].step # "none" ~> calls[s].step = "none"

Terminal == {"signin_confirmed", "signup_confirmed", "cannot_create_account"}

\* An action asked for and the experiment send to each other for ever
\* (index.js:53, email-first-experiment-mixin.js:37): nothing is ever shown.
InACircle ==
    scenario.emailFirst /\ scenario.action \in {"signin", "signup"} /\ view.page \in {"index", scenario.action}

\* Any other screens that send to each other settle on one that is shown.
ScreenIsShown == ~view.shown ~> view.shown \/ view.done \/ view.page \in Terminal \/ InACircle

\* However a flow came to its end, the account is verified and the browser has
\* what it needs of it.
FlowEndsVerified == TypeOK /\ VerifiedBeforeTheEnd /\ BrowserHasTheKeys

\* No request holds the user up for ever, and no row of redirections but one.
FlowMovesOn == SubmitEnds /\ ScreenIsShown

=============================================================================
