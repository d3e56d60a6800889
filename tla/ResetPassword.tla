---------------------------- MODULE ResetPassword ----------------------------
(***************************************************************************)
(* A password reset: the tab in which it is asked for waits while the user *)
(* opens the link of the e-mail in another tab, in another browser, or in  *)
(* its own place (views/reset_password, confirm_reset_password,            *)
(* complete_reset_password, account_recovery_confirm_key).                 *)
(* The tab of the link is one at a time: it may be closed and the link be  *)
(* opened again, in the browser of the asking tab or in another one.       *)
(*                                                                         *)
(* The waiting tab asks the server again and again whether its token is    *)
(* gone; once a tab of the same browser says that it opened the link it    *)
(* stops asking and waits for a message with the new session instead.  A   *)
(* user who has a recovery key exchanges the token for an account reset    *)
(* token first and keeps the encryption key kB.  At the end the broker of  *)
(* each tab tells the browser, or takes the user back to the relying party.*)
(***************************************************************************)
EXTENDS Brokers, FiniteSets

CONSTANTS
    Scenarios,  \* the set-ups the run explores
    MaxTokens,  \* bound: resets asked for
    MaxTries,   \* EMAIL_RESEND_MAX_TRIES
    MaxMessages \* bound: messages on their way to a tab

ASSUME BoundsAssumption == {MaxTokens, MaxTries, MaxMessages} \subseteq Nat \ {0}

\* The pages of a browser that syncs name the service, and their relier wants
\* keys (models/reliers/sync.js:66).
ASSUME ScenariosAssumption ==
    \A s \in Scenarios :
        /\ s.context \in Contexts /\ s.resets \in 0..MaxTokens /\ s.link \in {"here", "there", "either", "replaces"}
        /\ s.keys \in BOOLEAN /\ s.totp \in BOOLEAN /\ s.recovery \in BOOLEAN
        /\ s.context \in SyncContexts => s.service = "sync"
        /\ s.service = "sync" => s.keys

VARIABLES
    setup,    \* what the run is about
    server,   \* what the auth server keeps of the account
    browser,  \* what the tabs of a browser share
    tabs,     \* each tab: what it shows and what it waits for
    inbox     \* messages of other tabs, in the order they were sent

vars == <<setup, server, browser, tabs, inbox>>

Tabs == {"asking", "other"}

Browsers == {"here", "there"}

\* The browser a tab is in: the asking tab is always here.
BrowserOf(t) == tabs[t].where

\* The browsers in which a link may be opened in the tab.
MayOpenIn(t) ==
    CASE t = "asking"                           -> IF setup.link = "replaces" THEN {"here"} ELSE {}
      [] t = "other" /\ setup.link = "either"   -> Browsers
      [] t = "other" /\ setup.link = "there"    -> {"there"}
      [] OTHER                                  -> {"here"}

Pages == {"none", "reset_password", "confirm_reset_password", "complete_reset_password",
          "account_recovery_confirm_key", "account_recovery_reset_password", "signin",
          "signin_totp_code", "reset_password_confirmed", "reset_password_verified",
          "reset_password_with_recovery_key_verified", "settings", "halted", "relier"}

FormPages == {"complete_reset_password", "account_recovery_reset_password"}

LinkPages == FormPages \cup {"account_recovery_confirm_key"}

(***************************************************************************)
(* The context of a tab.  The link names the service; the context of the   *)
(* asking tab is kept in the storage of its browser (persist, load).       *)
(***************************************************************************)
Load(b) == browser[b].context

Persist(b, context) == [browser EXCEPT ![b].context = context]

GetVerificationContext(b) ==
    IF Load(b) # "none" THEN Load(b) ELSE IF setup.service = "sync" THEN "fx_sync" ELSE "web"

\* A link that names a relying party gets the broker of the OAuth flow.
BrokerContext(b) == IF setup.service = "rp" THEN "oauth" ELSE GetVerificationContext(b)

IsOAuth(tab) == tab.broker.context \in OAuthContexts

\* The relier of a tab that opened the link: whether it wants keys and whether
\* it has the state of the OAuth flow, both from the shared session.
VerificationFlow(b) ==
    [keys |-> setup.service = "sync" \/ (setup.service = "rp" /\ browser[b].oauth /\ setup.keys),
     state |-> browser[b].oauth]

NewTab(context, keys, state, page) ==
    [page |-> page, where |-> "here", step |-> "ready", token |-> 0, broker |-> NewBroker(context, setup.browser),
     keys |-> keys, state |-> state, marker |-> FALSE, poll |-> "off", login |-> FALSE,
     lost |-> FALSE, kB |-> FALSE, resetToken |-> 0, hasRecoveryKey |-> FALSE,
     late |-> FALSE, tries |-> 0, says |-> "nothing", asked |-> FALSE, redirected |-> FALSE, reset |-> FALSE]

Init ==
    /\ setup \in Scenarios
    /\ server = [tokens |-> [n \in 1..MaxTokens |-> "none"], resetToken |-> 0, recoveryKey |-> setup.recovery,
                 kB |-> "old", resetWith |-> {}, answered |-> {}]
    /\ browser = [b \in Browsers |-> [context |-> "none", oauth |-> FALSE]]
    /\ tabs = [t \in Tabs |-> IF t = "asking" THEN NewTab(setup.context, setup.keys, TRUE, "reset_password")
                              ELSE NewTab("web", FALSE, FALSE, "none")]
    /\ inbox = [t \in Tabs |-> <<>>]

TypeOK ==
    /\ server.tokens \in [1..MaxTokens -> {"none", "valid", "exchanged", "expired"}]
    /\ server.resetToken \in 0..MaxTokens /\ server.recoveryKey \in BOOLEAN
    /\ server.kB \in {"old", "new"} /\ server.resetWith \subseteq 1..MaxTokens
    /\ server.answered \subseteq Browsers \X (1..MaxTokens)
    /\ browser \in [Browsers -> [context : Contexts \cup {"none"}, oauth : BOOLEAN]]
    /\ \A t \in Tabs :
          /\ tabs[t].page \in Pages
          /\ tabs[t].where \in Browsers
          /\ tabs[t].step \in {"loading", "ready", "expired", "resetting", "reset", "keyed", "stopped"}
          /\ tabs[t].poll \in {"off", "request", "timer", "stale"}
          /\ tabs[t].token \in 0..MaxTokens /\ tabs[t].resetToken \in 0..MaxTokens
          /\ tabs[t].tries \in 0..MaxTries
          /\ tabs[t].says \in {"nothing", "reset"}
          /\ \A f \in {"keys", "state", "marker", "login", "late", "lost", "kB", "hasRecoveryKey", "asked", "redirected", "reset"} :
                tabs[t][f] \in BOOLEAN
    /\ \A t \in Tabs : \A i \in DOMAIN inbox[t] : inbox[t][i].name \in {"tab open", "signed in"}

(***************************************************************************)
(* Tabs.                                                                   *)
(***************************************************************************)
Set(t, tab) == tabs' = [tabs EXCEPT ![t] = tab]

\* What a screen knows goes with it, except from one screen of a link to another.
ShowPage(tab, page) ==
    LET shown == [tab EXCEPT !.page = page, !.step = "ready", !.says = "nothing"]
    IN  IF page \in LinkPages THEN shown
        ELSE [shown EXCEPT !.token = 0, !.poll = "off", !.login = FALSE, !.late = FALSE, !.lost = FALSE, !.kB = FALSE,
                           !.resetToken = 0, !.hasRecoveryKey = FALSE, !.tries = 0]

\* Tabs of one browser hear each other, where there is a BroadcastChannel.
Hears(t, from) == setup.channel /\ t # from /\ BrowserOf(t) = BrowserOf(from) /\ tabs[t].page # "none"

TriggerRemote(from, message) ==
    /\ \A t \in Tabs : Len(inbox[t]) < MaxMessages
    /\ inbox' = [t \in Tabs |-> IF Hears(t, from) THEN Append(inbox[t], message) ELSE inbox[t]]

\* Session: what it has of an OAuth flow is shared by the tabs of a browser.
SessionSet(shared, t) == [shared EXCEPT ![BrowserOf(t)].oauth = TRUE]

SessionClear(t) == [browser EXCEPT ![BrowserOf(t)].oauth = FALSE]

(***************************************************************************)
(* Asking.  The server forgets the token it gave before.                   *)
(***************************************************************************)
NextToken == Cardinality({n \in 1..MaxTokens : server.tokens[n] # "none"}) + 1

PasswordReset ==
    server' = [server EXCEPT !.tokens = [n \in 1..MaxTokens |-> IF n = NextToken THEN "valid"
                                                                ELSE IF @[n] = "valid" THEN "expired" ELSE @[n]]]

\* resetPassword of the mixin: the confirmation screen of the new token.
ResetPasswordOf(t) ==
    /\ NextToken <= setup.resets
    /\ PasswordReset
    /\ browser' = SessionClear(t)
    /\ Set(t, [ShowPage(tabs[t], "confirm_reset_password") EXCEPT
                   !.step = "loading", !.token = NextToken, !.asked = TRUE])
    /\ UNCHANGED <<setup, inbox>>

Submit(t) ==
    /\ tabs[t].page = "reset_password"
    /\ \/ ResetPasswordOf(t)
       \/ browser' = SessionClear(t) /\ UNCHANGED <<setup, server, tabs, inbox>>

\* A link that is expired offers to ask for another.
ResendLink(t) ==
    /\ tabs[t].page \in LinkPages /\ tabs[t].step = "expired"
    /\ ResetPasswordOf(t)

RememberPassword(t) ==
    /\ \/ tabs[t].page = "reset_password"
       \/ tabs[t].page \in FormPages /\ tabs[t].step \in {"ready", "expired"}
    /\ Set(t, ShowPage(tabs[t], "signin"))
    /\ UNCHANGED <<setup, server, browser, inbox>>

(***************************************************************************)
(* Waiting.                                                                *)
(***************************************************************************)
BeforeRenderConfirm(tab) == [tab EXCEPT !.hasRecoveryKey = server.recoveryKey]

\* The broker keeps the context, and for OAuth the flow and the marker of the tab.
PersistVerificationData(t) ==
    LET shared == Persist(BrowserOf(t), tabs[t].broker.context)
    IN  IF IsOAuth(tabs[t]) THEN SessionSet(shared, t) ELSE shared

SetOriginalTabMarker(tab) == [tab EXCEPT !.marker = @ \/ IsOAuth(tab)]

\* afterVisible: what the other tab will need is kept, then both waits start.
ConfirmLoaded(t) ==
    /\ tabs[t].page = "confirm_reset_password" /\ tabs[t].step = "loading"
    /\ browser' = PersistVerificationData(t)
    /\ Set(t, [SetOriginalTabMarker(BeforeRenderConfirm(tabs[t])) EXCEPT !.step = "ready", !.poll = "request"])
    /\ UNCHANGED <<setup, server, inbox>>

IsWaiting(tab) == tab.page = "confirm_reset_password" /\ tab.step = "ready"

StopWaiting(tab) == [tab EXCEPT !.poll = "off", !.login = FALSE]

StopWaitingForServerConfirmation(tab) == [tab EXCEPT !.poll = IF @ = "request" THEN "stale" ELSE IF @ = "timer" THEN "off" ELSE @]

\* Why the wait ended in another browser cannot be told; the user signs in.
FinishDifferentBrowser(tab) ==
    [ShowPage(tab, "signin") EXCEPT !.says = IF tab.hasRecoveryKey THEN "nothing" ELSE "reset"]

\* Mutant: a token that was used is not seen.
IsExpired(n) == server.tokens[n] = "expired"

\* The server does not know the token any more.
IsPasswordResetComplete(n) == server.tokens[n] # "valid"

Failed(tab) == [StopWaiting(tab) EXCEPT !.step = "stopped"]

\* The answer of the poll.  One that comes when the tab waits for the message
\* is dropped; a failure ends the other wait too.
PollAnswered(t) ==
    /\ IsWaiting(tabs[t]) /\ tabs[t].poll \in {"request", "stale"}
    /\ IF tabs[t].poll = "request" /\ IsPasswordResetComplete(tabs[t].token)
           THEN Set(t, FinishDifferentBrowser(tabs[t])) /\ browser' = SessionClear(t)
           ELSE /\ Set(t, [tabs[t] EXCEPT !.poll = IF @ = "request" THEN "timer" ELSE "off"])
                /\ UNCHANGED browser
    /\ UNCHANGED <<setup, server, inbox>>

PollFails(t) ==
    /\ IsWaiting(tabs[t]) /\ tabs[t].poll \in {"request", "stale"}
    /\ Set(t, Failed(tabs[t]))
    /\ UNCHANGED <<setup, server, browser, inbox>>

TimerFires(t) ==
    /\ IsWaiting(tabs[t]) /\ tabs[t].poll = "timer"
    /\ Set(t, [tabs[t] EXCEPT !.poll = "request"])
    /\ UNCHANGED <<setup, server, browser, inbox>>

(***************************************************************************)
(* The broker of the OAuth flow.  finishOAuthFlow forgets the flow before  *)
(* it asks for the code; it gives no behavior.                             *)
(***************************************************************************)
FinishOAuthFlow(tab, ok) ==
    IF ok THEN [ShowPage(tab, "relier") EXCEPT !.marker = FALSE, !.redirected = TRUE]
    ELSE [tab EXCEPT !.step = "stopped", !.marker = FALSE]

Knows(account) == [signedIn |-> account.verified, another |-> FALSE, redirectTo |-> "none"]

Follow(tab, answer, account, page) ==
    LET to == Destination(answer[2], answer[1].caps, Knows(account), page)
    IN  [ShowPage([tab EXCEPT !.broker = answer[1]], to) EXCEPT !.says = "nothing"]

\* afterResetPasswordConfirmationPoll, in the tab that waited.
FinishesInAskingTab(tab, account) == IsOAuth(tab) /\ SignedInByReset(account)

\* afterCompleteResetPassword, in the tab of the link: only the original tab
\* goes back to the relying party.
\* Mutant: every tab does.
FinishesInAnyTab(tab, account) == IsOAuth(tab) /\ SignedInByReset(account)

FinishesInLinkTab(tab, account) == IsOAuth(tab) /\ SignedInByReset(account) /\ tab.marker

OAuthBehavior(tab, account, answer) ==
    IF IsOAuth(tab) /\ ~tab.marker
        THEN <<answer[1], IF NeedsTotp(account) /\ tab.state THEN Navigate("signin_totp_code") ELSE Null>>
        ELSE answer

(***************************************************************************)
(* Messages.                                                               *)
(***************************************************************************)
Received(t) == inbox' = [inbox EXCEPT ![t] = Tail(@)]

TabOpened(t) ==
    /\ inbox[t] # <<>> /\ Head(inbox[t]).name = "tab open"
    /\ Received(t)
    /\ Set(t, IF IsWaiting(tabs[t]) /\ ~tabs[t].login
                  THEN [StopWaitingForServerConfirmation(tabs[t]) EXCEPT !.login = TRUE, !.late = Head(inbox[t]).late]
                  ELSE tabs[t])
    /\ UNCHANGED <<setup, server, browser>>

\* What the message says and what the storage has of the account make it up;
\* neither has what the session still needs.
FromMessage(message) ==
    [email |-> "user", uid |-> "user", session |-> 1, keys |-> message.keys,
     verified |-> message.verified, method |-> "none", reason |-> "none"]

\* A relying party that wants keys cannot have them from here.
NeedsKeysOfOAuth(tab) == IsOAuth(tab) /\ tab.keys

SignedInElsewhere(t) ==
    /\ inbox[t] # <<>> /\ Head(inbox[t]).name = "signed in"
    /\ Received(t)
    /\ LET tab == StopWaiting(tabs[t])
           account == FromMessage(Head(inbox[t]))
       IN  CASE ~tabs[t].login -> Set(t, tabs[t]) /\ UNCHANGED browser
             [] tabs[t].login /\ NeedsKeysOfOAuth(tab) ->
                    Set(t, FinishDifferentBrowser(tab)) /\ browser' = SessionClear(t)
             [] tabs[t].login /\ ~NeedsKeysOfOAuth(tab) /\ FinishesInAskingTab(tab, account) ->
                    /\ \E ok \in BOOLEAN : Set(t, FinishOAuthFlow(tab, ok))
                    /\ browser' = SessionClear(t)
             [] OTHER ->
                    /\ Set(t, Follow(tab, AfterResetPasswordConfirmationPoll(tab.broker, account), account,
                                     "reset_password_confirmed"))
                    /\ UNCHANGED browser
    /\ UNCHANGED <<setup, server>>

(***************************************************************************)
(* Sending the e-mail once more.                                           *)
(***************************************************************************)
ShouldResend(tries) == tries <= MaxTries

MaxTriesReached(tab) == tab.tries >= MaxTries

Resend(t) ==
    /\ IsWaiting(tabs[t]) /\ ~MaxTriesReached(tabs[t])
    /\ LET tab == [tabs[t] EXCEPT !.tries = @ + 1]
       IN  Set(t, IF ShouldResend(tab.tries) /\ server.tokens[tab.token] # "valid"
                      THEN ShowPage(tab, "reset_password") ELSE tab)
    /\ UNCHANGED <<setup, server, browser, inbox>>

\* After five minutes the button is there again.
ShowResend(t) ==
    /\ IsWaiting(tabs[t]) /\ MaxTriesReached(tabs[t])
    /\ Set(t, [tabs[t] EXCEPT !.tries = 0])
    /\ UNCHANGED <<setup, server, browser, inbox>>

(***************************************************************************)
(* The link.                                                               *)
(***************************************************************************)
OpenLink(t, n, b) ==
    /\ server.tokens[n] # "none" /\ b \in MayOpenIn(t)
    /\ Set(t, [NewTab(BrokerContext(b), VerificationFlow(b).keys, VerificationFlow(b).state, "complete_reset_password")
                   EXCEPT !.where = b, !.step = "loading", !.token = n, !.marker = tabs[t].marker, !.asked = tabs[t].asked,
                          !.redirected = tabs[t].redirected])
    /\ inbox' = [inbox EXCEPT ![t] = <<>>]
    /\ UNCHANGED <<setup, server, browser>>

\* beforeRender: what the user gets to see, given whether the token is there
\* and what the user said of a recovery key.
\* Mutant: a user who has a recovery key gets the form at once.
LinkScreenWithoutKey(tab) ==
    IF tab.kB \/ tab.lost THEN "form"
    ELSE IF IsPasswordResetComplete(tab.token) THEN "expired" ELSE "form"

LinkScreen(tab) ==
    IF tab.kB \/ tab.lost THEN "form"
    ELSE IF IsPasswordResetComplete(tab.token) THEN "expired"
    ELSE IF server.recoveryKey THEN "key" ELSE "form"

Rendered(tab) ==
    CASE LinkScreen(tab) = "key"     -> ShowPage(tab, "account_recovery_confirm_key")
      [] LinkScreen(tab) = "expired" -> [tab EXCEPT !.step = "expired"]
      [] OTHER                       -> [tab EXCEPT !.step = "ready"]

\* afterVisible tells the other tabs, also when the link is expired.
LinkLoaded(t) ==
    /\ tabs[t].page \in FormPages /\ tabs[t].step = "loading"
    /\ Set(t, Rendered(tabs[t]))
    /\ IF LinkScreen(tabs[t]) = "key" THEN UNCHANGED inbox ELSE TriggerRemote(t, [name |-> "tab open", late |-> server.resetWith # {}])
    /\ UNCHANGED <<setup, server, browser>>

\* The screen for the recovery key reads the link again and is not told of
\* a token that is gone before it uses it.
LostRecoveryKey(t) ==
    /\ tabs[t].page = "account_recovery_confirm_key" /\ tabs[t].step \in {"ready", "expired"}
    /\ Set(t, [ShowPage(tabs[t], "complete_reset_password") EXCEPT !.step = "loading", !.lost = TRUE])
    /\ UNCHANGED <<setup, server, browser, inbox>>

Exchange(n) == server' = [server EXCEPT !.tokens[n] = "exchanged", !.resetToken = n]

\* The token is exchanged once; what it was exchanged for is kept for a
\* second key.
VerifyCode(t) ==
    /\ tabs[t].page = "account_recovery_confirm_key" /\ tabs[t].step = "ready"
    /\ CASE tabs[t].resetToken # 0 -> Set(t, [tabs[t] EXCEPT !.step = "keyed"]) /\ UNCHANGED server
         [] tabs[t].resetToken = 0 /\ server.tokens[tabs[t].token] = "valid" ->
                /\ Set(t, [tabs[t] EXCEPT !.step = "keyed", !.resetToken = tabs[t].token])
                /\ Exchange(tabs[t].token)
         [] OTHER -> Set(t, [tabs[t] EXCEPT !.step = "expired"]) /\ UNCHANGED server
    /\ UNCHANGED <<setup, browser, inbox>>

BundleOf(tab) == IF server.resetToken = tab.resetToken THEN {"right", "wrong"} ELSE {"invalid"}

GetRecoveryBundle(t) ==
    /\ tabs[t].page = "account_recovery_confirm_key" /\ tabs[t].step = "keyed"
    /\ \E key \in BundleOf(tabs[t]) :
          Set(t, CASE key = "invalid" -> [tabs[t] EXCEPT !.step = "expired"]
                   [] key = "wrong"   -> [tabs[t] EXCEPT !.step = "ready"]
                   [] key = "right"   -> [ShowPage(tabs[t], "account_recovery_reset_password")
                                              EXCEPT !.step = "loading", !.kB = TRUE])
    /\ UNCHANGED <<setup, server, browser, inbox>>

(***************************************************************************)
(* The new password.  A token that is gone shows the screen anew, without  *)
(* the recovery key.                                                       *)
(***************************************************************************)
InvalidToken(tab) == Rendered([tab EXCEPT !.kB = FALSE])

SubmitReset(t) ==
    /\ tabs[t].page \in FormPages /\ tabs[t].step = "ready"
    /\ CASE tabs[t].kB -> Set(t, [tabs[t] EXCEPT !.step = "resetting"]) /\ UNCHANGED server
         [] ~tabs[t].kB /\ server.tokens[tabs[t].token] = "valid" ->
                /\ Set(t, [tabs[t] EXCEPT !.step = "resetting", !.resetToken = tabs[t].token])
                /\ Exchange(tabs[t].token)
         [] OTHER -> Set(t, InvalidToken(tabs[t])) /\ UNCHANGED server
    /\ UNCHANGED <<setup, browser, inbox>>

\* What the server answers: a new session, and what it still needs.
NewSession(tab) ==
    [email |-> "user", uid |-> "user", session |-> 1, keys |-> tab.keys, verified |-> ~setup.totp,
     method |-> IF setup.totp THEN "totp-2fa" ELSE "none", reason |-> IF setup.totp THEN "login" ELSE "none"]

\* Accounts that only live in memory are not found by the other tab.
Stored(tab) == ~(HasCapability(tab.broker, "fxaStatus") /\ setup.service = "sync")

SignedIn(tab, account) ==
    [name |-> "signed in", keys |-> account.keys, verified |-> account.verified /\ Stored(tab)]

VerifiedPage(tab) == IF tab.kB THEN "reset_password_with_recovery_key_verified" ELSE "reset_password_verified"

Completed(t, account) ==
    LET tab == [tabs[t] EXCEPT !.reset = TRUE]
        answer == AfterCompleteResetPassword(tab.broker, account)
        told == [tab EXCEPT !.broker = answer[1]]
    IN  IF FinishesInLinkTab(tab, account)
            THEN /\ \E ok \in BOOLEAN : Set(t, FinishOAuthFlow(told, ok))
                 /\ browser' = SessionClear(t)
            ELSE /\ Set(t, Follow(told, OAuthBehavior(tab, account, answer), account, VerifiedPage(tab)))
                 /\ UNCHANGED browser

\* The server resets the account, refuses to, or the request does not reach it.
AccountReset(t) ==
    /\ tabs[t].page \in FormPages /\ tabs[t].step = "resetting"
    /\ \/ /\ server.resetToken = tabs[t].resetToken
          /\ server' = [server EXCEPT !.resetToken = 0, !.resetWith = @ \cup {tabs[t].token},
                                      !.kB = IF tabs[t].kB THEN @ ELSE "new", !.recoveryKey = FALSE]
          /\ Set(t, [tabs[t] EXCEPT !.step = "reset"])
       \/ /\ server.resetToken # tabs[t].resetToken
          /\ Set(t, InvalidToken(tabs[t])) /\ UNCHANGED server
       \/ Set(t, [tabs[t] EXCEPT !.step = "ready"]) /\ UNCHANGED server
    /\ UNCHANGED <<setup, browser, inbox>>

\* The answer of a reset that was made comes, or is lost.
ResetAnswered(t) ==
    /\ tabs[t].page \in FormPages /\ tabs[t].step = "reset"
    /\ \/ /\ server' = [server EXCEPT !.answered = @ \cup {<<BrowserOf(t), tabs[t].token>>}]
          /\ TriggerRemote(t, SignedIn(tabs[t], NewSession(tabs[t])))
          /\ Completed(t, NewSession(tabs[t]))
       \/ Set(t, [tabs[t] EXCEPT !.step = "ready"]) /\ UNCHANGED <<server, browser, inbox>>
    /\ UNCHANGED setup

(***************************************************************************)
(* The user closes or reloads a tab; a token grows old.                    *)
(***************************************************************************)
Close(t) ==
    /\ t = "other" /\ tabs[t].page # "none"
    /\ Set(t, [NewTab("web", FALSE, FALSE, "none") EXCEPT !.redirected = tabs[t].redirected, !.asked = tabs[t].asked])
    /\ inbox' = [inbox EXCEPT ![t] = <<>>]
    /\ UNCHANGED <<setup, server, browser>>

\* The model of a screen is gone: the address of the link is all that is left.
Reload(t) ==
    /\ inbox' = [inbox EXCEPT ![t] = <<>>]
    /\ \/ /\ tabs[t].page = "confirm_reset_password"
          /\ Set(t, ShowPage(tabs[t], "reset_password"))
       \/ /\ tabs[t].page \in FormPages
          /\ Set(t, [tabs[t] EXCEPT !.step = "loading", !.kB = FALSE, !.lost = FALSE, !.resetToken = 0])
       \/ /\ tabs[t].page = "account_recovery_confirm_key"
          /\ Set(t, [tabs[t] EXCEPT !.step = "ready", !.resetToken = 0])
    /\ UNCHANGED <<setup, server, browser>>

TokenExpires(n) ==
    /\ server.tokens[n] = "valid"
    /\ server' = [server EXCEPT !.tokens[n] = "expired"]
    /\ UNCHANGED <<setup, browser, tabs, inbox>>

Next ==
    \/ \E t \in Tabs :
          \/ Submit(t) \/ ResendLink(t) \/ RememberPassword(t)
          \/ ConfirmLoaded(t) \/ PollAnswered(t) \/ PollFails(t) \/ TimerFires(t)
          \/ TabOpened(t) \/ SignedInElsewhere(t) \/ Resend(t) \/ ShowResend(t)
          \/ LinkLoaded(t) \/ LostRecoveryKey(t) \/ VerifyCode(t) \/ GetRecoveryBundle(t)
          \/ SubmitReset(t) \/ AccountReset(t) \/ ResetAnswered(t) \/ Close(t) \/ Reload(t)
          \/ \E n \in 1..MaxTokens, b \in Browsers : OpenLink(t, n, b)
    \/ \E n \in 1..MaxTokens : TokenExpires(n)

\* A tab goes on by itself: requests are answered, timers fire, messages come.
Fairness ==
    \A t \in Tabs :
       /\ WF_vars(ConfirmLoaded(t)) /\ WF_vars(PollAnswered(t) \/ PollFails(t)) /\ WF_vars(TimerFires(t))
       /\ WF_vars(TabOpened(t)) /\ WF_vars(SignedInElsewhere(t))

Spec == Init /\ [][Next]_vars /\ Fairness

(***************************************************************************)
(* Properties.                                                             *)
(***************************************************************************)
\* The relying party gets the user back from one tab only: two tabs redirect
\* only when the reset was asked for in both of them (the marker of the
\* original tab, oauth-redirect.js:322).
OneTabRedirects ==
    (\A t \in Tabs : tabs[t].redirected) => \A t \in Tabs : tabs[t].asked

\* The encryption key of an account is only given up by a user who said that
\* the recovery key is lost, or who never had one (complete_reset_password.js:95).
KeysSurviveUnlessLost ==
    [][server'.kB # server.kB => ~server.recoveryKey \/ \E t \in Tabs : tabs[t].lost /\ tabs[t].step = "resetting"]_vars

\* A browser that Sync runs in is told of the session of a reset made in it:
\* by the tab of the link, or for iOS by the tab that waited.
BrowserIsToldOfReset ==
    \A t \in Tabs :
       LET Told == \E i \in DOMAIN tabs[t].broker.sent :
                       tabs[t].broker.sent[i].command = "LOGIN" /\ tabs[t].broker.sent[i].keys
       IN  /\ (tabs[t].broker.context \in WebChannelContexts /\ tabs[t].reset /\ ~setup.totp) => Told
           /\ (tabs[t].broker.context = "fx_ios_v1" /\ setup.service = "sync" /\ t = "asking"
                  /\ tabs[t].page \in {"halted", "reset_password_confirmed"}) => Told

WaitsFor(t, n) == IsWaiting(tabs[t]) /\ tabs[t].token = n

\* A tab that asks the server notices that the reset was made, wherever that
\* was, unless a link is opened in its browser: then it stops asking.
PollNotices ==
    \A n \in 1..MaxTokens : \A t \in Tabs :
       n \in server.resetWith /\ WaitsFor(t, n) ~> tabs[t].login \/ ~WaitsFor(t, n)

\* Whether it asks or waits for word, a tab notices a reset that a tab of its
\* browser had the answer of.  Only a link that is opened when a reset has been
\* made ("late") can stop the questions for an answer that will not come.
TabsNotice ==
    \A n \in 1..MaxTokens : \A t \in Tabs :
       <<BrowserOf(t), n>> \in server.answered /\ WaitsFor(t, n) ~> tabs[t].late \/ ~WaitsFor(t, n)

\* No tab waits on for a reset its browser knows of, nor while it asks.  One that
\* stopped asking waits for ever when the reset is made in another browser or
\* its answer is lost (confirm_reset_password.js:140).
ResetIsNoticed == PollNotices /\ TabsNotice

\* The browser and the relying party hear of the reset, from one tab of the two
\* (oauth-redirect.js:323, confirm_reset_password.js:151).
ResetIsReported == TypeOK /\ OneTabRedirects /\ BrowserIsToldOfReset

=============================================================================
