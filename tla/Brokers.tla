------------------------------- MODULE Brokers -------------------------------
(***************************************************************************)
(* The authentication brokers (models/auth_brokers) and the behaviors they *)
(* answer with (views/behaviors).  A broker tells a view what is next when *)
(* a step of a flow is over, and tells the browser or the relying party    *)
(* what happened.  A subclass is its parent with some of the entries of    *)
(* its tables replaced and some of its methods preceded by a message.      *)
(*                                                                         *)
(* A broker is a record: its context, its capabilities and behaviors, the  *)
(* e-mail the browser agreed to (_verifiedCanLinkEmail), the account it    *)
(* was told of (_uidOfLoginNotification) and what was sent.                *)
(***************************************************************************)
EXTENDS Naturals, Sequences

SyncContexts == {"fx_sync", "fx_desktop_v3", "fx_fennec_v1", "fx_firstrun_v1", "fx_firstrun_v2", "fx_ios_v1"}

OAuthContexts == {"oauth", "oauth_chrome_android"}

Contexts == SyncContexts \cup OAuthContexts \cup {"web"}

\* An unknown context gets the broker of the content server itself.
Get(context) == IF context \in Contexts THEN context ELSE "web"

\* The contexts below fx-sync-web-channel and below fx-sync-channel.
WebChannelContexts == SyncContexts \ {"fx_sync", "fx_ios_v1"}

ChannelContexts == SyncContexts \ {"fx_sync"}

FirstrunContexts == {"fx_firstrun_v1", "fx_firstrun_v2"}

(***************************************************************************)
(* Behaviors.                                                              *)
(***************************************************************************)
Null == [type |-> "null"]

Halt == [type |-> "halt"]

Navigate(endpoint) == [type |-> "navigate", to |-> endpoint]

SettingsIfSignedIn(default) == [type |-> "settings", default |-> default]

ConnectAnotherDevice(default) == [type |-> "connect-another-device", default |-> default]

HaltIfBrowserTransitions(default) == [type |-> "halt-if-browser-transitions", default |-> default]

(***************************************************************************)
(* invokeBehavior: a behavior is called until what it gives is no behavior *)
(* any more.  who tells what the view knows: whether the session is valid, *)
(* whether another account is signed in, and where a link asked to go.     *)
(***************************************************************************)
SettingsPage(redirectTo) == IF redirectTo = "none" THEN "settings" ELSE redirectTo

Call1(behavior, caps, who) ==
    CASE behavior.type = "settings" ->
             IF who.signedIn THEN Navigate(SettingsPage(who.redirectTo)) ELSE behavior.default
      [] behavior.type = "connect-another-device" ->
             IF who.another THEN behavior.default ELSE Navigate("connect_another_device")
      [] behavior.type = "halt-if-browser-transitions" ->
             IF "browserTransitionsAfterEmailVerification" \in caps THEN Halt ELSE behavior.default
      [] OTHER -> behavior

\* No table nests more than three.
InvokeBehavior(behavior, caps, who) == Call1(Call1(Call1(behavior, caps, who), caps, who), caps, who)

\* Where the view ends up: at a page, halted for ever, or where it was.
Destination(behavior, caps, who, page) ==
    LET end == InvokeBehavior(behavior, caps, who)
    IN  CASE end.type = "navigate" -> end.to
          [] end.type = "halt"     -> "halted"
          [] OTHER                 -> page

(***************************************************************************)
(* The tables of behaviors.                                                *)
(***************************************************************************)
BaseBehaviors ==
    [afterChangePassword                |-> Null,
     afterCompletePrimaryEmail          |-> SettingsIfSignedIn(Navigate("primary_email_verified")),
     afterCompleteResetPassword         |-> Null,
     afterCompleteSecondaryEmail        |-> SettingsIfSignedIn(Navigate("secondary_email_verified")),
     afterCompleteSignIn                |-> Navigate("signin_verified"),
     afterCompleteSignInWithCode        |-> Navigate("settings"),
     afterCompleteSignUp                |-> Navigate("signup_verified"),
     afterDeleteAccount                 |-> Null,
     afterForceAuth                     |-> Navigate("signin_confirmed"),
     afterResetPasswordConfirmationPoll |-> Null,
     afterSignIn                        |-> Navigate("signin_confirmed"),
     afterSignInConfirmationPoll        |-> Navigate("signin_confirmed"),
     afterSignUp                        |-> Navigate("confirm"),
     afterSignUpConfirmationPoll        |-> Navigate("signup_confirmed"),
     afterSignUpRequireTOTP             |-> Navigate("signin"),
     beforeSignIn                       |-> Null,
     beforeSignUpConfirmationPoll       |-> Null]

SyncBehaviors ==
    [BaseBehaviors EXCEPT !.afterCompleteSignIn = ConnectAnotherDevice(@),
                          !.afterCompleteSignUp = ConnectAnotherDevice(@),
                          !.afterSignIn = ConnectAnotherDevice(@)]

DesktopBehaviors ==
    [SyncBehaviors EXCEPT !.afterForceAuth = HaltIfBrowserTransitions(@),
                          !.afterResetPasswordConfirmationPoll = HaltIfBrowserTransitions(@),
                          !.afterSignIn = HaltIfBrowserTransitions(@),
                          !.afterSignInConfirmationPoll = HaltIfBrowserTransitions(@),
                          !.afterSignUpConfirmationPoll = HaltIfBrowserTransitions(@)]

IosBehaviors ==
    [SyncBehaviors EXCEPT !.afterForceAuth = Halt,
                          !.afterResetPasswordConfirmationPoll = Halt,
                          !.afterSignIn = Halt]

WebBehaviors ==
    [BaseBehaviors EXCEPT !.afterCompleteResetPassword = Navigate("settings"),
                          !.afterCompleteSignIn = SettingsIfSignedIn(@),
                          !.afterCompleteSignUp = SettingsIfSignedIn(@),
                          !.afterForceAuth = Navigate("settings"),
                          !.afterResetPasswordConfirmationPoll = Navigate("settings"),
                          !.afterSignIn = Navigate("settings"),
                          !.afterSignInConfirmationPoll = Navigate("settings"),
                          !.afterSignUpConfirmationPoll = Navigate("settings")]

OAuthBehaviors ==
    [BaseBehaviors EXCEPT !.afterForceAuth = Halt,
                          !.afterSignIn = Halt,
                          !.afterSignInConfirmationPoll = Halt]

DefaultBehaviors(context) ==
    IF context = "fx_desktop_v3" THEN DesktopBehaviors
    ELSE IF context = "fx_ios_v1" THEN IosBehaviors
    ELSE IF context \in SyncContexts THEN SyncBehaviors
    ELSE IF context \in OAuthContexts THEN OAuthBehaviors
    ELSE WebBehaviors

\* A broker keeps the behaviors that differ from those of its context.
GetBehavior(b, name) ==
    IF name \in DOMAIN b.behaviors THEN b.behaviors[name] ELSE DefaultBehaviors(b.context)[name]

SetBehavior(b, name, behavior) ==
    [b EXCEPT !.behaviors = [n \in DOMAIN @ \cup {name} |-> IF n = name THEN behavior ELSE @[n]]]

(***************************************************************************)
(* The tables of capabilities: the set of those that are there.            *)
(***************************************************************************)
BaseCapabilities ==
    {"browserTransitionsAfterEmailVerification", "chooseWhatToSyncCheckbox",
     "emailVerificationMarketingSnippet", "handleSignedInNotification", "signup"}

ChannelCapabilities == BaseCapabilities \cup {"sendChangePasswordNotice"}

WebChannelCapabilities == ChannelCapabilities \ {"sendChangePasswordNotice"}

DesktopCapabilities ==
    (WebChannelCapabilities \ {"chooseWhatToSyncCheckbox"})
        \cup {"chooseWhatToSyncWebV1", "openWebmailButtonVisible", "allowUidChange", "emailFirst"}

FennecCapabilities ==
    (WebChannelCapabilities \ {"browserTransitionsAfterEmailVerification",
                               "chooseWhatToSyncCheckbox", "emailVerificationMarketingSnippet"})
        \cup {"chooseWhatToSyncWebV1"}

FirstrunV1Capabilities ==
    (WebChannelCapabilities \ {"browserTransitionsAfterEmailVerification"})
        \cup {"openWebmailButtonVisible"}

FirstrunV2Capabilities ==
    (FirstrunV1Capabilities \ {"chooseWhatToSyncCheckbox"}) \cup {"chooseWhatToSyncWebV1"}

IosCapabilities ==
    (ChannelCapabilities \ {"chooseWhatToSyncCheckbox"})
        \cup {"chooseWhatToSyncWebV1", "convertExternalLinksToText"}

WebCapabilities == BaseCapabilities \cup {"reuseExistingSession"}

OAuthCapabilities ==
    (BaseCapabilities \ {"handleSignedInNotification"}) \cup {"reuseExistingSession", "tokenCode"}

DefaultCapabilities(context) ==
    CASE context = "fx_desktop_v3"  -> DesktopCapabilities
      [] context = "fx_fennec_v1"   -> FennecCapabilities
      [] context = "fx_firstrun_v1" -> FirstrunV1Capabilities
      [] context = "fx_firstrun_v2" -> FirstrunV2Capabilities
      [] context = "fx_ios_v1"      -> IosCapabilities
      [] context = "fx_sync"        -> BaseCapabilities
      [] context = "web"            -> WebCapabilities
      [] OTHER                      -> OAuthCapabilities

HasCapability(b, name) == name \in b.caps

(***************************************************************************)
(* initialize and fetch: what the browser is decides.  browser tells       *)
(* whether it is Firefox 58 or later, whether the page is in               *)
(* about:accounts, whether it is iOS 11 or later, whether it answers       *)
(* fxa_status, and what it answers; halt is haltAfterSignIn of the link.   *)
(***************************************************************************)
FetchDesktop(caps, browser) ==
    IF browser.modern \/ ~browser.aboutAccounts
        THEN caps \ {"browserTransitionsAfterEmailVerification"}
        ELSE caps

InitializeIos(caps, browser) ==
    IF browser.modern THEN caps ELSE caps \ {"chooseWhatToSyncWebV1"}

\* The Sync brokers replace the handler that would note supportsPairing.
OnFxaStatus(context, caps, browser) ==
    IF browser.pairing /\ context \notin SyncContexts THEN caps \cup {"supportsPairing"} ELSE caps

Fetch(context, caps, browser) ==
    CASE browser.fxaStatus = "none"        -> caps
      [] browser.fxaStatus = "unsupported" -> caps
      [] OTHER                             -> OnFxaStatus(context, caps \cup {"fxaStatus"}, browser)

FetchFirstrun(context, browser) ==
    IF context \in FirstrunContexts /\ browser.halt THEN [afterSignIn |-> Halt] ELSE <<>>

NewBroker(context, browser) ==
    LET caps == Fetch(context, DefaultCapabilities(context), browser)
    IN  [context   |-> context,
         caps      |-> CASE context = "fx_desktop_v3" -> FetchDesktop(caps, browser)
                         [] context = "fx_ios_v1"     -> InitializeIos(caps, browser)
                         [] OTHER                     -> caps,
         behaviors |-> FetchFirstrun(context, browser),
         canLink   |-> "none",
         told      |-> "none",
         sent      |-> <<>>]

(***************************************************************************)
(* Messages.                                                               *)
(***************************************************************************)
Send(b, command, account) ==
    [b EXCEPT !.sent = Append(@, [command |-> command, email |-> account.email, uid |-> account.uid,
                                  keys |-> account.keys, verified |-> account.verified,
                                  canLink |-> b.canLink # "none"])]

HasRequiredLoginFields(account) == account.keys /\ account.session # 0 /\ account.uid # "none"

NotifyRelierOfLogin(b, account) ==
    IF b.context \in ChannelContexts /\ HasRequiredLoginFields(account) /\ account.uid # b.told
        THEN Send([b EXCEPT !.told = account.uid], "LOGIN", account)
        ELSE b

\* The firstrun page around the frame is told too.
NotifyIframe(b, command, account) ==
    IF b.context \in FirstrunContexts THEN Send(b, command, account) ELSE b

(***************************************************************************)
(* The methods: the broker after one, and the behavior it answers with.    *)
(* Only the Sync brokers ask before a sign in, once per e-mail.            *)
(***************************************************************************)
\* Mutant: once for all e-mails.
MustAskOnce(b, email) == b.context \in ChannelContexts /\ b.canLink = "none"

MustAsk(b, email) == b.context \in ChannelContexts /\ b.canLink # email

BeforeSignIn(b, email) == [b EXCEPT !.canLink = IF b.context \in ChannelContexts THEN email ELSE @]

AfterSignIn(b, account) ==
    <<NotifyRelierOfLogin(NotifyIframe(b, "iframe_login", account), account), GetBehavior(b, "afterSignIn")>>

AfterForceAuth(b, account) == <<NotifyRelierOfLogin(b, account), GetBehavior(b, "afterForceAuth")>>

BeforeSignUpConfirmationPoll(b, account) ==
    <<NotifyRelierOfLogin(NotifyIframe(b, "signup_must_verify", account), account),
      GetBehavior(b, "beforeSignUpConfirmationPoll")>>

\* Where the browser does not take over, the next screen is about other devices.
TakenOver(b, behavior) ==
    IF b.context \in SyncContexts /\ ~HasCapability(b, "browserTransitionsAfterEmailVerification")
        THEN ConnectAnotherDevice(behavior)
        ELSE behavior

AfterSignInConfirmationPoll(b, account) ==
    <<NotifyIframe(b, "verification_complete", account),
      TakenOver(b, GetBehavior(b, "afterSignInConfirmationPoll"))>>

AfterSignUpConfirmationPoll(b, account) ==
    <<NotifyRelierOfLogin(NotifyIframe(b, "verification_complete", account), account),
      TakenOver(b, GetBehavior(b, "afterSignUpConfirmationPoll"))>>

AfterSignUp(b, account) ==
    IF account.verified THEN AfterSignUpConfirmationPoll(b, account) ELSE <<b, GetBehavior(b, "afterSignUp")>>

\* Below fx-sync-web-channel this is the end of a confirmation, without the
\* message to the firstrun page; elsewhere it is the settings.
AfterCompleteSignInWithCode(b, account) ==
    <<NotifyRelierOfLogin(b, account),
      IF b.context \in WebChannelContexts
          THEN TakenOver(b, GetBehavior(b, "afterSignInConfirmationPoll"))
          ELSE GetBehavior(b, "afterCompleteSignInWithCode")>>

\* A second factor is asked for after the password is reset.
NeedsTotp(account) == account.method = "totp-2fa" /\ account.reason = "login"

SignedInByReset(account) == account.verified /\ account.reason = "none" /\ account.method = "none"

AfterResetPasswordConfirmationPoll(b, account) ==
    <<IF b.context = "fx_ios_v1" THEN NotifyRelierOfLogin(b, account)
      ELSE NotifyIframe(b, "verification_complete", account),
      IF NeedsTotp(account) THEN Navigate("signin_totp_code")
      ELSE GetBehavior(b, "afterResetPasswordConfirmationPoll")>>

AfterCompleteResetPassword(b, account) ==
    <<IF b.context \in WebChannelContexts /\ SignedInByReset(account)
          THEN NotifyRelierOfLogin(b, account) ELSE b,
      IF NeedsTotp(account) THEN Navigate("signin_totp_code")
      ELSE GetBehavior(b, "afterCompleteResetPassword")>>

=============================================================================
