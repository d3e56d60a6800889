------------------------ MODULE EmailLinks_proofs ------------------------
(***************************************************************************)
(* Theorems about the two modules in which a link of an e-mail is opened:  *)
(* ResetPassword and Links.                                                *)
(*                                                                         *)
(* ResetPassword, for any number of resets, tries and messages, any        *)
(* browser and any place the link is opened in.  What holds of one tab at  *)
(* a time (TabOK) is inductive, given what the messages on their way say   *)
(* and what the browser has stored.  A tab goes back to the relying party  *)
(* only with the marker or the wait that asking gave it, so that both      *)
(* tabs go back only if both asked.  A broker that remembers an account    *)
(* told the browser of it, with keys.  A form without the key of the       *)
(* account is only shown to a user without a recovery key, or who lost     *)
(* it.                                                                     *)
(*                                                                         *)
(* Links, for any scenarios, telephone numbers and number of resends.      *)
(* What holds of the tab of the link (LinkTabOK) is inductive, given what  *)
(* the browser has stored, what the server knows and what the other tabs   *)
(* heard.  A verified link with a session told the other tabs; an          *)
(* original tab, or one that polls, has not yet gone back to the relying   *)
(* party; the screens of a text message are of a country that takes part,  *)
(* and what is on its way is a normalised number of that country; a link   *)
(* that replaced the tab that asked finishes its flow.                     *)
(***************************************************************************)
EXTENDS ResetPassword, Links, FiniteSetTheorems, TLAPS

-----------------------------------------------------------------------------
(***************************************************************************)
(* What is true of one tab, and of what the tabs share.                    *)
(***************************************************************************)
Commands == {"LOGIN", "iframe_login", "verification_complete"}

Sent == [command : Commands, email : {"user"}, uid : {"user"}, keys : BOOLEAN, verified : BOOLEAN, canLink : BOOLEAN]

\* The browser was told of a session with its keys.
Told(b) == \E i \in DOMAIN b.sent : b.sent[i].command = "LOGIN" /\ b.sent[i].keys

BrokerShape(b) ==
    /\ DOMAIN b = {"context", "caps", "behaviors", "canLink", "told", "sent"}
    /\ b.context \in Contexts
    /\ DOMAIN b.behaviors \subseteq {"afterSignIn"}
    /\ b.sent \in Seq(Sent)
    /\ b.context \in SyncContexts => setup.service = "sync"

BrokerOK(b) == BrokerShape(b) /\ (b.told # "none" => Told(b))

TabShape(tab) ==
    DOMAIN tab = {"page", "step", "token", "broker", "keys", "state", "marker", "poll", "login", "lost", "kB",
                  "resetToken", "hasRecoveryKey", "late", "tries", "says", "asked", "redirected", "reset", "where"}

TabType(tab) ==
    /\ tab.page \in Pages /\ tab.where \in Browsers
    /\ tab.step \in {"loading", "ready", "expired", "resetting", "reset", "keyed", "stopped"}
    /\ tab.poll \in {"off", "request", "timer", "stale"}
    /\ tab.token \in 0..MaxTokens /\ tab.resetToken \in 0..MaxTokens
    /\ tab.tries \in 0..MaxTries
    /\ tab.says \in {"nothing", "reset"}
    /\ tab.keys \in BOOLEAN /\ tab.state \in BOOLEAN /\ tab.marker \in BOOLEAN /\ tab.login \in BOOLEAN
    /\ tab.late \in BOOLEAN /\ tab.lost \in BOOLEAN /\ tab.kB \in BOOLEAN /\ tab.hasRecoveryKey \in BOOLEAN
    /\ tab.asked \in BOOLEAN /\ tab.redirected \in BOOLEAN /\ tab.reset \in BOOLEAN

\* What goes back to the relying party comes of asking.
ComesOfAsking(tab) ==
    /\ tab.page = "confirm_reset_password" \/ tab.marker \/ tab.login \/ tab.redirected => tab.asked
    /\ tab.login => tab.page # "none"

\* The screens of a link have its token.
HasToken(tab) == tab.page \in LinkPages => tab.token # 0

WantsKeys(tab) == setup.service = "sync" /\ tab.page # "none" => tab.keys

\* A form that would give up the key of the account.
FormIsAllowed(tab) ==
    tab.page \in FormPages /\ tab.step \in {"ready", "resetting", "reset"} /\ ~tab.kB => tab.lost \/ ~server.recoveryKey

\* The last screens of an asking tab, and of a halted one.
Last == {"halted", "reset_password_confirmed"}

TellsBrowser(t, tab) ==
    /\ tab.broker.context \in WebChannelContexts /\ tab.reset /\ ~setup.totp => Told(tab.broker)
    /\ tab.broker.context = "fx_ios_v1" /\ setup.service = "sync" /\ t = "asking" /\ tab.page \in Last
          => Told(tab.broker)

TabOK(t, tab) ==
    /\ TabShape(tab) /\ TabType(tab) /\ BrokerOK(tab.broker)
    /\ ComesOfAsking(tab) /\ HasToken(tab) /\ WantsKeys(tab) /\ FormIsAllowed(tab) /\ TellsBrowser(t, tab)

TabsOK == DOMAIN tabs = Tabs /\ \A t \in Tabs : TabOK(t, tabs[t])

ServerOK ==
    /\ DOMAIN server = {"tokens", "resetToken", "recoveryKey", "kB", "resetWith", "answered"}
    /\ server.tokens \in [1..MaxTokens -> {"none", "valid", "exchanged", "expired"}]
    /\ server.resetToken \in 0..MaxTokens /\ server.recoveryKey \in BOOLEAN
    /\ server.kB \in {"old", "new"} /\ server.resetWith \subseteq 1..MaxTokens
    /\ server.answered \subseteq Browsers \X (1..MaxTokens)

\* The context that is stored is that of a tab.
BrowserOK ==
    /\ browser \in [Browsers -> [context : Contexts \cup {"none"}, oauth : BOOLEAN]]
    /\ \A b \in Browsers : browser[b].context \in SyncContexts => setup.service = "sync"

Messages ==
    [name : {"tab open"}, late : BOOLEAN] \cup [name : {"signed in"}, keys : BOOLEAN, verified : BOOLEAN]

InboxOK ==
    /\ inbox \in [Tabs -> Seq(Messages)]
    /\ \A t \in Tabs : \A i \in DOMAIN inbox[t] :
          inbox[t][i].name = "signed in" /\ setup.service = "sync" => inbox[t][i].keys

IInv == setup \in Scenarios /\ TabsOK /\ ServerOK /\ BrowserOK /\ InboxOK

-----------------------------------------------------------------------------
(***************************************************************************)
(* Brokers.  Sending keeps what was sent; a notice of a login is one the   *)
(* browser is told of with keys.                                           *)
(***************************************************************************)
AccountOK(account) ==
    account.email = "user" /\ account.uid = "user" /\ account.keys \in BOOLEAN /\ account.verified \in BOOLEAN

\* The same broker, which has sent what it had, or more.
Follows(c, b) == c.context = b.context /\ (Told(b) => Told(c))

LEMMA SendOK ==
    ASSUME NEW b, BrokerShape(b), NEW command \in Commands, NEW account, AccountOK(account),
           b.told # "none" => Told(b) \/ (command = "LOGIN" /\ account.keys)
    PROVE  LET c == Send(b, command, account)
           IN  BrokerOK(c) /\ Follows(c, b) /\ (command = "LOGIN" /\ account.keys => Told(c))
<1> DEFINE m == [command |-> command, email |-> account.email, uid |-> account.uid, keys |-> account.keys,
                 verified |-> account.verified, canLink |-> b.canLink # "none"]
           c == Send(b, command, account)
<1>1. m \in Sent BY DEF AccountOK, Sent
<1>2. c.sent = Append(b.sent, m) /\ c.context = b.context /\ c.behaviors = b.behaviors /\ c.told = b.told
  BY DEF Send, BrokerShape
<1>3. DOMAIN c = {"context", "caps", "behaviors", "canLink", "told", "sent"} BY DEF Send, BrokerShape
<1>4. b.sent \in Seq(Sent) BY DEF BrokerShape
<1>5. /\ c.sent \in Seq(Sent) /\ c.sent[Len(b.sent) + 1] = m /\ Len(b.sent) + 1 \in DOMAIN c.sent
      /\ \A i \in DOMAIN b.sent : i \in DOMAIN c.sent /\ c.sent[i] = b.sent[i]
  BY <1>1, <1>2, <1>4
<1>6. Told(b) => Told(c) BY <1>5 DEF Told
<1>7. command = "LOGIN" /\ account.keys => Told(c)
  <2> SUFFICES ASSUME command = "LOGIN", account.keys PROVE Told(c) OBVIOUS
  <2>1. m.command = "LOGIN" /\ m.keys OBVIOUS
  <2> QED BY <2>1, <1>5 DEF Told
<1>8. BrokerOK(c) BY <1>2, <1>3, <1>5, <1>6, <1>7 DEF BrokerOK, BrokerShape
<1> QED BY <1>2, <1>6, <1>7, <1>8 DEF Follows

LEMMA NotifyIframeOK ==
    ASSUME NEW b, BrokerOK(b), NEW command \in Commands, NEW account, AccountOK(account)
    PROVE  BrokerOK(NotifyIframe(b, command, account)) /\ Follows(NotifyIframe(b, command, account), b)
  BY SendOK DEF NotifyIframe, Follows, BrokerOK

LEMMA NotifyRelierOK ==
    ASSUME NEW b, BrokerOK(b), NEW account, AccountOK(account), account.session = 1
    PROVE  LET c == NotifyRelierOfLogin(b, account)
           IN  /\ BrokerOK(c) /\ Follows(c, b)
               /\ b.context \in ChannelContexts /\ account.keys => Told(c)
<1>1. account.uid # "none" BY DEF AccountOK
<1>2. CASE b.context \in ChannelContexts /\ HasRequiredLoginFields(account) /\ account.uid # b.told
  <2>1. account.keys BY <1>2 DEF HasRequiredLoginFields
  <2>2. "LOGIN" \in Commands BY DEF Commands
  <2> DEFINE a == [b EXCEPT !.told = account.uid]
  <2>3. BrokerShape(a) /\ a.sent = b.sent /\ a.context = b.context BY DEF BrokerOK, BrokerShape
  <2>4. Told(a) <=> Told(b) BY <2>3 DEF Told
  <2>5. NotifyRelierOfLogin(b, account) = Send(a, "LOGIN", account) BY <1>2 DEF NotifyRelierOfLogin
  <2> HIDE DEF a
  <2>6. LET c == Send(a, "LOGIN", account)
        IN  BrokerOK(c) /\ Follows(c, a) /\ (account.keys => Told(c))
    BY <2>1, <2>2, <2>3, SendOK
  <2> QED BY <2>3, <2>4, <2>5, <2>6 DEF Follows
<1>3. CASE ~(b.context \in ChannelContexts /\ HasRequiredLoginFields(account) /\ account.uid # b.told)
  <2>1. b.context \in ChannelContexts /\ account.keys => Told(b)
    BY <1>1, <1>3 DEF HasRequiredLoginFields, BrokerOK
  <2> QED BY <1>3, <2>1 DEF NotifyRelierOfLogin, Follows
<1> QED BY <1>2, <1>3

\* What the two methods of a reset answer, in any context.
LEMMA ResetBehaviors ==
    ASSUME NEW c \in Contexts
    PROVE  /\ DefaultBehaviors(c)["afterCompleteResetPassword"]
                  = IF c = "web" THEN Navigate("settings") ELSE Null
           /\ DefaultBehaviors(c)["afterResetPasswordConfirmationPoll"]
                  \in {Null, Halt, Navigate("settings"), HaltIfBrowserTransitions(Null)}
<1> DEFINE f == "afterCompleteResetPassword"
           g == "afterResetPasswordConfirmationPoll"
<1>1. BaseBehaviors[f] = Null /\ BaseBehaviors[g] = Null BY DEF BaseBehaviors
<1>2. SyncBehaviors[f] = Null /\ SyncBehaviors[g] = Null BY DEF SyncBehaviors, BaseBehaviors
<1>3. DesktopBehaviors[f] = Null /\ DesktopBehaviors[g] = HaltIfBrowserTransitions(Null)
  BY <1>2 DEF DesktopBehaviors, SyncBehaviors, BaseBehaviors
<1>4. IosBehaviors[f] = Null /\ IosBehaviors[g] = Halt
  BY <1>2 DEF IosBehaviors, SyncBehaviors, BaseBehaviors
<1>5. WebBehaviors[f] = Navigate("settings") /\ WebBehaviors[g] = Navigate("settings")
  BY DEF WebBehaviors, BaseBehaviors
<1>6. OAuthBehaviors[f] = Null /\ OAuthBehaviors[g] = Null BY DEF OAuthBehaviors, BaseBehaviors
<1> HIDE DEF f, g
<1>7. /\ DefaultBehaviors(c)[f] = IF c = "web" THEN Navigate("settings") ELSE Null
      /\ DefaultBehaviors(c)[g] \in {Null, Halt, Navigate("settings"), HaltIfBrowserTransitions(Null)}
  BY <1>1, <1>2, <1>3, <1>4, <1>5, <1>6 DEF DefaultBehaviors, Contexts, SyncContexts, OAuthContexts
<1> QED BY <1>7 DEF f, g

LEMMA Destinations ==
    ASSUME NEW caps, NEW who, NEW page, NEW end
    PROVE  /\ Destination(Null, caps, who, page) = page
           /\ Destination(Halt, caps, who, page) = "halted"
           /\ Destination(Navigate(end), caps, who, page) = end
           /\ Destination(HaltIfBrowserTransitions(Null), caps, who, page) \in {"halted", page}
<1>1. Call1(Null, caps, who) = Null BY DEF Call1, Null
<1>2. Call1(Halt, caps, who) = Halt BY DEF Call1, Halt
<1>3. Call1(Navigate(end), caps, who) = Navigate(end) BY DEF Call1, Navigate
<1>4. Call1(HaltIfBrowserTransitions(Null), caps, who) \in {Halt, Null}
  BY DEF Call1, HaltIfBrowserTransitions
<1>5. /\ InvokeBehavior(Null, caps, who) = Null
      /\ InvokeBehavior(Halt, caps, who) = Halt
      /\ InvokeBehavior(Navigate(end), caps, who) = Navigate(end)
      /\ InvokeBehavior(HaltIfBrowserTransitions(Null), caps, who) \in {Halt, Null}
  BY <1>1, <1>2, <1>3, <1>4 DEF InvokeBehavior
<1>6. Null.type = "null" /\ Halt.type = "halt" /\ Navigate(end).type = "navigate" /\ Navigate(end).to = end
  BY DEF Null, Halt, Navigate
<1>7. \A b : Destination(b, caps, who, page) =
                IF InvokeBehavior(b, caps, who).type = "navigate" THEN InvokeBehavior(b, caps, who).to
                ELSE IF InvokeBehavior(b, caps, who).type = "halt" THEN "halted" ELSE page
  BY DEF Destination
<1> QED BY <1>5, <1>6, <1>7

LEMMA CompleteOK ==
    ASSUME NEW b, BrokerOK(b), NEW account, AccountOK(account), account.session = 1
    PROVE  LET r == AfterCompleteResetPassword(b, account)
           IN  /\ BrokerOK(r[1]) /\ Follows(r[1], b)
               /\ b.context \in WebChannelContexts /\ SignedInByReset(account) /\ account.keys => Told(r[1])
               /\ r[2] \in {Null, Navigate("settings"), Navigate("signin_totp_code")}
<1> DEFINE r == AfterCompleteResetPassword(b, account)
<1>1. r[1] = IF b.context \in WebChannelContexts /\ SignedInByReset(account)
                 THEN NotifyRelierOfLogin(b, account) ELSE b
  BY DEF AfterCompleteResetPassword
<1>2. r[2] = IF NeedsTotp(account) THEN Navigate("signin_totp_code")
             ELSE GetBehavior(b, "afterCompleteResetPassword")
  BY DEF AfterCompleteResetPassword
<1>3. GetBehavior(b, "afterCompleteResetPassword") = DefaultBehaviors(b.context)["afterCompleteResetPassword"]
  BY DEF GetBehavior, BrokerOK, BrokerShape
<1>4. WebChannelContexts \subseteq ChannelContexts BY DEF WebChannelContexts, ChannelContexts
<1>5. r[2] \in {Null, Navigate("settings"), Navigate("signin_totp_code")}
  BY <1>2, <1>3, ResetBehaviors DEF BrokerOK, BrokerShape
<1>6. /\ BrokerOK(r[1]) /\ Follows(r[1], b)
      /\ b.context \in WebChannelContexts /\ SignedInByReset(account) /\ account.keys => Told(r[1])
  BY <1>1, <1>4, NotifyRelierOK DEF Follows
<1> QED BY <1>5, <1>6

LEMMA PollOK ==
    ASSUME NEW b, BrokerOK(b), NEW account, AccountOK(account), account.session = 1
    PROVE  LET r == AfterResetPasswordConfirmationPoll(b, account)
           IN  /\ BrokerOK(r[1]) /\ Follows(r[1], b)
               /\ b.context = "fx_ios_v1" /\ account.keys => Told(r[1])
               /\ r[2] \in {Null, Halt, Navigate("settings"), Navigate("signin_totp_code"),
                            HaltIfBrowserTransitions(Null)}
<1> DEFINE r == AfterResetPasswordConfirmationPoll(b, account)
<1>1. r[1] = IF b.context = "fx_ios_v1" THEN NotifyRelierOfLogin(b, account)
             ELSE NotifyIframe(b, "verification_complete", account)
  BY DEF AfterResetPasswordConfirmationPoll
<1>2. r[2] = IF NeedsTotp(account) THEN Navigate("signin_totp_code")
             ELSE GetBehavior(b, "afterResetPasswordConfirmationPoll")
  BY DEF AfterResetPasswordConfirmationPoll
<1>3. GetBehavior(b, "afterResetPasswordConfirmationPoll")
          = DefaultBehaviors(b.context)["afterResetPasswordConfirmationPoll"]
  BY DEF GetBehavior, BrokerOK, BrokerShape
<1>4. "fx_ios_v1" \in ChannelContexts /\ "verification_complete" \in Commands
  BY DEF ChannelContexts, SyncContexts, Commands
<1>5. r[2] \in {Null, Halt, Navigate("settings"), Navigate("signin_totp_code"), HaltIfBrowserTransitions(Null)}
  BY <1>2, <1>3, ResetBehaviors DEF BrokerOK, BrokerShape
<1>6. /\ BrokerOK(r[1]) /\ Follows(r[1], b)
      /\ b.context = "fx_ios_v1" /\ account.keys => Told(r[1])
  BY <1>1, <1>4, NotifyRelierOK, NotifyIframeOK
<1> QED BY <1>5, <1>6

LEMMA NewBrokerOK ==
    ASSUME NEW context \in Contexts, context \in SyncContexts => setup.service = "sync"
    PROVE  LET b == NewBroker(context, setup.browser)
           IN  BrokerOK(b) /\ b.context = context /\ b.told = "none"
<1> DEFINE b == NewBroker(context, setup.browser)
<1>1. /\ DOMAIN b = {"context", "caps", "behaviors", "canLink", "told", "sent"}
      /\ b.context = context /\ b.told = "none" /\ b.sent = <<>>
      /\ b.behaviors = FetchFirstrun(context, setup.browser)
  BY DEF NewBroker
<1>2. DOMAIN FetchFirstrun(context, setup.browser) \subseteq {"afterSignIn"} BY DEF FetchFirstrun
<1>3. <<>> \in Seq(Sent) OBVIOUS
<1> QED BY <1>1, <1>2, <1>3 DEF BrokerOK, BrokerShape

-----------------------------------------------------------------------------
(***************************************************************************)
(* Tabs.                                                                   *)
(***************************************************************************)
LEMMA TabStep ==
    ASSUME IInv, UNCHANGED setup, server'.recoveryKey => server.recoveryKey,
           NEW t \in Tabs, NEW tab, TabOK(t, tab), Set(t, tab)
    PROVE  TabsOK'
<1>1. tabs' = [tabs EXCEPT ![t] = tab] /\ DOMAIN tabs = Tabs BY DEF IInv, TabsOK, Set
<1>2. DOMAIN tabs' = Tabs BY <1>1
<1>3. ASSUME NEW u \in Tabs PROVE TabOK(u, tabs[u])'
  <2>1. TabOK(u, tabs'[u]) BY <1>1 DEF IInv, TabsOK
  <2> QED
    BY <2>1 DEF TabOK, TabShape, TabType, BrokerOK, BrokerShape, Told, ComesOfAsking, HasToken, WantsKeys,
                FormIsAllowed, TellsBrowser
<1> QED BY <1>2, <1>3 DEF TabsOK

\* Where nothing of a tab changes.
LEMMA NoTabStep ==
    ASSUME IInv, UNCHANGED <<setup, tabs>>, server'.recoveryKey => server.recoveryKey
    PROVE  TabsOK'
<1>1. ASSUME NEW u \in Tabs PROVE TabOK(u, tabs[u])'
  <2>1. TabOK(u, tabs[u]) BY DEF IInv, TabsOK
  <2> QED
    BY <2>1 DEF TabOK, TabShape, TabType, BrokerOK, BrokerShape, Told, ComesOfAsking, HasToken, WantsKeys,
                FormIsAllowed, TellsBrowser
<1> QED BY <1>1 DEF TabsOK, IInv

\* The screens a tab leaves the link for.
LEMMA ShowOther ==
    ASSUME NEW t \in Tabs, NEW tab, TabOK(t, tab), tab.page # "none",
           NEW page \in Pages \ ({"none", "confirm_reset_password"} \cup LinkPages),
           page \in Last => ~(tab.broker.context = "fx_ios_v1" /\ setup.service = "sync" /\ t = "asking")
                            \/ Told(tab.broker)
    PROVE  TabOK(t, ShowPage(tab, page)) /\ ShowPage(tab, page).page = page
<1> DEFINE x == ShowPage(tab, page)
<1>1. TabShape(x) BY DEF TabOK, TabShape, ShowPage
<1>2. /\ x.page = page /\ x.step = "ready" /\ x.broker = tab.broker /\ x.keys = tab.keys
      /\ x.marker = tab.marker /\ x.asked = tab.asked /\ x.redirected = tab.redirected /\ x.reset = tab.reset
      /\ x.login => tab.login
  BY DEF TabOK, TabShape, ShowPage
<1>0. 0 \in 0..MaxTokens /\ 0 \in 0..MaxTries BY BoundsAssumption
<1>8. /\ x.poll = tab.poll \/ x.poll = "off"
      /\ x.token = tab.token \/ x.token = 0
      /\ x.resetToken = tab.resetToken \/ x.resetToken = 0
      /\ x.tries = tab.tries \/ x.tries = 0
      /\ x.says = "nothing" /\ x.state = tab.state /\ x.where = tab.where
      /\ x.login = tab.login \/ x.login = FALSE
      /\ x.late = tab.late \/ x.late = FALSE
      /\ x.lost = tab.lost \/ x.lost = FALSE
      /\ x.kB = tab.kB \/ x.kB = FALSE
      /\ x.hasRecoveryKey = tab.hasRecoveryKey \/ x.hasRecoveryKey = FALSE
  BY DEF TabOK, TabShape, ShowPage
<1>3. TabType(x)
  <2> HIDE DEF x
  <2>1. TabType(tab) BY DEF TabOK
  <2> QED BY <1>0, <1>2, <1>8, <2>1 DEF TabType
<1>4. ComesOfAsking(x) BY <1>2 DEF TabOK, ComesOfAsking
<1>5. WantsKeys(x) BY <1>2 DEF TabOK, WantsKeys
<1>6. FormIsAllowed(x) /\ HasToken(x) BY <1>2 DEF FormIsAllowed, HasToken, LinkPages
<1>7. TellsBrowser(t, x) BY <1>2 DEF TabOK, TellsBrowser
<1> QED BY <1>1, <1>2, <1>3, <1>4, <1>5, <1>6, <1>7 DEF TabOK

\* From one screen of a link to another.
LEMMA ShowLink ==
    ASSUME NEW t \in Tabs, NEW tab, TabOK(t, tab), tab.page \in LinkPages, NEW page \in LinkPages,
           NEW step \in {"loading", "ready"}, page \in FormPages => step = "loading",
           NEW kB \in BOOLEAN, NEW lost \in BOOLEAN
    PROVE  TabOK(t, [ShowPage(tab, page) EXCEPT !.step = step, !.lost = lost, !.kB = kB])
<1> DEFINE x == [ShowPage(tab, page) EXCEPT !.step = step, !.lost = lost, !.kB = kB]
<1>1. TabShape(x) BY DEF TabOK, TabShape, ShowPage
<1>2. /\ x.page = page /\ x.step = step /\ x.broker = tab.broker /\ x.keys = tab.keys
      /\ x.marker = tab.marker /\ x.asked = tab.asked /\ x.redirected = tab.redirected /\ x.reset = tab.reset
      /\ x.login => tab.login
  BY DEF TabOK, TabShape, ShowPage
<1>8. /\ x.poll = tab.poll /\ x.token = tab.token /\ x.resetToken = tab.resetToken /\ x.tries = tab.tries
      /\ x.says = "nothing" /\ x.state = tab.state /\ x.login = tab.login /\ x.late = tab.late
      /\ x.where = tab.where /\ x.lost = lost /\ x.kB = kB /\ x.hasRecoveryKey = tab.hasRecoveryKey
  BY DEF TabOK, TabShape, ShowPage, LinkPages
<1>3. TabType(x)
  <2> HIDE DEF x
  <2>1. TabType(tab) BY DEF TabOK
  <2>2. page \in Pages BY DEF LinkPages, FormPages, Pages
  <2> QED BY <1>2, <1>8, <2>1, <2>2 DEF TabType
<1>4. ComesOfAsking(x) BY <1>2 DEF TabOK, ComesOfAsking, LinkPages, FormPages
<1>5. WantsKeys(x) BY <1>2 DEF TabOK, WantsKeys, LinkPages, FormPages
<1>6. FormIsAllowed(x) /\ HasToken(x) BY <1>2, <1>8 DEF TabOK, FormIsAllowed, HasToken
<1>7. TellsBrowser(t, x) BY <1>2 DEF TabOK, TellsBrowser, LinkPages, FormPages, Last
<1> QED BY <1>1, <1>2, <1>3, <1>4, <1>5, <1>6, <1>7 DEF TabOK

LEMMA NewTabOK ==
    ASSUME NEW t \in Tabs, NEW context \in Contexts, context \in SyncContexts => setup.service = "sync",
           NEW x, TabShape(x), x.broker = NewBroker(context, setup.browser), x.where \in Browsers,
           x.page \in Pages \ (Last \cup {"confirm_reset_password"}),
           x.step \in {"ready", "loading"}, x.page \in FormPages => x.step = "loading",
           x.page \in LinkPages => x.token # 0,
           x.token \in 0..MaxTokens, x.keys \in BOOLEAN, x.state \in BOOLEAN,
           setup.service = "sync" /\ x.page # "none" => x.keys,
           x.marker \in BOOLEAN, x.asked \in BOOLEAN, x.redirected \in BOOLEAN,
           x.marker \/ x.redirected => x.asked,
           x.poll = "off", x.login = FALSE, x.lost = FALSE, x.kB = FALSE, x.resetToken = 0,
           x.hasRecoveryKey = FALSE, x.late = FALSE, x.tries = 0, x.says = "nothing", x.reset = FALSE
    PROVE  TabOK(t, x)
<1>0. 0 \in 0..MaxTokens /\ 0 \in 0..MaxTries BY BoundsAssumption
<1>1. TabType(x) BY <1>0 DEF TabType
<1>2. BrokerOK(x.broker) BY NewBrokerOK
<1>3. ComesOfAsking(x) /\ HasToken(x) /\ WantsKeys(x) /\ FormIsAllowed(x) /\ TellsBrowser(t, x)
  BY DEF ComesOfAsking, HasToken, WantsKeys, FormIsAllowed, TellsBrowser
<1> QED BY <1>1, <1>2, <1>3 DEF TabOK

\* A change that leaves the screen, the broker and the past of a tab.
LEMMA SmallChange ==
    ASSUME NEW t \in Tabs, NEW tab, TabOK(t, tab), NEW x, TabShape(x), TabType(x), FormIsAllowed(x),
           x.page = tab.page, x.token = tab.token, x.broker = tab.broker, x.keys = tab.keys, x.marker => tab.asked,
           x.asked = tab.asked, x.redirected = tab.redirected, x.reset = tab.reset,
           x.login => tab.login \/ tab.page = "confirm_reset_password"
    PROVE  TabOK(t, x)
  BY DEF TabOK, ComesOfAsking, HasToken, WantsKeys, TellsBrowser

-----------------------------------------------------------------------------
(***************************************************************************)
(* What the tabs share.                                                    *)
(***************************************************************************)
LEMMA Rest ==
    ASSUME IInv, UNCHANGED setup
    PROVE  /\ (setup \in Scenarios)'
           /\ UNCHANGED server => ServerOK'
           /\ UNCHANGED browser => BrowserOK'
           /\ UNCHANGED inbox => InboxOK'
  BY DEF IInv, ServerOK, BrowserOK, InboxOK

LEMMA InBrowser == ASSUME IInv, NEW t \in Tabs PROVE BrowserOf(t) \in Browsers
<1>1. TabOK(t, tabs[t]) BY DEF IInv, TabsOK
<1> QED BY <1>1 DEF TabOK, TabType, BrowserOf

LEMMA ClearOK ==
    ASSUME IInv, UNCHANGED setup, NEW t \in Tabs, browser' = SessionClear(t)
    PROVE  BrowserOK'
  BY InBrowser DEF IInv, BrowserOK, SessionClear

LEMMA AppendFacts ==
    ASSUME NEW S, NEW q \in Seq(S), NEW m \in S
    PROVE  /\ Append(q, m) \in Seq(S)
           /\ \A i \in DOMAIN Append(q, m) :
                  (i \in DOMAIN q /\ Append(q, m)[i] = q[i]) \/ Append(q, m)[i] = m
<1>1. Append(q, m) \in Seq(S) OBVIOUS
<1>2. ASSUME NEW i \in DOMAIN Append(q, m)
      PROVE  (i \in DOMAIN q /\ Append(q, m)[i] = q[i]) \/ Append(q, m)[i] = m
  OBVIOUS
<1> QED BY <1>1, <1>2

\* A message goes to the tabs that hear it.
LEMMA TriggerOK ==
    ASSUME IInv, UNCHANGED setup, NEW t \in Tabs, NEW message \in Messages,
           message.name = "signed in" /\ setup.service = "sync" => message.keys, TriggerRemote(t, message)
    PROVE  InboxOK'
<1>1. inbox \in [Tabs -> Seq(Messages)] BY DEF IInv, InboxOK
<1>2. inbox' = [u \in Tabs |-> IF Hears(u, t) THEN Append(inbox[u], message) ELSE inbox[u]]
  BY DEF TriggerRemote
<1>3. ASSUME NEW u \in Tabs
      PROVE  /\ Append(inbox[u], message) \in Seq(Messages)
             /\ \A i \in DOMAIN Append(inbox[u], message) :
                   \/ i \in DOMAIN inbox[u] /\ Append(inbox[u], message)[i] = inbox[u][i]
                   \/ Append(inbox[u], message)[i] = message
  <2>1. inbox[u] \in Seq(Messages) BY <1>1
  <2> HIDE DEF Messages
  <2> QED BY <2>1, AppendFacts
<1>4. ASSUME NEW u \in Tabs, NEW i \in DOMAIN inbox'[u], inbox'[u][i].name = "signed in", setup.service = "sync"
      PROVE  inbox'[u][i].keys
  <2>1. CASE inbox'[u] = inbox[u] BY <1>4, <2>1 DEF IInv, InboxOK
  <2>2. CASE inbox'[u] = Append(inbox[u], message) BY <1>3, <1>4, <2>2 DEF IInv, InboxOK
  <2> QED BY <1>2, <2>1, <2>2
<1>5. inbox' \in [Tabs -> Seq(Messages)]
  <2> HIDE DEF Messages
  <2> QED BY <1>1, <1>2, <1>3
<1> QED BY <1>4, <1>5 DEF InboxOK

\* The first message is taken; a tab forgets what was sent to it.
LEMMA ReceivedOK ==
    ASSUME IInv, UNCHANGED setup, NEW t \in Tabs, inbox[t] # <<>>, Received(t)
    PROVE  /\ InboxOK' /\ Head(inbox[t]) \in Messages
           /\ Head(inbox[t]).name = "signed in" /\ setup.service = "sync" => Head(inbox[t]).keys
<1>1. inbox \in [Tabs -> Seq(Messages)] /\ inbox[t] \in Seq(Messages) BY DEF IInv, InboxOK
<1>2. inbox' = [inbox EXCEPT ![t] = Tail(@)] BY DEF Received
<1>3. 1 \in DOMAIN inbox[t] /\ Head(inbox[t]) = inbox[t][1] /\ Head(inbox[t]) \in Messages BY <1>1
<1>4. Tail(inbox[t]) \in Seq(Messages)
      /\ \A i \in DOMAIN Tail(inbox[t]) : i + 1 \in DOMAIN inbox[t] /\ Tail(inbox[t])[i] = inbox[t][i + 1]
  BY <1>1
<1>5. InboxOK' BY <1>1, <1>2, <1>4 DEF IInv, InboxOK
<1> QED BY <1>3, <1>5 DEF IInv, InboxOK

LEMMA ForgetOK ==
    ASSUME IInv, UNCHANGED setup, NEW t \in Tabs, inbox' = [inbox EXCEPT ![t] = <<>>]
    PROVE  InboxOK'
<1>1. inbox \in [Tabs -> Seq(Messages)] BY DEF IInv, InboxOK
<1>2. <<>> \in Seq(Messages) /\ DOMAIN <<>> = {} OBVIOUS
<1>3. inbox' \in [Tabs -> Seq(Messages)] BY <1>1, <1>2
<1>4. ASSUME NEW u \in Tabs, NEW i \in DOMAIN inbox'[u], inbox'[u][i].name = "signed in", setup.service = "sync"
      PROVE  inbox'[u][i].keys
  BY <1>1, <1>2, <1>4 DEF IInv, InboxOK
<1> QED BY <1>3, <1>4 DEF InboxOK

\* A step of one tab only.
LEMMA OnlyTab ==
    ASSUME IInv, UNCHANGED <<setup, server, browser, inbox>>, NEW t \in Tabs, NEW tab, TabOK(t, tab), Set(t, tab)
    PROVE  IInv'
<1>1. TabsOK' BY TabStep
<1> QED BY <1>1, Rest DEF IInv

-----------------------------------------------------------------------------
(***************************************************************************)
(* Asking and waiting.                                                     *)
(***************************************************************************)
LEMMA NextTokenType == IInv => NextToken \in Nat \ {0}
<1> SUFFICES ASSUME IInv PROVE NextToken \in Nat \ {0} OBVIOUS
<1> DEFINE S == {n \in 1..MaxTokens : server.tokens[n] # "none"}
<1>1. IsFiniteSet(1..MaxTokens) BY FS_Interval, BoundsAssumption
<1>2. IsFiniteSet(S) BY <1>1, FS_Subset
<1>3. Cardinality(S) \in Nat BY <1>2, FS_CardinalityType
<1> QED BY <1>3 DEF NextToken

LEMMA AskingOK ==
    ASSUME IInv, NEW t \in Tabs, tabs[t].page # "none", ResetPasswordOf(t)
    PROVE  IInv'
<1> DEFINE tab == tabs[t]
           x == [ShowPage(tab, "confirm_reset_password") EXCEPT !.step = "loading", !.token = NextToken, !.asked = TRUE]
<1>1. TabOK(t, tab) BY DEF IInv, TabsOK
<1>2. NextToken \in 1..MaxTokens /\ NextToken \in 0..MaxTokens
  BY NextTokenType, ScenariosAssumption, BoundsAssumption DEF ResetPasswordOf, IInv
<1>3. TabShape(x) BY <1>1 DEF TabOK, TabShape, ShowPage
<1>4. /\ x.page = "confirm_reset_password" /\ x.step = "loading" /\ x.broker = tab.broker /\ x.keys = tab.keys
      /\ x.token = NextToken /\ x.asked = TRUE /\ x.poll = "off" /\ x.tries = 0 /\ x.resetToken = 0
      /\ x.says = "nothing" /\ x.state = tab.state /\ x.login = FALSE /\ x.late = FALSE /\ x.lost = FALSE
      /\ x.kB = FALSE /\ x.hasRecoveryKey = FALSE /\ x.marker = tab.marker /\ x.redirected = tab.redirected
      /\ x.reset = tab.reset /\ x.where = tab.where
  BY <1>1 DEF TabOK, TabShape, ShowPage, LinkPages, FormPages
<1>5. TabOK(t, x)
  <2> HIDE DEF x
  <2>1. 0 \in 0..MaxTokens /\ 0 \in 0..MaxTries /\ "confirm_reset_password" \in Pages
    BY BoundsAssumption DEF Pages
  <2>2. TabType(x) BY <1>1, <1>2, <1>4, <2>1 DEF TabOK, TabType
  <2>3. ComesOfAsking(x) /\ HasToken(x) /\ WantsKeys(x) /\ FormIsAllowed(x) /\ TellsBrowser(t, x)
    BY <1>1, <1>4 DEF TabOK, ComesOfAsking, HasToken, WantsKeys, FormIsAllowed, TellsBrowser, LinkPages,
                      FormPages, Last
  <2> QED BY <1>1, <1>3, <1>4, <2>2, <2>3 DEF TabOK
<1>6. UNCHANGED <<setup, inbox>> /\ Set(t, x) /\ browser' = SessionClear(t) /\ PasswordReset
  BY DEF ResetPasswordOf
<1> HIDE DEF x
<1>7. server' = [server EXCEPT !.tokens = [n \in 1..MaxTokens |-> IF n = NextToken THEN "valid"
                                             ELSE IF server.tokens[n] = "valid" THEN "expired" ELSE server.tokens[n]]]
  BY <1>6 DEF PasswordReset
<1>8. ServerOK' BY <1>7 DEF IInv, ServerOK
<1>9. server'.recoveryKey = server.recoveryKey BY <1>7 DEF IInv, ServerOK
<1>10. TabsOK' BY <1>5, <1>6, <1>9, TabStep
<1> QED BY <1>6, <1>8, <1>10, ClearOK, Rest DEF IInv

LEMMA SubmitOK == ASSUME IInv, NEW t \in Tabs, Submit(t) PROVE IInv'
<1>1. tabs[t].page # "none" BY DEF Submit
<1>2. CASE ResetPasswordOf(t) BY <1>1, <1>2, AskingOK
<1>3. CASE browser' = SessionClear(t) /\ UNCHANGED <<setup, server, tabs, inbox>>
  <2>1. TabsOK' BY <1>3, NoTabStep
  <2> QED BY <1>3, <2>1, ClearOK, Rest DEF IInv
<1> QED BY <1>2, <1>3 DEF Submit

LEMMA ResendLinkOK == ASSUME IInv, NEW t \in Tabs, ResendLink(t) PROVE IInv'
  BY AskingOK DEF ResendLink, LinkPages, FormPages

LEMMA RememberPasswordOK == ASSUME IInv, NEW t \in Tabs, RememberPassword(t) PROVE IInv'
<1>1. tabs[t].page # "none" /\ TabOK(t, tabs[t]) BY DEF RememberPassword, FormPages, IInv, TabsOK
<1>2. TabOK(t, ShowPage(tabs[t], "signin")) BY <1>1, ShowOther DEF Pages, LinkPages, FormPages, Last
<1> QED BY <1>2, OnlyTab DEF RememberPassword

LEMMA ConfirmLoadedOK == ASSUME IInv, NEW t \in Tabs, ConfirmLoaded(t) PROVE IInv'
<1> DEFINE tab == tabs[t]
           x == [SetOriginalTabMarker(BeforeRenderConfirm(tab)) EXCEPT !.step = "ready", !.poll = "request"]
<1>1. TabOK(t, tab) /\ tab.page = "confirm_reset_password" BY DEF ConfirmLoaded, IInv, TabsOK
<1>2. TabShape(x) BY <1>1 DEF TabOK, TabShape, SetOriginalTabMarker, BeforeRenderConfirm
<1>3. x = [tab EXCEPT !.hasRecoveryKey = server.recoveryKey, !.marker = x.marker, !.step = "ready", !.poll = "request"]
      /\ x.marker \in BOOLEAN
  BY <1>1 DEF TabOK, TabShape, TabType, SetOriginalTabMarker, BeforeRenderConfirm
<1>4. TabOK(t, x)
  <2>1. server.recoveryKey \in BOOLEAN BY DEF IInv, ServerOK
  <2>2. /\ x.hasRecoveryKey = server.recoveryKey /\ x.step = "ready" /\ x.poll = "request"
        /\ \A f \in (DOMAIN tab) \ {"hasRecoveryKey", "marker", "step", "poll"} : x[f] = tab[f]
    BY <1>1, <1>3 DEF TabOK, TabShape
  <2> HIDE DEF x
  <2>3. TabType(x) BY <1>1, <1>3, <2>1, <2>2 DEF TabOK, TabShape, TabType
  <2>4. FormIsAllowed(x) BY <1>1, <2>2 DEF TabOK, TabShape, FormIsAllowed, FormPages
  <2>5. tab.asked BY <1>1 DEF TabOK, ComesOfAsking
  <2> QED BY <1>1, <1>2, <2>2, <2>3, <2>4, <2>5, SmallChange DEF TabOK, TabShape
<1>5. UNCHANGED <<setup, server, inbox>> /\ Set(t, x) /\ browser' = PersistVerificationData(t) BY DEF ConfirmLoaded
<1> HIDE DEF x
<1>6. TabsOK' BY <1>4, <1>5, TabStep
<1>7. BrowserOK'
  <2> DEFINE c == tab.broker.context
             b == BrowserOf(t)
  <2>1. c \in Contexts /\ (c \in SyncContexts => setup.service = "sync") BY <1>1 DEF TabOK, BrokerOK, BrokerShape
  <2>2. b \in Browsers BY InBrowser
  <2>3. browser \in [Browsers -> [context : Contexts \cup {"none"}, oauth : BOOLEAN]] BY DEF IInv, BrowserOK
  <2> DEFINE p == [browser EXCEPT ![b].context = c]
  <2>4. p \in [Browsers -> [context : Contexts \cup {"none"}, oauth : BOOLEAN]]
        /\ \A d \in Browsers : p[d].context \in SyncContexts => setup.service = "sync"
    BY <2>1, <2>2, <2>3 DEF IInv, BrowserOK
  <2>5. browser' = IF IsOAuth(tab) THEN [p EXCEPT ![b].oauth = TRUE] ELSE p
    BY <1>5 DEF PersistVerificationData, Persist, SessionSet
  <2> HIDE DEF p, b
  <2>6. browser' \in [Browsers -> [context : Contexts \cup {"none"}, oauth : BOOLEAN]]
        /\ \A d \in Browsers : browser'[d].context \in SyncContexts => setup.service = "sync"
    BY <2>2, <2>4, <2>5
  <2> QED BY <1>5, <2>6 DEF BrowserOK
<1> QED BY <1>5, <1>6, <1>7, Rest DEF IInv

\* A tab that waits changes its poll, its wait for the message, or its tries.
LEMMA WaitingOK ==
    ASSUME IInv, UNCHANGED <<setup, server, browser>>, InboxOK', NEW t \in Tabs, IsWaiting(tabs[t]),
           NEW step \in {"ready", "stopped"}, NEW poll \in {"off", "request", "timer", "stale"},
           NEW login \in BOOLEAN, NEW late \in BOOLEAN, NEW tries \in 0..MaxTries,
           Set(t, [tabs[t] EXCEPT !.step = step, !.poll = poll, !.login = login, !.late = late, !.tries = tries])
    PROVE  IInv'
<1> DEFINE tab == tabs[t]
           x == [tab EXCEPT !.step = step, !.poll = poll, !.login = login, !.late = late, !.tries = tries]
<1>1. TabOK(t, tab) /\ tab.page = "confirm_reset_password" BY DEF IsWaiting, IInv, TabsOK
<1>2. /\ TabShape(x)
      /\ x.step = step /\ x.poll = poll /\ x.login = login /\ x.late = late /\ x.tries = tries
      /\ \A f \in (DOMAIN tab) \ {"step", "poll", "login", "late", "tries"} : x[f] = tab[f]
  BY <1>1 DEF TabOK, TabShape
<1> HIDE DEF x
<1>3. TabType(x) BY <1>1, <1>2 DEF TabOK, TabShape, TabType
<1>4. FormIsAllowed(x) BY <1>1, <1>2 DEF TabOK, TabShape, FormIsAllowed, FormPages
<1>5. x.marker => tab.asked BY <1>1, <1>2 DEF TabOK, TabShape, ComesOfAsking
<1>6. TabOK(t, x) BY <1>1, <1>2, <1>3, <1>4, <1>5, SmallChange DEF TabOK, TabShape
<1>7. TabsOK' BY <1>6, TabStep DEF x
<1> QED BY <1>7, Rest DEF IInv

\* The user is sent to sign in.
LEMMA DifferentBrowserOK ==
    ASSUME IInv, NEW t \in Tabs, NEW tab, TabOK(t, tab), tab.page # "none"
    PROVE  TabOK(t, FinishDifferentBrowser(tab))
<1> DEFINE y == ShowPage(tab, "signin")
           x == FinishDifferentBrowser(tab)
<1>1. TabOK(t, y) /\ y.page = "signin" BY ShowOther DEF Pages, LinkPages, FormPages, Last
<1>2. /\ TabShape(x) /\ x.says \in {"nothing", "reset"}
      /\ \A f \in (DOMAIN y) \ {"says"} : x[f] = y[f]
  BY <1>1 DEF FinishDifferentBrowser, TabOK, TabShape
<1> HIDE DEF x, y
<1>3. TabType(x) BY <1>1, <1>2 DEF TabOK, TabShape, TabType
<1>4. FormIsAllowed(x) BY <1>1, <1>2 DEF TabOK, TabShape, FormIsAllowed, FormPages
<1>5. x.marker => y.asked BY <1>1, <1>2 DEF TabOK, TabShape, ComesOfAsking
<1>6. TabOK(t, x) BY <1>1, <1>2, <1>3, <1>4, <1>5, SmallChange DEF TabOK, TabShape
<1> QED BY <1>6 DEF x

LEMMA PollAnsweredOK == ASSUME IInv, NEW t \in Tabs, PollAnswered(t) PROVE IInv'
<1> DEFINE tab == tabs[t]
<1>1. /\ TabOK(t, tab) /\ IsWaiting(tab) /\ tab.page # "none" /\ tab.step = "ready"
      /\ UNCHANGED <<setup, server, inbox>>
  BY DEF PollAnswered, IsWaiting, IInv, TabsOK
<1>2. CASE Set(t, FinishDifferentBrowser(tab)) /\ browser' = SessionClear(t)
  <2>1. TabsOK' BY <1>1, <1>2, DifferentBrowserOK, TabStep
  <2> QED BY <1>1, <1>2, <2>1, ClearOK, Rest DEF IInv
<1>3. CASE Set(t, [tab EXCEPT !.poll = IF @ = "request" THEN "timer" ELSE "off"]) /\ UNCHANGED browser
  <2> DEFINE poll == IF tab.poll = "request" THEN "timer" ELSE "off"
  <2>1. [tab EXCEPT !.poll = poll] = [tab EXCEPT !.step = "ready", !.poll = poll, !.login = tab.login,
                                                 !.late = tab.late, !.tries = tab.tries]
    BY <1>1 DEF TabOK, TabShape
  <2>2. Set(t, [tab EXCEPT !.poll = poll]) BY <1>3
  <2>3. InboxOK' BY <1>1, Rest
  <2>4. tab.login \in BOOLEAN /\ tab.late \in BOOLEAN /\ tab.tries \in 0..MaxTries BY <1>1 DEF TabOK, TabType
  <2>5. poll \in {"off", "request", "timer", "stale"} /\ "ready" \in {"ready", "stopped"} OBVIOUS
  <2>6. Set(t, [tab EXCEPT !.step = "ready", !.poll = poll, !.login = tab.login,
                           !.late = tab.late, !.tries = tab.tries])
    BY <2>1, <2>2
  <2>7. IsWaiting(tabs[t]) /\ UNCHANGED <<setup, server, browser>> BY <1>1, <1>3
  <2> HIDE DEF poll, tab
  <2> QED BY <2>3, <2>4, <2>5, <2>6, <2>7, WaitingOK DEF tab
<1> QED BY <1>2, <1>3 DEF PollAnswered

LEMMA PollFailsOK == ASSUME IInv, NEW t \in Tabs, PollFails(t) PROVE IInv'
<1> DEFINE tab == tabs[t]
<1>1. TabOK(t, tab) /\ IsWaiting(tab) /\ UNCHANGED <<setup, server, browser, inbox>> /\ Set(t, Failed(tab))
  BY DEF PollFails, IInv, TabsOK
<1>2. Failed(tab) = [tab EXCEPT !.step = "stopped", !.poll = "off", !.login = FALSE,
                                !.late = tab.late, !.tries = tab.tries]
  BY <1>1 DEF TabOK, TabShape, Failed, StopWaiting
<1>3. Set(t, [tab EXCEPT !.step = "stopped", !.poll = "off", !.login = FALSE,
                         !.late = tab.late, !.tries = tab.tries])
  BY <1>1, <1>2
<1>4. tab.late \in BOOLEAN /\ tab.tries \in 0..MaxTries BY <1>1 DEF TabOK, TabType
<1>5. InboxOK' BY <1>1, Rest
<1>6. "off" \in {"off", "request", "timer", "stale"} /\ "stopped" \in {"ready", "stopped"} /\ FALSE \in BOOLEAN OBVIOUS
<1>7. IsWaiting(tabs[t]) /\ UNCHANGED <<setup, server, browser>> BY <1>1
<1> HIDE DEF tab
<1> QED BY <1>3, <1>4, <1>5, <1>6, <1>7, WaitingOK DEF tab

LEMMA TimerFiresOK == ASSUME IInv, NEW t \in Tabs, TimerFires(t) PROVE IInv'
<1> DEFINE tab == tabs[t]
<1>1. /\ TabOK(t, tab) /\ IsWaiting(tab) /\ tab.step = "ready" /\ UNCHANGED <<setup, server, browser, inbox>>
      /\ Set(t, [tab EXCEPT !.poll = "request"])
  BY DEF TimerFires, IsWaiting, IInv, TabsOK
<1>2. [tab EXCEPT !.poll = "request"] = [tab EXCEPT !.step = "ready", !.poll = "request", !.login = tab.login,
                                                    !.late = tab.late, !.tries = tab.tries]
  BY <1>1 DEF TabOK, TabShape
<1>3. "request" \in {"off", "request", "timer", "stale"} /\ "ready" \in {"ready", "stopped"} OBVIOUS
<1>5. tab.login \in BOOLEAN /\ tab.late \in BOOLEAN /\ tab.tries \in 0..MaxTries BY <1>1 DEF TabOK, TabType
<1>4. InboxOK' BY <1>1, Rest
<1>6. Set(t, [tab EXCEPT !.step = "ready", !.poll = "request", !.login = tab.login,
                         !.late = tab.late, !.tries = tab.tries])
  BY <1>1, <1>2
<1>7. IsWaiting(tabs[t]) /\ UNCHANGED <<setup, server, browser>> BY <1>1
<1> HIDE DEF tab
<1> QED BY <1>3, <1>4, <1>5, <1>6, <1>7, WaitingOK DEF tab

LEMMA ResendOK == ASSUME IInv, NEW t \in Tabs, Resend(t) PROVE IInv'
<1> DEFINE tab == tabs[t]
           y == [tab EXCEPT !.tries = @ + 1]
<1>1. /\ TabOK(t, tab) /\ IsWaiting(tab) /\ tab.step = "ready" /\ tab.page = "confirm_reset_password"
      /\ UNCHANGED <<setup, server, browser, inbox>> /\ ~MaxTriesReached(tab)
  BY DEF Resend, IsWaiting, IInv, TabsOK
<1>2. tab.tries + 1 \in 0..MaxTries /\ tab.login \in BOOLEAN /\ tab.late \in BOOLEAN
  BY <1>1, BoundsAssumption DEF TabOK, TabType, MaxTriesReached
<1>3. y = [tab EXCEPT !.step = "ready", !.poll = tab.poll, !.login = tab.login,
                      !.late = tab.late, !.tries = tab.tries + 1]
  BY <1>1 DEF TabOK, TabShape
<1>4. tab.poll \in {"off", "request", "timer", "stale"} /\ InboxOK' BY <1>1, Rest DEF TabOK, TabType
<1>5. CASE Set(t, y)
  <2> DEFINE tries == tab.tries + 1
  <2>1. Set(t, [tab EXCEPT !.step = "ready", !.poll = tab.poll, !.login = tab.login,
                           !.late = tab.late, !.tries = tries])
    BY <1>3, <1>5
  <2>2. IsWaiting(tabs[t]) /\ UNCHANGED <<setup, server, browser>> BY <1>1
  <2>3. tries \in 0..MaxTries /\ "ready" \in {"ready", "stopped"} BY <1>2
  <2> HIDE DEF tries, tab, y
  <2> QED BY <1>2, <1>4, <2>1, <2>2, <2>3, WaitingOK DEF tab
<1>6. CASE Set(t, ShowPage(y, "reset_password"))
  <2>1. TabShape(y) /\ y.tries = tab.tries + 1 /\ \A f \in (DOMAIN tab) \ {"tries"} : y[f] = tab[f]
    BY <1>1 DEF TabOK, TabShape
  <2> HIDE DEF y
  <2>2. TabType(y) BY <1>1, <1>2, <2>1 DEF TabOK, TabShape, TabType
  <2>3. FormIsAllowed(y) BY <1>1, <2>1 DEF TabOK, TabShape, FormIsAllowed, FormPages
  <2>4. y.marker => tab.asked BY <1>1, <2>1 DEF TabOK, TabShape, ComesOfAsking
  <2>5. TabOK(t, y) /\ y.page # "none" BY <1>1, <2>1, <2>2, <2>3, <2>4, SmallChange DEF TabOK, TabShape
  <2>6. TabOK(t, ShowPage(y, "reset_password")) BY <2>5, ShowOther DEF Pages, LinkPages, FormPages, Last
  <2> QED BY <1>1, <1>6, <2>6, OnlyTab
<1> QED BY <1>5, <1>6 DEF Resend

LEMMA ShowResendOK == ASSUME IInv, NEW t \in Tabs, ShowResend(t) PROVE IInv'
<1> DEFINE tab == tabs[t]
<1>1. /\ TabOK(t, tab) /\ IsWaiting(tab) /\ tab.step = "ready" /\ UNCHANGED <<setup, server, browser, inbox>>
      /\ Set(t, [tab EXCEPT !.tries = 0])
  BY DEF ShowResend, IsWaiting, IInv, TabsOK
<1>2. [tab EXCEPT !.tries = 0] = [tab EXCEPT !.step = "ready", !.poll = tab.poll, !.login = tab.login,
                                             !.late = tab.late, !.tries = 0]
  BY <1>1 DEF TabOK, TabShape
<1>3. tab.login \in BOOLEAN /\ tab.late \in BOOLEAN /\ 0 \in 0..MaxTries
      /\ tab.poll \in {"off", "request", "timer", "stale"}
  BY <1>1, BoundsAssumption DEF TabOK, TabType
<1>4. InboxOK' BY <1>1, Rest
<1>5. Set(t, [tab EXCEPT !.step = "ready", !.poll = tab.poll, !.login = tab.login,
                         !.late = tab.late, !.tries = 0])
  BY <1>1, <1>2
<1>6. IsWaiting(tabs[t]) /\ UNCHANGED <<setup, server, browser>> /\ "ready" \in {"ready", "stopped"} BY <1>1
<1> HIDE DEF tab
<1> QED BY <1>3, <1>4, <1>5, <1>6, WaitingOK DEF tab

-----------------------------------------------------------------------------
(***************************************************************************)
(* Messages, and the end of a reset.                                       *)
(***************************************************************************)
LEMMA TabOpenedOK == ASSUME IInv, NEW t \in Tabs, TabOpened(t) PROVE IInv'
<1> DEFINE tab == tabs[t]
           m == Head(inbox[t])
<1>1. /\ TabOK(t, tab) /\ UNCHANGED <<setup, server, browser>> /\ inbox[t] # <<>> /\ Received(t)
      /\ m.name = "tab open"
  BY DEF TabOpened, IInv, TabsOK
<1>2. InboxOK' /\ m \in Messages BY <1>1, ReceivedOK
<1>3. m.late \in BOOLEAN BY <1>1, <1>2 DEF Messages
<1> HIDE DEF m
<1>4. CASE IsWaiting(tab) /\ ~tab.login
  <2>1. Set(t, [StopWaitingForServerConfirmation(tab) EXCEPT !.login = TRUE, !.late = m.late])
    BY <1>4 DEF TabOpened, m
  <2> DEFINE poll == IF tab.poll = "request" THEN "stale" ELSE IF tab.poll = "timer" THEN "off" ELSE tab.poll
  <2>2. poll \in {"off", "request", "timer", "stale"} /\ tab.step = "ready" /\ tab.tries \in 0..MaxTries
    BY <1>1, <1>4 DEF TabOK, TabType, IsWaiting
  <2>3. [StopWaitingForServerConfirmation(tab) EXCEPT !.login = TRUE, !.late = m.late]
           = [tab EXCEPT !.step = "ready", !.poll = poll, !.login = TRUE, !.late = m.late, !.tries = tab.tries]
    BY <1>1, <2>2 DEF TabOK, TabShape, StopWaitingForServerConfirmation
  <2>4. Set(t, [tab EXCEPT !.step = "ready", !.poll = poll, !.login = TRUE, !.late = m.late, !.tries = tab.tries])
    BY <2>1, <2>3
  <2> HIDE DEF poll
  <2> QED BY <1>1, <1>2, <1>3, <1>4, <2>2, <2>4, WaitingOK
<1>5. CASE ~(IsWaiting(tab) /\ ~tab.login)
  <2>1. Set(t, tab) BY <1>5 DEF TabOpened
  <2>2. TabsOK' BY <1>1, <2>1, TabStep
  <2> QED BY <1>1, <1>2, <2>2, Rest DEF IInv
<1> QED BY <1>4, <1>5

LEMMA StopWaitingOK ==
    ASSUME NEW t \in Tabs, NEW tab, TabOK(t, tab)
    PROVE  LET x == StopWaiting(tab)
           IN  TabOK(t, x) /\ x.page = tab.page /\ x.broker = tab.broker /\ x.asked = tab.asked /\ x.keys = tab.keys
<1> DEFINE x == StopWaiting(tab)
<1>1. /\ TabShape(x)
      /\ x.poll = "off" /\ x.login = FALSE
      /\ \A f \in (DOMAIN tab) \ {"poll", "login"} : x[f] = tab[f]
  BY DEF TabOK, TabShape, StopWaiting
<1> HIDE DEF x
<1>2. TabType(x) BY <1>1 DEF TabOK, TabShape, TabType
<1>3. FormIsAllowed(x) BY <1>1 DEF TabOK, TabShape, FormIsAllowed, FormPages
<1>4. x.marker => tab.asked BY <1>1 DEF TabOK, TabShape, ComesOfAsking
<1>5. TabOK(t, x) BY <1>1, <1>2, <1>3, <1>4, SmallChange DEF TabOK, TabShape
<1> QED BY <1>1, <1>5 DEF x, TabOK, TabShape

\* Only a tab that asked goes back to the relying party.
LEMMA FinishOK ==
    ASSUME NEW t \in Tabs, NEW tab, TabOK(t, tab), tab.page # "none", tab.asked, NEW ok \in BOOLEAN
    PROVE  TabOK(t, FinishOAuthFlow(tab, ok))
<1> DEFINE x == FinishOAuthFlow(tab, ok)
<1>1. CASE ok
  <2> DEFINE y == ShowPage(tab, "relier")
  <2>1. TabOK(t, y) /\ y.page = "relier" /\ y.asked = tab.asked
    <3>1. TabOK(t, y) /\ y.page = "relier" BY ShowOther DEF Pages, LinkPages, FormPages, Last
    <3>2. y.asked = tab.asked BY DEF ShowPage, TabOK, TabShape
    <3> QED BY <3>1, <3>2
  <2>2. x = [y EXCEPT !.marker = FALSE, !.redirected = TRUE] BY <1>1 DEF FinishOAuthFlow
  <2> HIDE DEF y, x
  <2>3. /\ TabShape(x) /\ x.marker = FALSE /\ x.redirected = TRUE
        /\ \A f \in (DOMAIN y) \ {"marker", "redirected"} : x[f] = y[f]
    BY <2>1, <2>2 DEF TabOK, TabShape
  <2>4. TabType(x)
    <3>1. TabType(y) /\ TabShape(y) BY <2>1 DEF TabOK
    <3>2. /\ x.page = y.page /\ x.step = y.step /\ x.poll = y.poll /\ x.token = y.token
          /\ x.resetToken = y.resetToken /\ x.tries = y.tries /\ x.says = y.says
          /\ x.keys = y.keys /\ x.state = y.state /\ x.login = y.login /\ x.late = y.late
          /\ x.lost = y.lost /\ x.kB = y.kB /\ x.hasRecoveryKey = y.hasRecoveryKey
          /\ x.asked = y.asked /\ x.reset = y.reset /\ x.where = y.where
      BY <2>3, <3>1 DEF TabShape
    <3> QED BY ONLY <2>3, <3>1, <3>2 DEF TabType
  <2>5. /\ ComesOfAsking(x) /\ HasToken(x) /\ WantsKeys(x) /\ FormIsAllowed(x) /\ TellsBrowser(t, x)
        /\ BrokerOK(x.broker)
    BY <2>1, <2>3 DEF TabOK, TabShape, ComesOfAsking, HasToken, WantsKeys, FormIsAllowed, TellsBrowser,
                      LinkPages, FormPages
  <2>6. TabOK(t, x) BY <2>3, <2>4, <2>5 DEF TabOK
  <2> QED BY <2>6 DEF x
<1>2. CASE ~ok
  <2>1. x = [tab EXCEPT !.step = "stopped", !.marker = FALSE] BY <1>2 DEF FinishOAuthFlow
  <2> HIDE DEF x
  <2>2. /\ TabShape(x) /\ x.step = "stopped" /\ x.marker = FALSE
        /\ \A f \in (DOMAIN tab) \ {"step", "marker"} : x[f] = tab[f]
    BY <2>1 DEF TabOK, TabShape
  <2>3. TabType(x) BY <2>2 DEF TabOK, TabShape, TabType
  <2>4. FormIsAllowed(x) BY <2>2 DEF TabOK, TabShape, FormIsAllowed, FormPages
  <2>5. TabOK(t, x) BY <2>2, <2>3, <2>4, SmallChange DEF TabOK, TabShape
  <2> QED BY <2>5 DEF x
<1> QED BY <1>1, <1>2

\* The screen a broker's answer leads to.
LEMMA FollowOK ==
    ASSUME NEW t \in Tabs, NEW tab, TabOK(t, tab), tab.page # "none",
           NEW answer, BrokerOK(answer[1]), Follows(answer[1], tab.broker), NEW account, NEW page,
           NEW to \in Pages \ ({"none", "confirm_reset_password"} \cup LinkPages),
           to = Destination(answer[2], answer[1].caps, Knows(account), page),
           to \in Last => ~(tab.broker.context = "fx_ios_v1" /\ setup.service = "sync" /\ t = "asking")
                          \/ Told(answer[1])
    PROVE  TabOK(t, Follow(tab, answer, account, page))
<1> DEFINE y == [tab EXCEPT !.broker = answer[1]]
           z == ShowPage(y, to)
           x == Follow(tab, answer, account, page)
<1>1. TabShape(y) /\ y.broker = answer[1] /\ \A f \in (DOMAIN tab) \ {"broker"} : y[f] = tab[f]
  BY DEF TabOK, TabShape
<1>2. x = [z EXCEPT !.says = "nothing"] BY DEF Follow
<1>3. TabOK(t, y) /\ y.page # "none"
  <2> HIDE DEF y
  <2>1. TabType(y) BY <1>1 DEF TabOK, TabShape, TabType
  <2>2. ComesOfAsking(y) /\ HasToken(y) /\ WantsKeys(y) /\ FormIsAllowed(y) /\ y.page # "none"
    BY <1>1 DEF TabOK, TabShape, ComesOfAsking, HasToken, WantsKeys, FormIsAllowed
  <2>3. TellsBrowser(t, y) BY <1>1 DEF TabOK, TabShape, TellsBrowser, Follows
  <2> QED BY <1>1, <2>1, <2>2, <2>3 DEF TabOK
<1>4. to \in Last => ~(y.broker.context = "fx_ios_v1" /\ setup.service = "sync" /\ t = "asking") \/ Told(y.broker)
  BY <1>1 DEF Follows
<1>5. TabOK(t, z) BY <1>3, <1>4, ShowOther
<1> HIDE DEF x, y, z
<1>6. TabShape(x) /\ x.says = "nothing" /\ \A f \in (DOMAIN z) \ {"says"} : x[f] = z[f]
  BY <1>2, <1>5 DEF TabOK, TabShape
<1>7. TabType(x) BY <1>5, <1>6 DEF TabOK, TabShape, TabType
<1>8. FormIsAllowed(x) BY <1>5, <1>6 DEF TabOK, TabShape, FormIsAllowed
<1>9. x.marker => z.asked BY <1>5, <1>6 DEF TabOK, TabShape, ComesOfAsking
<1>10. TabOK(t, x) BY <1>5, <1>6, <1>7, <1>8, <1>9, SmallChange DEF TabOK, TabShape
<1> QED BY <1>10 DEF x

LEMMA SignedInElsewhereOK == ASSUME IInv, NEW t \in Tabs, SignedInElsewhere(t) PROVE IInv'
<1> DEFINE tab == StopWaiting(tabs[t])
           m == Head(inbox[t])
           account == FromMessage(m)
           answer == AfterResetPasswordConfirmationPoll(tab.broker, account)
<1>1. /\ TabOK(t, tabs[t]) /\ UNCHANGED <<setup, server>> /\ inbox[t] # <<>> /\ Received(t)
      /\ m.name = "signed in"
  BY DEF SignedInElsewhere, IInv, TabsOK
<1>2. InboxOK' /\ m \in Messages /\ (setup.service = "sync" => m.keys) BY <1>1, ReceivedOK
<1>3. m.keys \in BOOLEAN /\ m.verified \in BOOLEAN BY <1>1, <1>2 DEF Messages
<1>4. AccountOK(account) /\ account.session = 1 /\ account.keys = m.keys BY <1>3 DEF AccountOK, FromMessage
<1>5. TabOK(t, tab) /\ tab.page = tabs[t].page /\ tab.asked = tabs[t].asked BY <1>1, StopWaitingOK
<1>6. tabs[t].login => tab.asked /\ tab.page # "none" BY <1>1, <1>5 DEF TabOK, ComesOfAsking
<1>7. /\ BrokerOK(answer[1]) /\ Follows(answer[1], tab.broker)
      /\ tab.broker.context = "fx_ios_v1" /\ account.keys => Told(answer[1])
      /\ answer[2] \in {Null, Halt, Navigate("settings"), Navigate("signin_totp_code"), HaltIfBrowserTransitions(Null)}
  BY <1>4, <1>5, PollOK DEF TabOK
<1>8. \/ ~tabs[t].login /\ Set(t, tabs[t]) /\ UNCHANGED browser
      \/ tabs[t].login /\ Set(t, FinishDifferentBrowser(tab)) /\ browser' = SessionClear(t)
      \/ /\ tabs[t].login
         /\ \E ok \in BOOLEAN : Set(t, FinishOAuthFlow(tab, ok))
         /\ browser' = SessionClear(t)
      \/ tabs[t].login /\ Set(t, Follow(tab, answer, account, "reset_password_confirmed")) /\ UNCHANGED browser
  BY DEF SignedInElsewhere
<1> HIDE DEF tab, m, account, answer
<1>9. CASE ~tabs[t].login /\ Set(t, tabs[t]) /\ UNCHANGED browser
  <2>1. TabsOK' BY <1>1, <1>9, TabStep
  <2> QED BY <1>1, <1>2, <1>9, <2>1, Rest DEF IInv
<1>10. CASE tabs[t].login /\ Set(t, FinishDifferentBrowser(tab)) /\ browser' = SessionClear(t)
  <2>1. TabsOK' BY <1>1, <1>5, <1>6, <1>10, DifferentBrowserOK, TabStep
  <2> QED BY <1>1, <1>2, <1>10, <2>1, ClearOK, Rest DEF IInv
<1>11. CASE tabs[t].login /\ (\E ok \in BOOLEAN : Set(t, FinishOAuthFlow(tab, ok))) /\ browser' = SessionClear(t)
  <2>1. TabsOK' BY <1>1, <1>5, <1>6, <1>11, FinishOK, TabStep
  <2> QED BY <1>1, <1>2, <1>11, <2>1, ClearOK, Rest DEF IInv
<1>12. CASE tabs[t].login /\ Set(t, Follow(tab, answer, account, "reset_password_confirmed")) /\ UNCHANGED browser
  <2> DEFINE dest == Destination(answer[2], answer[1].caps, Knows(account), "reset_password_confirmed")
  <2>1. dest \in {"reset_password_confirmed", "halted", "settings", "signin_totp_code"}
    <3> DEFINE D(b) == Destination(b, answer[1].caps, Knows(account), "reset_password_confirmed")
    <3>1. /\ D(Null) = "reset_password_confirmed"
          /\ D(Halt) = "halted"
      BY Destinations
    <3>2. D(Navigate("settings")) = "settings" BY Destinations
    <3>5. D(Navigate("signin_totp_code")) = "signin_totp_code" BY Destinations
    <3>3. D(HaltIfBrowserTransitions(Null)) \in {"halted", "reset_password_confirmed"} BY Destinations
    <3> HIDE DEF D
    <3>4. D(answer[2]) \in {"reset_password_confirmed", "halted", "settings", "signin_totp_code"}
      BY <1>7, <3>1, <3>2, <3>3, <3>5
    <3> QED BY <3>4 DEF D
  <2> HIDE DEF dest
  <2>2. dest \in Pages \ ({"none", "confirm_reset_password"} \cup LinkPages) BY <2>1 DEF Pages, LinkPages, FormPages
  <2>3. ~(tab.broker.context = "fx_ios_v1" /\ setup.service = "sync" /\ t = "asking") \/ Told(answer[1])
    BY <1>2, <1>4, <1>7
  <2>4. TabOK(t, Follow(tab, answer, account, "reset_password_confirmed"))
    BY <1>5, <1>6, <1>7, <1>12, <2>2, <2>3, FollowOK DEF dest
  <2>5. TabsOK' BY <1>1, <1>12, <2>4, TabStep
  <2> QED BY <1>1, <1>2, <1>12, <2>5, Rest DEF IInv
<1> QED BY <1>8, <1>9, <1>10, <1>11, <1>12

-----------------------------------------------------------------------------
(***************************************************************************)
(* The link.                                                               *)
(***************************************************************************)
LEMMA OpenLinkOK ==
    ASSUME IInv, NEW t \in Tabs, NEW n \in 1..MaxTokens, NEW b \in Browsers, OpenLink(t, n, b)
    PROVE  IInv'
<1> DEFINE c == BrokerContext(b)
           keys == VerificationFlow(b).keys
           state == VerificationFlow(b).state
           x == [NewTab(c, keys, state, "complete_reset_password")
                    EXCEPT !.where = b, !.step = "loading", !.token = n, !.marker = tabs[t].marker, !.asked = tabs[t].asked,
                           !.redirected = tabs[t].redirected]
<1>1. /\ TabOK(t, tabs[t]) /\ Set(t, x) /\ inbox' = [inbox EXCEPT ![t] = <<>>]
      /\ UNCHANGED <<setup, server, browser>>
  BY DEF OpenLink, IInv, TabsOK
<1>3. /\ browser[b].context \in Contexts \cup {"none"} /\ browser[b].oauth \in BOOLEAN
      /\ browser[b].context \in SyncContexts => setup.service = "sync"
  BY DEF IInv, BrowserOK
<1>4. c \in Contexts /\ (c \in SyncContexts => setup.service = "sync")
  BY <1>3 DEF BrokerContext, GetVerificationContext, Load, Contexts, SyncContexts, OAuthContexts
<1>5. keys \in BOOLEAN /\ (setup.service = "sync" => keys) /\ state \in BOOLEAN
  BY <1>3, ScenariosAssumption DEF VerificationFlow, IInv
<1> HIDE DEF c, keys, state
<1>6. /\ TabShape(x) /\ x.broker = NewBroker(c, setup.browser) /\ x.page = "complete_reset_password"
      /\ x.step = "loading" /\ x.token = n /\ x.keys = keys /\ x.state = state /\ x.marker = tabs[t].marker
      /\ x.asked = tabs[t].asked /\ x.redirected = tabs[t].redirected
      /\ x.poll = "off" /\ x.login = FALSE /\ x.lost = FALSE /\ x.kB = FALSE /\ x.resetToken = 0
      /\ x.hasRecoveryKey = FALSE /\ x.late = FALSE /\ x.tries = 0 /\ x.says = "nothing" /\ x.reset = FALSE
      /\ x.where = b
  BY DEF NewTab, TabShape
<1> HIDE DEF x
<1>7. /\ x.marker \in BOOLEAN /\ x.asked \in BOOLEAN /\ x.redirected \in BOOLEAN
      /\ x.marker \/ x.redirected => x.asked
  BY <1>1, <1>6 DEF TabOK, TabType, ComesOfAsking
<1>8. x.page \in Pages \ (Last \cup {"confirm_reset_password"}) /\ x.token \in 0..MaxTokens /\ x.token # 0
  BY <1>6 DEF Pages, Last
<1>9. TabOK(t, x) BY <1>4, <1>5, <1>6, <1>7, <1>8, NewTabOK
<1>10. TabsOK' BY <1>1, <1>9, TabStep
<1> QED BY <1>1, <1>10, ForgetOK, Rest DEF IInv

\* The screen a link shows, given a tab that may have lost the key meanwhile.
LEMMA RenderedOK ==
    ASSUME IInv, NEW t \in Tabs, NEW tab, tab.page \in FormPages, TabShape(tab),
           TabOK(t, [tab EXCEPT !.step = "loading"])
    PROVE  TabOK(t, Rendered(tab))
<1> DEFINE y == [tab EXCEPT !.step = "loading"]
           x == Rendered(tab)
           key == "account_recovery_confirm_key"
<1>1. TabShape(y) /\ y.step = "loading" /\ \A f \in (DOMAIN tab) \ {"step"} : y[f] = tab[f] BY DEF TabShape
<1>2. LinkScreen(tab) \in {"form", "expired", "key"} BY DEF LinkScreen
<1>3. LinkScreen(tab) = "form" => tab.kB \/ tab.lost \/ ~server.recoveryKey BY DEF LinkScreen
<1>4. CASE LinkScreen(tab) = "key"
  <2> DEFINE z == [ShowPage(y, key) EXCEPT !.step = "ready", !.lost = y.lost, !.kB = y.kB]
  <2>1. x = z
    <3>1. key \in LinkPages BY DEF LinkPages
    <3>2. ShowPage(tab, key) = [tab EXCEPT !.page = key, !.step = "ready", !.says = "nothing"]
          /\ ShowPage(y, key) = [y EXCEPT !.page = key, !.step = "ready", !.says = "nothing"]
      BY <3>1 DEF ShowPage
    <3>3. x = ShowPage(tab, key) BY <1>4 DEF Rendered
    <3> DEFINE w == ShowPage(y, key)
    <3>4. w = ShowPage(tab, key) BY <3>2 DEF TabShape
    <3>5. w.step = "ready" /\ w.lost = y.lost /\ w.kB = y.kB BY <3>2 DEF TabShape
    <3>6. /\ w = [f \in DOMAIN w |-> w[f]] /\ DOMAIN w = DOMAIN y BY <3>2
    <3>7. z = w
      <4> HIDE DEF w, y, key
      <4> QED BY <3>5, <3>6 DEF w
    <3> HIDE DEF w, x, z
    <3> QED BY <3>3, <3>4, <3>7
  <2>2. y.lost \in BOOLEAN /\ y.kB \in BOOLEAN BY DEF TabOK, TabType
  <2>3. y.page \in LinkPages /\ key \in LinkPages /\ key \notin FormPages BY <1>1 DEF TabShape, LinkPages, FormPages
  <2> HIDE DEF x, y, key
  <2>4. TabOK(t, z) BY <2>2, <2>3, ShowLink DEF y
  <2> QED BY <2>1, <2>4 DEF x
<1>5. ASSUME NEW step \in {"expired", "ready"}, x = [tab EXCEPT !.step = step],
             step = "ready" => tab.kB \/ tab.lost \/ ~server.recoveryKey
      PROVE  TabOK(t, x)
  <2>1. TabShape(x) /\ x.step = step /\ \A f \in (DOMAIN tab) \ {"step"} : x[f] = tab[f] BY <1>5 DEF TabShape
  <2>2. \A f \in (DOMAIN tab) \ {"step"} : x[f] = y[f] BY <1>1, <2>1
  <2> HIDE DEF x, y
  <2>3. TabType(x) BY <1>1, <2>1, <2>2 DEF y, TabOK, TabShape, TabType
  <2>4. FormIsAllowed(x) BY <1>5, <2>1 DEF TabShape, FormIsAllowed
  <2>5. x.marker => y.asked BY <1>1, <2>1, <2>2 DEF y, TabOK, TabShape, ComesOfAsking
  <2>6. TabOK(t, y) BY DEF y
  <2>7. /\ x.page = y.page /\ x.token = y.token /\ x.broker = y.broker /\ x.keys = y.keys /\ x.asked = y.asked
        /\ x.redirected = y.redirected /\ x.reset = y.reset /\ x.login = y.login
    BY <2>1, <2>2 DEF TabShape
  <2> QED BY <2>1, <2>3, <2>4, <2>5, <2>6, <2>7, SmallChange
<1>6. CASE LinkScreen(tab) = "expired" BY <1>5, <1>6 DEF Rendered
<1>7. CASE LinkScreen(tab) = "form" BY <1>3, <1>5, <1>7 DEF Rendered
<1> QED BY <1>2, <1>4, <1>6, <1>7

LEMMA LinkLoadedOK == ASSUME IInv, NEW t \in Tabs, LinkLoaded(t) PROVE IInv'
<1> DEFINE tab == tabs[t]
           m == [name |-> "tab open", late |-> server.resetWith # {}]
<1>1. /\ TabOK(t, tab) /\ tab.page \in FormPages /\ tab.step = "loading" /\ UNCHANGED <<setup, server, browser>>
      /\ Set(t, Rendered(tab))
      /\ IF LinkScreen(tab) = "key" THEN UNCHANGED inbox ELSE TriggerRemote(t, m)
  BY DEF LinkLoaded, IInv, TabsOK
<1>2. TabOK(t, Rendered(tab))
  <2>1. TabShape(tab) /\ TabShape([tab EXCEPT !.step = "loading"]) BY <1>1 DEF TabOK, TabShape
  <2> DEFINE y == [tab EXCEPT !.step = "loading"]
  <2>2. y.step = tab.step /\ \A f \in (DOMAIN tab) \ {"step"} : y[f] = tab[f] BY <1>1, <2>1 DEF TabShape
  <2> HIDE DEF y
  <2>3. TabType(y) BY <1>1, <2>1, <2>2 DEF TabOK, TabShape, TabType
  <2>4. FormIsAllowed(y) BY <1>1, <2>1, <2>2 DEF TabOK, TabShape, FormIsAllowed
  <2>5. y.marker => tab.asked BY <1>1, <2>1, <2>2 DEF TabOK, TabShape, ComesOfAsking
  <2>6. TabOK(t, y) BY <1>1, <2>1, <2>2, <2>3, <2>4, <2>5, SmallChange DEF y, TabShape
  <2> QED BY <1>1, <2>1, <2>6, RenderedOK DEF y
<1>3. TabsOK' BY <1>1, <1>2, TabStep
<1>4. m \in Messages /\ m.name # "signed in" BY DEF Messages
<1> HIDE DEF m
<1>5. InboxOK' BY <1>1, <1>4, TriggerOK, Rest
<1> QED BY <1>1, <1>3, <1>5, Rest DEF IInv

LEMMA LostRecoveryKeyOK == ASSUME IInv, NEW t \in Tabs, LostRecoveryKey(t) PROVE IInv'
<1> DEFINE tab == tabs[t]
           s == ShowPage(tab, "complete_reset_password")
           x == [s EXCEPT !.step = "loading", !.lost = TRUE]
<1>1. /\ TabOK(t, tab) /\ tab.page = "account_recovery_confirm_key" /\ Set(t, x)
      /\ UNCHANGED <<setup, server, browser, inbox>>
  BY DEF LostRecoveryKey, IInv, TabsOK
<1>2. x = [s EXCEPT !.step = "loading", !.lost = TRUE, !.kB = tab.kB]
  BY <1>1 DEF ShowPage, TabOK, TabShape, LinkPages, FormPages
<1>3. tab.kB \in BOOLEAN BY <1>1 DEF TabOK, TabType
<1>4. "complete_reset_password" \in LinkPages /\ tab.page \in LinkPages BY <1>1 DEF LinkPages, FormPages
<1> HIDE DEF x
<1>5. TabOK(t, x) BY <1>1, <1>2, <1>3, <1>4, ShowLink
<1> QED BY <1>1, <1>5, OnlyTab

\* Another step on the same screen of a link.
LEMMA StepOK ==
    ASSUME NEW t \in Tabs, NEW tab, TabOK(t, tab), tab.page \in LinkPages,
           NEW step \in {"loading", "ready", "expired", "resetting", "reset", "keyed"}, NEW resetToken \in 0..MaxTokens,
           step \in {"ready", "resetting", "reset"} => tab.step \in {"ready", "resetting", "reset"} \/ tab.page \notin FormPages
    PROVE  TabOK(t, [tab EXCEPT !.step = step, !.resetToken = resetToken])
<1> DEFINE x == [tab EXCEPT !.step = step, !.resetToken = resetToken]
<1>1. /\ TabShape(x) /\ x.step = step /\ x.resetToken = resetToken
      /\ \A f \in (DOMAIN tab) \ {"step", "resetToken"} : x[f] = tab[f]
  BY DEF TabOK, TabShape
<1> HIDE DEF x
<1>2. TabType(x) BY <1>1 DEF TabOK, TabShape, TabType
<1>3. FormIsAllowed(x) BY <1>1 DEF TabOK, TabShape, FormIsAllowed
<1>4. x.marker => tab.asked BY <1>1 DEF TabOK, TabShape, ComesOfAsking
<1>5. TabOK(t, x) BY <1>1, <1>2, <1>3, <1>4, SmallChange DEF TabOK, TabShape
<1> QED BY <1>5 DEF x

LEMMA ExchangeOK ==
    ASSUME IInv, UNCHANGED setup, NEW n \in 0..MaxTokens, Exchange(n)
    PROVE  ServerOK' /\ server'.recoveryKey = server.recoveryKey
<1>1. server' = [server EXCEPT !.tokens[n] = "exchanged", !.resetToken = n] BY DEF Exchange
<1>2. /\ DOMAIN server' = DOMAIN server /\ server'.resetToken = n
      /\ server'.tokens = [server.tokens EXCEPT ![n] = "exchanged"]
      /\ server'.recoveryKey = server.recoveryKey /\ server'.kB = server.kB /\ server'.resetWith = server.resetWith
      /\ server'.answered = server.answered
  BY <1>1 DEF IInv, ServerOK
<1>3. server'.tokens \in [1..MaxTokens -> {"none", "valid", "exchanged", "expired"}]
  BY <1>2 DEF IInv, ServerOK
<1> QED BY <1>2, <1>3 DEF IInv, ServerOK

LEMMA VerifyCodeOK == ASSUME IInv, NEW t \in Tabs, VerifyCode(t) PROVE IInv'
<1> DEFINE tab == tabs[t]
<1>1. /\ TabOK(t, tab) /\ tab.page = "account_recovery_confirm_key" /\ tab.step = "ready"
      /\ UNCHANGED <<setup, browser, inbox>>
  BY DEF VerifyCode, IInv, TabsOK
<1>2. tab.page \in LinkPages /\ tab.page \notin FormPages BY <1>1 DEF LinkPages, FormPages
<1>3. tab.resetToken \in 0..MaxTokens /\ tab.token \in 0..MaxTokens BY <1>1 DEF TabOK, TabType
<1>4. ASSUME NEW step \in {"keyed", "expired"}
      PROVE  TabOK(t, [tab EXCEPT !.step = step])
  <2>1. [tab EXCEPT !.step = step] = [tab EXCEPT !.step = step, !.resetToken = tab.resetToken]
    BY <1>1 DEF TabOK, TabShape
  <2>2. TabOK(t, [tab EXCEPT !.step = step, !.resetToken = tab.resetToken]) BY <1>1, <1>2, <1>3, StepOK
  <2> QED BY <2>1, <2>2
<1>5. CASE Set(t, [tab EXCEPT !.step = "keyed"]) /\ UNCHANGED server
  <2>1. TabOK(t, [tab EXCEPT !.step = "keyed"]) BY <1>4
  <2> QED BY <1>1, <1>5, <2>1, OnlyTab
<1>6. CASE Set(t, [tab EXCEPT !.step = "keyed", !.resetToken = tab.token]) /\ Exchange(tab.token)
  <2>1. TabOK(t, [tab EXCEPT !.step = "keyed", !.resetToken = tab.token]) BY <1>1, <1>2, <1>3, StepOK
  <2>2. ServerOK' /\ server'.recoveryKey = server.recoveryKey BY <1>1, <1>3, <1>6, ExchangeOK
  <2>3. TabsOK' BY <1>1, <1>6, <2>1, <2>2, TabStep
  <2> QED BY <1>1, <2>2, <2>3, Rest DEF IInv
<1>7. CASE Set(t, [tab EXCEPT !.step = "expired"]) /\ UNCHANGED server
  <2>1. TabOK(t, [tab EXCEPT !.step = "expired"]) BY <1>4
  <2> QED BY <1>1, <1>7, <2>1, OnlyTab
<1> QED BY <1>5, <1>6, <1>7 DEF VerifyCode

LEMMA GetRecoveryBundleOK == ASSUME IInv, NEW t \in Tabs, GetRecoveryBundle(t) PROVE IInv'
<1> DEFINE tab == tabs[t]
           s == ShowPage(tab, "account_recovery_reset_password")
<1>1. /\ TabOK(t, tab) /\ tab.page = "account_recovery_confirm_key"
      /\ UNCHANGED <<setup, server, browser, inbox>>
  BY DEF GetRecoveryBundle, IInv, TabsOK
<1>2. tab.page \in LinkPages /\ tab.page \notin FormPages /\ "account_recovery_reset_password" \in LinkPages
  BY <1>1 DEF LinkPages, FormPages
<1>3. tab.resetToken \in 0..MaxTokens /\ tab.lost \in BOOLEAN BY <1>1 DEF TabOK, TabType
<1>4. ASSUME NEW step \in {"ready", "expired"}
      PROVE  TabOK(t, [tab EXCEPT !.step = step])
  <2>1. [tab EXCEPT !.step = step] = [tab EXCEPT !.step = step, !.resetToken = tab.resetToken]
    BY <1>1 DEF TabOK, TabShape
  <2>2. TabOK(t, [tab EXCEPT !.step = step, !.resetToken = tab.resetToken]) BY <1>1, <1>2, <1>3, StepOK
  <2> QED BY <2>1, <2>2
<1>5. TabOK(t, [s EXCEPT !.step = "loading", !.kB = TRUE])
  <2>1. [s EXCEPT !.step = "loading", !.kB = TRUE] = [s EXCEPT !.step = "loading", !.lost = tab.lost, !.kB = TRUE]
    BY <1>1, <1>2 DEF ShowPage, TabOK, TabShape
  <2>2. TabOK(t, [s EXCEPT !.step = "loading", !.lost = tab.lost, !.kB = TRUE]) BY <1>1, <1>2, <1>3, ShowLink
  <2> QED BY <2>1, <2>2
<1>6. \/ Set(t, [tab EXCEPT !.step = "expired"])
      \/ Set(t, [tab EXCEPT !.step = "ready"])
      \/ Set(t, [s EXCEPT !.step = "loading", !.kB = TRUE])
  BY DEF GetRecoveryBundle, BundleOf
<1> HIDE DEF s
<1>7. TabOK(t, [tab EXCEPT !.step = "expired"]) /\ TabOK(t, [tab EXCEPT !.step = "ready"]) BY <1>4
<1> QED BY <1>1, <1>5, <1>6, <1>7, OnlyTab

LEMMA InvalidTokenOK ==
    ASSUME IInv, NEW t \in Tabs, NEW tab, TabOK(t, tab), tab.page \in FormPages
    PROVE  TabOK(t, InvalidToken(tab))
<1> DEFINE z == [tab EXCEPT !.kB = FALSE]
           y == [z EXCEPT !.step = "loading"]
<1>1. /\ TabShape(z) /\ TabShape(y) /\ y.step = "loading" /\ y.kB = FALSE
      /\ \A f \in (DOMAIN tab) \ {"step", "kB"} : y[f] = tab[f]
      /\ z.page = tab.page
  BY DEF TabOK, TabShape
<1>2. TabOK(t, y)
  <2> HIDE DEF y
  <2>1. TabType(y) BY <1>1 DEF TabOK, TabShape, TabType
  <2>2. FormIsAllowed(y) BY <1>1 DEF FormIsAllowed
  <2>3. y.marker => tab.asked BY <1>1 DEF TabOK, TabShape, ComesOfAsking
  <2> QED BY <1>1, <2>1, <2>2, <2>3, SmallChange DEF TabOK, TabShape
<1> HIDE DEF z
<1>3. TabOK(t, Rendered(z)) BY <1>1, <1>2, RenderedOK
<1> QED BY <1>3 DEF InvalidToken, z

LEMMA SubmitResetOK == ASSUME IInv, NEW t \in Tabs, SubmitReset(t) PROVE IInv'
<1> DEFINE tab == tabs[t]
<1>1. /\ TabOK(t, tab) /\ tab.page \in FormPages /\ tab.step = "ready" /\ UNCHANGED <<setup, browser, inbox>>
  BY DEF SubmitReset, IInv, TabsOK
<1>2. tab.page \in LinkPages BY <1>1 DEF LinkPages
<1>3. tab.resetToken \in 0..MaxTokens /\ tab.token \in 0..MaxTokens BY <1>1 DEF TabOK, TabType
<1>4. CASE Set(t, [tab EXCEPT !.step = "resetting"]) /\ UNCHANGED server
  <2>1. [tab EXCEPT !.step = "resetting"] = [tab EXCEPT !.step = "resetting", !.resetToken = tab.resetToken]
    BY <1>1 DEF TabOK, TabShape
  <2>2. TabOK(t, [tab EXCEPT !.step = "resetting", !.resetToken = tab.resetToken]) BY <1>1, <1>2, <1>3, StepOK
  <2>3. TabOK(t, [tab EXCEPT !.step = "resetting"]) BY <2>1, <2>2
  <2> QED BY <1>1, <1>4, <2>3, OnlyTab
<1>5. CASE Set(t, [tab EXCEPT !.step = "resetting", !.resetToken = tab.token]) /\ Exchange(tab.token)
  <2>1. TabOK(t, [tab EXCEPT !.step = "resetting", !.resetToken = tab.token]) BY <1>1, <1>2, <1>3, StepOK
  <2>2. ServerOK' /\ server'.recoveryKey = server.recoveryKey BY <1>1, <1>3, <1>5, ExchangeOK
  <2>3. TabsOK' BY <1>1, <1>5, <2>1, <2>2, TabStep
  <2> QED BY <1>1, <2>2, <2>3, Rest DEF IInv
<1>6. CASE Set(t, InvalidToken(tab)) /\ UNCHANGED server
  <2>1. TabOK(t, InvalidToken(tab)) BY <1>1, InvalidTokenOK
  <2> QED BY <1>1, <1>6, <2>1, OnlyTab
<1> QED BY <1>4, <1>5, <1>6 DEF SubmitReset

-----------------------------------------------------------------------------
(***************************************************************************)
(* The new password.                                                       *)
(***************************************************************************)
\* The tab of a link once the server has answered, with what its broker sent.
LEMMA ToldOK ==
    ASSUME NEW t \in Tabs, NEW tab, TabOK(t, tab), tab.page \in FormPages,
           NEW b, BrokerOK(b), Follows(b, tab.broker),
           tab.broker.context \in WebChannelContexts /\ ~setup.totp => Told(b),
           NEW x, TabShape(x), x.reset = TRUE, x.broker = b,
           \A f \in (DOMAIN tab) \ {"reset", "broker"} : x[f] = tab[f]
    PROVE  TabOK(t, x) /\ x.page = tab.page /\ x.asked = tab.asked
<1>1. /\ TabShape(x) /\ x.reset = TRUE /\ x.broker = b
      /\ \A f \in (DOMAIN tab) \ {"reset", "broker"} : x[f] = tab[f]
  OBVIOUS
<1>2. TabType(x) BY <1>1 DEF TabOK, TabShape, TabType
<1>3. ComesOfAsking(x) /\ HasToken(x) /\ WantsKeys(x) /\ FormIsAllowed(x)
  BY <1>1 DEF TabOK, TabShape, ComesOfAsking, HasToken, WantsKeys, FormIsAllowed
<1>4. TellsBrowser(t, x) BY <1>1 DEF TabOK, TabShape, TellsBrowser, Follows, FormPages, Last
<1>5. TabOK(t, x) BY <1>1, <1>2, <1>3, <1>4 DEF TabOK
<1> QED BY <1>1, <1>5 DEF TabOK, TabShape

LEMMA CompletedOK ==
    ASSUME IInv, UNCHANGED setup, server'.recoveryKey => server.recoveryKey,
           NEW t \in Tabs, tabs[t].page \in FormPages, Completed(t, NewSession(tabs[t]))
    PROVE  TabsOK' /\ BrowserOK'
<1> DEFINE tab0 == tabs[t]
           account == NewSession(tab0)
           tab == [tab0 EXCEPT !.reset = TRUE]
           answer == AfterCompleteResetPassword(tab.broker, account)
           told == [tab EXCEPT !.broker = answer[1]]
           next == OAuthBehavior(tab, account, answer)
<1>1. TabOK(t, tab0) BY DEF IInv, TabsOK
<1>2. account.keys = tab0.keys /\ account.session = 1 /\ (~setup.totp => SignedInByReset(account))
      /\ AccountOK(account)
  <2>1. tab0.keys \in BOOLEAN /\ setup.totp \in BOOLEAN
    BY <1>1, ScenariosAssumption DEF TabOK, TabType, IInv
  <2> QED BY <2>1 DEF NewSession, AccountOK, SignedInByReset
<1>3. tab.broker = tab0.broker /\ tab.marker = tab0.marker /\ tab.state = tab0.state /\ tab.kB = tab0.kB
  BY <1>1 DEF TabOK, TabShape
<1>4. /\ BrokerOK(answer[1]) /\ Follows(answer[1], tab0.broker)
      /\ tab0.broker.context \in WebChannelContexts /\ SignedInByReset(account) /\ account.keys => Told(answer[1])
      /\ answer[2] \in {Null, Navigate("settings"), Navigate("signin_totp_code")}
  BY <1>1, <1>2, <1>3, CompleteOK DEF TabOK
<1>5. tab0.broker.context \in WebChannelContexts /\ ~setup.totp => Told(answer[1])
  <2>1. tab0.broker.context \in WebChannelContexts => setup.service = "sync"
    BY <1>1 DEF TabOK, BrokerOK, BrokerShape, WebChannelContexts
  <2>2. setup.service = "sync" => tab0.keys BY <1>1 DEF TabOK, WantsKeys, FormPages
  <2> QED BY <1>2, <1>4, <2>1, <2>2
<1>6. /\ TabShape(told) /\ told.reset = TRUE /\ told.broker = answer[1]
      /\ \A f \in (DOMAIN tab0) \ {"reset", "broker"} : told[f] = tab0[f]
  <2> HIDE DEF answer
  <2> QED BY <1>1 DEF TabOK, TabShape
<1>7. next[1] = answer[1] /\ next[2] \in {Null, Navigate("settings"), Navigate("signin_totp_code")}
  BY <1>4 DEF OAuthBehavior
<1>8. IF FinishesInLinkTab(tab, account)
          THEN /\ \E ok \in BOOLEAN : Set(t, FinishOAuthFlow(told, ok))
               /\ browser' = SessionClear(t)
          ELSE /\ Set(t, Follow(told, next, account, VerifiedPage(tab)))
               /\ UNCHANGED browser
  BY DEF Completed
<1>9. FinishesInLinkTab(tab, account) => tab0.marker BY <1>3 DEF FinishesInLinkTab
<1> HIDE DEF answer, told, account, next
<1>10. TabOK(t, told) /\ told.page = tab0.page /\ told.broker = answer[1] /\ told.asked = tab0.asked
  <2>1. TabOK(t, tab0) /\ tab0.page \in FormPages BY <1>1
  <2> DEFINE b == answer[1]
  <2>2. BrokerOK(b) /\ Follows(b, tab0.broker) BY <1>4
  <2>3. tab0.broker.context \in WebChannelContexts /\ ~setup.totp => Told(b) BY <1>5
  <2>4. /\ TabShape(told) /\ told.reset = TRUE /\ told.broker = b
        /\ \A f \in (DOMAIN tab0) \ {"reset", "broker"} : told[f] = tab0[f]
    BY <1>6
  <2> HIDE DEF b, tab0
  <2>5. TabOK(t, told) /\ told.page = tab0.page /\ told.asked = tab0.asked
    BY <2>1, <2>2, <2>3, <2>4, ToldOK
  <2> QED BY <2>4, <2>5 DEF b
<1>11. told.page # "none" BY <1>10 DEF FormPages
<1>12. CASE FinishesInLinkTab(tab, account)
  <2>1. told.asked BY <1>1, <1>9, <1>10, <1>12 DEF TabOK, ComesOfAsking
  <2>2. PICK ok \in BOOLEAN : Set(t, FinishOAuthFlow(told, ok)) BY <1>8, <1>12
  <2>3. TabOK(t, FinishOAuthFlow(told, ok)) BY <1>10, <1>11, <2>1, FinishOK
  <2>4. TabsOK' BY <2>2, <2>3, TabStep
  <2> QED BY <1>8, <1>12, <2>4, ClearOK
<1>13. CASE ~FinishesInLinkTab(tab, account)
  <2> DEFINE page == VerifiedPage(tab)
             dest == Destination(next[2], next[1].caps, Knows(account), page)
  <2>1. page \in {"reset_password_with_recovery_key_verified", "reset_password_verified"} BY DEF VerifiedPage
  <2> HIDE DEF page
  <2>2. dest \in {page, "settings", "signin_totp_code"}
    <3> DEFINE D(b) == Destination(b, next[1].caps, Knows(account), page)
    <3>1. D(Null) = page BY Destinations
    <3>2. D(Navigate("settings")) = "settings" BY Destinations
    <3>3. D(Navigate("signin_totp_code")) = "signin_totp_code" BY Destinations
    <3> HIDE DEF D
    <3>4. D(next[2]) \in {page, "settings", "signin_totp_code"} BY <1>7, <3>1, <3>2, <3>3
    <3> QED BY <3>4 DEF D
  <2> HIDE DEF dest
  <2>3. dest \in Pages \ ({"none", "confirm_reset_password"} \cup LinkPages) /\ dest \notin Last
    BY <2>1, <2>2 DEF Pages, LinkPages, FormPages, Last
  <2>4. BrokerOK(next[1]) /\ Follows(next[1], told.broker) BY <1>4, <1>7, <1>10 DEF Follows
  <2>5. TabOK(t, Follow(told, next, account, page)) BY <1>10, <1>11, <2>3, <2>4, FollowOK DEF dest
  <2>6. Set(t, Follow(told, next, account, page)) BY <1>8, <1>13 DEF page
  <2>7. TabsOK' BY <2>5, <2>6, TabStep
  <2> QED BY <1>8, <1>13, <2>7, Rest
<1> QED BY <1>12, <1>13

\* Another step on a form that is asked for a new password.
LEMMA FormStepOK ==
    ASSUME NEW t \in Tabs, NEW tab, TabOK(t, tab), tab.page \in FormPages, tab.step \in {"resetting", "reset"},
           NEW step \in {"ready", "reset"}
    PROVE  TabOK(t, [tab EXCEPT !.step = step])
<1>1. tab.page \in LinkPages /\ tab.resetToken \in 0..MaxTokens BY DEF LinkPages, TabOK, TabType
<1>2. [tab EXCEPT !.step = step] = [tab EXCEPT !.step = step, !.resetToken = tab.resetToken] BY DEF TabOK, TabShape
<1>3. TabOK(t, [tab EXCEPT !.step = step, !.resetToken = tab.resetToken]) BY <1>1, StepOK
<1> QED BY <1>2, <1>3

LEMMA AccountResetOK == ASSUME IInv, NEW t \in Tabs, AccountReset(t) PROVE IInv'
<1> DEFINE tab == tabs[t]
<1>1. TabOK(t, tab) /\ tab.page \in FormPages /\ tab.step = "resetting" /\ UNCHANGED <<setup, browser, inbox>>
  BY DEF AccountReset, IInv, TabsOK
<1>2. CASE /\ server' = [server EXCEPT !.resetToken = 0, !.resetWith = @ \cup {tab.token},
                                       !.kB = IF tab.kB THEN @ ELSE "new", !.recoveryKey = FALSE]
           /\ Set(t, [tab EXCEPT !.step = "reset"])
  <2>1. tab.token \in 1..MaxTokens
    BY <1>1, BoundsAssumption DEF TabOK, TabType, HasToken, LinkPages
  <2>2. /\ DOMAIN server' = DOMAIN server /\ server'.resetToken = 0 /\ server'.tokens = server.tokens
        /\ server'.kB \in {server.kB, "new"} /\ server'.recoveryKey = FALSE
        /\ server'.resetWith = server.resetWith \cup {tab.token} /\ server'.answered = server.answered
    BY <1>2 DEF IInv, ServerOK
  <2>3. ServerOK'
    <3>1. ServerOK BY DEF IInv
    <3>2. server'.resetToken \in 0..MaxTokens BY <2>2, BoundsAssumption
    <3>3. server'.kB \in {"old", "new"} /\ server'.recoveryKey \in BOOLEAN BY <2>2, <3>1 DEF ServerOK
    <3>4. server'.resetWith \subseteq 1..MaxTokens BY <2>1, <2>2, <3>1 DEF ServerOK
    <3> QED BY <2>2, <3>1, <3>2, <3>3, <3>4 DEF ServerOK
  <2>4. TabOK(t, [tab EXCEPT !.step = "reset"]) BY <1>1, FormStepOK
  <2>5. TabsOK' BY <1>1, <1>2, <2>2, <2>4, TabStep
  <2> QED BY <1>1, <2>3, <2>5, Rest DEF IInv
<1>3. CASE Set(t, InvalidToken(tab)) /\ UNCHANGED server
  <2>1. TabOK(t, InvalidToken(tab)) BY <1>1, InvalidTokenOK
  <2> QED BY <1>1, <1>3, <2>1, OnlyTab
<1>4. CASE Set(t, [tab EXCEPT !.step = "ready"]) /\ UNCHANGED server
  <2>1. TabOK(t, [tab EXCEPT !.step = "ready"]) BY <1>1, FormStepOK
  <2> QED BY <1>1, <1>4, <2>1, OnlyTab
<1> QED BY <1>2, <1>3, <1>4 DEF AccountReset

LEMMA ResetAnsweredOK == ASSUME IInv, NEW t \in Tabs, ResetAnswered(t) PROVE IInv'
<1> DEFINE tab == tabs[t]
<1>1. TabOK(t, tab) /\ tab.page \in FormPages /\ tab.step = "reset" /\ UNCHANGED setup
  BY DEF ResetAnswered, IInv, TabsOK
<1>2. CASE /\ server' = [server EXCEPT !.answered = @ \cup {<<BrowserOf(t), tab.token>>}]
           /\ TriggerRemote(t, SignedIn(tab, NewSession(tab)))
           /\ Completed(t, NewSession(tab))
  <2>1. tab.token \in 1..MaxTokens /\ BrowserOf(t) \in Browsers
    BY <1>1, InBrowser, BoundsAssumption DEF TabOK, TabType, HasToken, LinkPages
  <2>2. /\ server'.answered = server.answered \cup {<<BrowserOf(t), tab.token>>} /\ DOMAIN server' = DOMAIN server
        /\ server'.tokens = server.tokens /\ server'.resetToken = server.resetToken /\ server'.kB = server.kB
        /\ server'.recoveryKey = server.recoveryKey /\ server'.resetWith = server.resetWith
    BY <1>2 DEF IInv, ServerOK
  <2>3. ServerOK' BY <2>1, <2>2 DEF IInv, ServerOK
  <2> DEFINE m == SignedIn(tab, NewSession(tab))
  <2>4. m \in Messages /\ m.keys = tab.keys
    <3>1. tab.keys \in BOOLEAN /\ setup.totp \in BOOLEAN
      BY <1>1, ScenariosAssumption DEF TabOK, TabType, IInv
    <3> QED BY <3>1 DEF SignedIn, NewSession, Messages
  <2>5. setup.service = "sync" => tab.keys BY <1>1 DEF TabOK, WantsKeys, FormPages
  <2> HIDE DEF m
  <2>6. InboxOK' BY <1>1, <1>2, <2>4, <2>5, TriggerOK DEF m
  <2>7. TabsOK' /\ BrowserOK' BY <1>1, <1>2, <2>2, CompletedOK
  <2> QED BY <1>1, <2>3, <2>6, <2>7, Rest DEF IInv
<1>3. CASE Set(t, [tab EXCEPT !.step = "ready"]) /\ UNCHANGED <<server, browser, inbox>>
  <2>1. TabOK(t, [tab EXCEPT !.step = "ready"]) BY <1>1, FormStepOK
  <2> QED BY <1>1, <1>3, <2>1, OnlyTab
<1> QED BY <1>2, <1>3 DEF ResetAnswered

-----------------------------------------------------------------------------
(***************************************************************************)
(* The user closes or reloads a tab; a token grows old.                    *)
(***************************************************************************)
\* A tab before a page is loaded, or once it is closed.
LEMMA ClosedOK ==
    ASSUME NEW t \in Tabs, NEW x, TabShape(x), x.broker = NewBroker("web", setup.browser), x.page = "none",
           x.where \in Browsers, x.step = "ready", x.token = 0, x.keys = FALSE, x.state = FALSE, x.marker = FALSE,
           x.asked \in BOOLEAN, x.redirected \in BOOLEAN, x.redirected => x.asked,
           x.poll = "off", x.login = FALSE, x.lost = FALSE, x.kB = FALSE, x.resetToken = 0,
           x.hasRecoveryKey = FALSE, x.late = FALSE, x.tries = 0, x.says = "nothing", x.reset = FALSE
    PROVE  TabOK(t, x)
<1>1. "web" \in Contexts /\ "web" \notin SyncContexts BY DEF Contexts, SyncContexts, OAuthContexts
<1>2. x.page \in Pages \ (Last \cup {"confirm_reset_password"}) /\ x.page \notin LinkPages /\ x.page \notin FormPages
  BY DEF Pages, Last, LinkPages, FormPages
<1>3. 0 \in 0..MaxTokens BY BoundsAssumption
<1> QED BY <1>1, <1>2, <1>3, NewTabOK

LEMMA CloseOK == ASSUME IInv, NEW t \in Tabs, Close(t) PROVE IInv'
<1> DEFINE x == [NewTab("web", FALSE, FALSE, "none") EXCEPT !.redirected = tabs[t].redirected, !.asked = tabs[t].asked]
<1>1. /\ TabOK(t, tabs[t]) /\ Set(t, x) /\ inbox' = [inbox EXCEPT ![t] = <<>>]
      /\ UNCHANGED <<setup, server, browser>>
  BY DEF Close, IInv, TabsOK
<1>2. tabs[t].asked \in BOOLEAN /\ tabs[t].redirected \in BOOLEAN /\ (tabs[t].redirected => tabs[t].asked)
  BY <1>1 DEF TabOK, TabType, ComesOfAsking
<1>5. /\ TabShape(x) /\ x.broker = NewBroker("web", setup.browser) /\ x.page = "none"
      /\ x.step = "ready" /\ x.token = 0 /\ x.keys = FALSE /\ x.state = FALSE /\ x.marker = FALSE
      /\ x.asked = tabs[t].asked /\ x.redirected = tabs[t].redirected
      /\ x.poll = "off" /\ x.login = FALSE /\ x.lost = FALSE /\ x.kB = FALSE /\ x.resetToken = 0
      /\ x.hasRecoveryKey = FALSE /\ x.late = FALSE /\ x.tries = 0 /\ x.says = "nothing" /\ x.reset = FALSE
      /\ x.where \in Browsers
  BY DEF NewTab, TabShape, Browsers
<1> HIDE DEF x
<1>3. TabOK(t, x) BY <1>2, <1>5, ClosedOK
<1>4. TabsOK' BY <1>1, <1>3, TabStep
<1> QED BY <1>1, <1>4, ForgetOK, Rest DEF IInv

LEMMA ReloadOK == ASSUME IInv, NEW t \in Tabs, Reload(t) PROVE IInv'
<1> DEFINE tab == tabs[t]
<1>1. TabOK(t, tab) /\ inbox' = [inbox EXCEPT ![t] = <<>>] /\ UNCHANGED <<setup, server, browser>>
  BY DEF Reload, IInv, TabsOK
<1>2. ASSUME NEW x, TabOK(t, x), Set(t, x) PROVE IInv'
  <2>1. TabsOK' BY <1>1, <1>2, TabStep
  <2> QED BY <1>1, <2>1, ForgetOK, Rest DEF IInv
<1>3. CASE tab.page = "confirm_reset_password" /\ Set(t, ShowPage(tab, "reset_password"))
  <2>1. TabOK(t, ShowPage(tab, "reset_password"))
    BY <1>1, <1>3, ShowOther DEF Pages, LinkPages, FormPages, Last
  <2> QED BY <1>2, <1>3, <2>1
<1>4. CASE /\ tab.page \in FormPages
           /\ Set(t, [tab EXCEPT !.step = "loading", !.kB = FALSE, !.lost = FALSE, !.resetToken = 0])
  <2> DEFINE x == [tab EXCEPT !.step = "loading", !.kB = FALSE, !.lost = FALSE, !.resetToken = 0]
  <2>1. /\ TabShape(x) /\ x.step = "loading" /\ x.kB = FALSE /\ x.lost = FALSE /\ x.resetToken = 0
        /\ \A f \in (DOMAIN tab) \ {"step", "kB", "lost", "resetToken"} : x[f] = tab[f]
    BY <1>1 DEF TabOK, TabShape
  <2>2. Set(t, x) BY <1>4
  <2> HIDE DEF x
  <2>3. 0 \in 0..MaxTokens BY BoundsAssumption
  <2>4. TabType(x) BY <1>1, <2>1, <2>3 DEF TabOK, TabShape, TabType
  <2>5. FormIsAllowed(x) BY <2>1 DEF FormIsAllowed
  <2>6. x.marker => tab.asked BY <1>1, <2>1 DEF TabOK, TabShape, ComesOfAsking
  <2>7. TabOK(t, x) BY <1>1, <2>1, <2>4, <2>5, <2>6, SmallChange DEF TabOK, TabShape
  <2> QED BY <1>2, <2>2, <2>7
<1>5. CASE /\ tab.page = "account_recovery_confirm_key"
           /\ Set(t, [tab EXCEPT !.step = "ready", !.resetToken = 0])
  <2>1. tab.page \in LinkPages /\ tab.page \notin FormPages /\ 0 \in 0..MaxTokens
    BY <1>5, BoundsAssumption DEF LinkPages, FormPages
  <2>2. TabOK(t, [tab EXCEPT !.step = "ready", !.resetToken = 0]) BY <1>1, <2>1, StepOK
  <2> QED BY <1>2, <1>5, <2>2
<1> QED BY <1>3, <1>4, <1>5 DEF Reload

LEMMA TokenExpiresOK == ASSUME IInv, NEW n \in 1..MaxTokens, TokenExpires(n) PROVE IInv'
<1>1. server' = [server EXCEPT !.tokens[n] = "expired"] /\ UNCHANGED <<setup, browser, tabs, inbox>>
  BY DEF TokenExpires
<1>2. /\ DOMAIN server' = DOMAIN server /\ server'.resetToken = server.resetToken
      /\ server'.tokens = [server.tokens EXCEPT ![n] = "expired"]
      /\ server'.recoveryKey = server.recoveryKey /\ server'.kB = server.kB /\ server'.resetWith = server.resetWith
      /\ server'.answered = server.answered
  BY <1>1 DEF IInv, ServerOK
<1>3. server'.tokens \in [1..MaxTokens -> {"none", "valid", "exchanged", "expired"}]
  BY <1>2 DEF IInv, ServerOK
<1>4. ServerOK' BY <1>2, <1>3 DEF IInv, ServerOK
<1>5. TabsOK' BY <1>1, <1>2, NoTabStep
<1> QED BY <1>1, <1>4, <1>5, Rest DEF IInv

-----------------------------------------------------------------------------
(***************************************************************************)
(* The invariant.                                                          *)
(***************************************************************************)
LEMMA InitOK == Init => IInv
<1> SUFFICES ASSUME Init PROVE IInv OBVIOUS
<1>1. /\ setup \in Scenarios
      /\ server = [tokens |-> [n \in 1..MaxTokens |-> "none"], resetToken |-> 0, recoveryKey |-> setup.recovery,
                   kB |-> "old", resetWith |-> {}, answered |-> {}]
      /\ browser = [b \in Browsers |-> [context |-> "none", oauth |-> FALSE]]
      /\ inbox = [t \in Tabs |-> <<>>]
  BY DEF Init
<1>2. /\ setup.context \in Contexts /\ setup.keys \in BOOLEAN /\ setup.recovery \in BOOLEAN
      /\ setup.context \in SyncContexts => setup.service = "sync"
      /\ setup.service = "sync" => setup.keys
  BY <1>1, ScenariosAssumption
<1>3. ServerOK BY <1>1, <1>2, BoundsAssumption DEF ServerOK
<1>4. BrowserOK BY <1>1 DEF BrowserOK, SyncContexts
<1>5. InboxOK
  <2>1. <<>> \in Seq(Messages) /\ DOMAIN <<>> = {} OBVIOUS
  <2> QED BY <1>1, <2>1 DEF InboxOK
<1>6. TabsOK
  <2>1. DOMAIN tabs = Tabs BY DEF Init
  <2>2. TabOK("asking", tabs["asking"])
    <3> DEFINE x == NewTab(setup.context, setup.keys, TRUE, "reset_password")
    <3>1. tabs["asking"] = x BY DEF Init, Tabs
    <3>2. /\ TabShape(x) /\ x.broker = NewBroker(setup.context, setup.browser) /\ x.page = "reset_password"
          /\ x.step = "ready" /\ x.token = 0 /\ x.keys = setup.keys /\ x.state = TRUE /\ x.marker = FALSE
          /\ x.asked = FALSE /\ x.redirected = FALSE
          /\ x.poll = "off" /\ x.login = FALSE /\ x.lost = FALSE /\ x.kB = FALSE /\ x.resetToken = 0
          /\ x.hasRecoveryKey = FALSE /\ x.late = FALSE /\ x.tries = 0 /\ x.says = "nothing" /\ x.reset = FALSE
          /\ x.where \in Browsers
      BY DEF NewTab, TabShape, Browsers
    <3> HIDE DEF x
    <3>3. x.page \in Pages \ (Last \cup {"confirm_reset_password"}) /\ x.page \notin LinkPages /\ x.page \notin FormPages
      BY <3>2 DEF Pages, Last, LinkPages, FormPages
    <3>4. 0 \in 0..MaxTokens /\ "asking" \in Tabs BY BoundsAssumption DEF Tabs
    <3> DEFINE c == setup.context
    <3>5. c \in Contexts /\ (c \in SyncContexts => setup.service = "sync") /\ x.broker = NewBroker(c, setup.browser)
      BY <1>2, <3>2
    <3> HIDE DEF c
    <3>6. TabOK("asking", x) BY <1>2, <3>2, <3>3, <3>4, <3>5, NewTabOK
    <3> QED BY <3>1, <3>6
  <2>3. TabOK("other", tabs["other"])
    <3> DEFINE x == NewTab("web", FALSE, FALSE, "none")
    <3>1. tabs["other"] = x BY DEF Init, Tabs
    <3>2. /\ TabShape(x) /\ x.broker = NewBroker("web", setup.browser) /\ x.page = "none"
          /\ x.step = "ready" /\ x.token = 0 /\ x.keys = FALSE /\ x.state = FALSE /\ x.marker = FALSE
          /\ x.asked = FALSE /\ x.redirected = FALSE
          /\ x.poll = "off" /\ x.login = FALSE /\ x.lost = FALSE /\ x.kB = FALSE /\ x.resetToken = 0
          /\ x.hasRecoveryKey = FALSE /\ x.late = FALSE /\ x.tries = 0 /\ x.says = "nothing" /\ x.reset = FALSE
          /\ x.where \in Browsers
      BY DEF NewTab, TabShape, Browsers
    <3> HIDE DEF x
    <3>3. TabOK("other", x) BY <3>2, ClosedOK DEF Tabs
    <3> QED BY <3>1, <3>3
  <2> QED BY <2>1, <2>2, <2>3 DEF TabsOK, Tabs
<1> QED BY <1>1, <1>3, <1>4, <1>5, <1>6 DEF IInv

LEMMA NextOK == IInv /\ [Next]_vars => IInv'
<1> SUFFICES ASSUME IInv, [Next]_vars PROVE IInv' OBVIOUS
<1>1. CASE UNCHANGED vars
  <2>1. UNCHANGED <<setup, server, browser, tabs, inbox>> BY <1>1 DEF vars
  <2>2. TabsOK' BY <2>1, NoTabStep
  <2> QED BY <2>1, <2>2, Rest DEF IInv
<1>2. ASSUME NEW t \in Tabs, Submit(t) \/ ResendLink(t) \/ RememberPassword(t) PROVE IInv'
  BY <1>2, SubmitOK, ResendLinkOK, RememberPasswordOK
<1>3. ASSUME NEW t \in Tabs, ConfirmLoaded(t) \/ PollAnswered(t) \/ PollFails(t) \/ TimerFires(t) PROVE IInv'
  BY <1>3, ConfirmLoadedOK, PollAnsweredOK, PollFailsOK, TimerFiresOK
<1>4. ASSUME NEW t \in Tabs, TabOpened(t) \/ SignedInElsewhere(t) \/ Resend(t) \/ ShowResend(t) PROVE IInv'
  BY <1>4, TabOpenedOK, SignedInElsewhereOK, ResendOK, ShowResendOK
<1>5. ASSUME NEW t \in Tabs, LinkLoaded(t) \/ LostRecoveryKey(t) \/ VerifyCode(t) \/ GetRecoveryBundle(t) PROVE IInv'
  BY <1>5, LinkLoadedOK, LostRecoveryKeyOK, VerifyCodeOK, GetRecoveryBundleOK
<1>6. ASSUME NEW t \in Tabs, SubmitReset(t) \/ AccountReset(t) \/ ResetAnswered(t) \/ Close(t) \/ Reload(t)
      PROVE  IInv'
  BY <1>6, SubmitResetOK, AccountResetOK, ResetAnsweredOK, CloseOK, ReloadOK
<1>7. ASSUME NEW t \in Tabs, NEW n \in 1..MaxTokens, NEW b \in Browsers, OpenLink(t, n, b) PROVE IInv'
  BY <1>7, OpenLinkOK
<1>8. ASSUME NEW n \in 1..MaxTokens, TokenExpires(n) PROVE IInv'
  BY <1>8, TokenExpiresOK
<1> QED BY <1>1, <1>2, <1>3, <1>4, <1>5, <1>6, <1>7, <1>8 DEF Next

\* A broker that a reset was made with, or that waited for one on iOS, told the
\* browser of a session with keys.
LEMMA Reported == ASSUME IInv PROVE ResetIsReported
<1>1. TypeOK
  <2>1. ASSUME NEW t \in Tabs, NEW i \in DOMAIN inbox[t] PROVE inbox[t][i].name \in {"tab open", "signed in"}
    <3>1. inbox[t] \in Seq(Messages) BY DEF IInv, InboxOK
    <3>2. inbox[t][i] \in Messages BY <3>1
    <3> QED BY <3>2 DEF Messages
  <2>2. ASSUME NEW t \in Tabs PROVE TabType(tabs[t]) BY DEF IInv, TabsOK, TabOK
  <2> QED BY <2>1, <2>2 DEF IInv, ServerOK, BrowserOK, TypeOK, TabType
<1>2. OneTabRedirects BY DEF IInv, TabsOK, TabOK, ComesOfAsking, OneTabRedirects
<1>3. BrowserIsToldOfReset BY DEF IInv, TabsOK, TabOK, TellsBrowser, Told, Last, BrowserIsToldOfReset
<1> QED BY <1>1, <1>2, <1>3 DEF ResetIsReported

-----------------------------------------------------------------------------
(***************************************************************************)
(* The key of the account.                                                 *)
(***************************************************************************)
\* Asking, an exchange and time leave it.
LEMMA KeyStays ==
    ASSUME IInv, NEW n, PasswordReset \/ Exchange(n) \/ TokenExpires(n) \/ UNCHANGED server
    PROVE  server'.kB = server.kB
  BY DEF IInv, ServerOK, PasswordReset, Exchange, TokenExpires

LEMMA KeyStep ==
    ASSUME IInv, [Next]_vars, server'.kB # server.kB
    PROVE  ~server.recoveryKey \/ \E t \in Tabs : tabs[t].lost /\ tabs[t].step = "resetting"
<1>1. ASSUME NEW t \in Tabs, AccountReset(t)
      PROVE  ~server.recoveryKey \/ (tabs[t].lost /\ tabs[t].step = "resetting")
  <2>1. TabOK(t, tabs[t]) BY DEF IInv, TabsOK
  <2>2. ~tabs[t].kB BY <1>1 DEF AccountReset, IInv, ServerOK
  <2>3. tabs[t].page \in FormPages /\ tabs[t].step = "resetting" BY <1>1 DEF AccountReset
  <2> QED BY <2>1, <2>2, <2>3 DEF TabOK, FormIsAllowed
<1>2. ASSUME NEW t \in Tabs, Submit(t) \/ ResendLink(t) \/ RememberPassword(t) PROVE FALSE
  BY <1>2, KeyStays DEF Submit, ResendLink, RememberPassword, ResetPasswordOf
<1>3. ASSUME NEW t \in Tabs, ConfirmLoaded(t) \/ PollAnswered(t) \/ PollFails(t) \/ TimerFires(t) PROVE FALSE
  BY <1>3 DEF ConfirmLoaded, PollAnswered, PollFails, TimerFires
<1>4. ASSUME NEW t \in Tabs, TabOpened(t) \/ SignedInElsewhere(t) \/ Resend(t) \/ ShowResend(t) PROVE FALSE
  BY <1>4 DEF TabOpened, SignedInElsewhere, Resend, ShowResend
<1>5. ASSUME NEW t \in Tabs, LinkLoaded(t) \/ LostRecoveryKey(t) \/ VerifyCode(t) \/ GetRecoveryBundle(t) PROVE FALSE
  BY <1>5, KeyStays DEF LinkLoaded, LostRecoveryKey, VerifyCode, GetRecoveryBundle
<1>6. ASSUME NEW t \in Tabs, SubmitReset(t) \/ ResetAnswered(t) \/ Close(t) \/ Reload(t) PROVE FALSE
  BY <1>6, KeyStays DEF SubmitReset, ResetAnswered, IInv, ServerOK, Close, Reload
<1>7. ASSUME NEW t \in Tabs, NEW n \in 1..MaxTokens, NEW b \in Browsers, OpenLink(t, n, b) PROVE FALSE
  BY <1>7 DEF OpenLink
<1>8. ASSUME NEW n \in 1..MaxTokens, TokenExpires(n) PROVE FALSE
  BY <1>8, KeyStays
<1>9. ~UNCHANGED vars BY DEF vars
<1>10. Next BY <1>9
<1> QED BY <1>1, <1>2, <1>3, <1>4, <1>5, <1>6, <1>7, <1>8, <1>10 DEF Next

-----------------------------------------------------------------------------
\* What holds of the tabs, the server and the messages holds in every state.
THEOREM Invariant == Spec => []IInv
<1> QED BY InitOK, NextOK, PTL DEF Spec

\* However many resets are asked for and links are opened, in whichever tabs:
\* both tabs redirect only if both asked, and a browser that Sync runs in is
\* told of the session with its keys (oauth-redirect.js:323,
\* confirm_reset_password.js:151).
THEOREM ResetsAreReported == Spec => []ResetIsReported
<1>1. IInv => ResetIsReported BY Reported
<1> QED BY <1>1, Invariant, PTL

\* A reset gives up the key of the account only for a user without a recovery
\* key, or who said that it is lost: no expired token, reload or second tab
\* gets past the screen that asks for it (complete_reset_password.js:95).
THEOREM KeysAreKept == Spec => KeysSurviveUnlessLost
<1> DEFINE A == server'.kB # server.kB => ~server.recoveryKey \/ \E t \in Tabs : tabs[t].lost /\ tabs[t].step = "resetting"
<1>1. IInv /\ [Next]_vars => A BY KeyStep
<1>2. IInv /\ [Next]_vars => [A]_vars BY <1>1
<1> HIDE DEF A
<1>3. Spec => [][A]_vars BY <1>2, Invariant, PTL DEF Spec
<1> QED BY <1>3 DEF A, KeysSurviveUnlessLost

-----------------------------------------------------------------------------
(***************************************************************************)
(* Links: its state.                                                       *)
(***************************************************************************)
LinkShape(t) ==
    DOMAIN t = {"page", "step", "broker", "same", "session", "known", "original", "stores", "mark", "opens",
                "canSignIn", "method", "buttons", "country", "agreed", "number", "resends"}

LinkTypes(t) ==
    /\ t.page \in LinkScreens /\ t.step \in {"ready", "request", "country", "sending"}
    /\ t.mark \in Marks /\ t.same \in BOOLEAN /\ t.session \in 0..1
    /\ t.known \subseteq ResumeFields.account
    /\ t.resends \in 0..MaxResends /\ t.opens \in 0..2 /\ t.original \in BOOLEAN /\ t.stores \in BOOLEAN
    /\ t.canSignIn \in BOOLEAN /\ t.buttons \subseteq {"ios", "android"}
    /\ DOMAIN t.broker.behaviors \subseteq {"afterSignIn"}

\* The country of a text message, and one that may be sent.
CountryOf(t) ==
    IF link.country # "none" THEN link.country ELSE IF t.country # "none" THEN t.country ELSE "US"

Eligible(country, agreed) ==
    country = link.country \/ (country = agreed /\ (RolloutRate(country) > 0 \/ link.tester))

Deliverable(country, num) ==
    /\ num.plus
    /\ Normalize(country, num) = num
    /\ Accepts(country, num) \/ KeepsTrunkDigit(country, num)
    /\ country \in {"US", "CA"} => num.lead = "other" /\ num.digits = 10
    /\ country = "RO" => num.lead = "seven" /\ num.digits = 9

TextPages == {"sms", "sms_sent"}

\* The screens of the text message are of a country it may be sent to, and what was
\* typed is a number of that country once it is under way.
Texts(t) ==
    /\ t.page \in TextPages => Eligible(CountryOf(t), t.agreed)
    /\ t.page = "sms_sent" \/ (t.page = "sms" /\ t.step = "sending") => Deliverable(CountryOf(t), t.number)

\* Before a link of its kind was opened, nothing has come of it; each opening tells
\* the other tabs once.
Opens(t) ==
    /\ t.opens = 0 => /\ t.page \in {"none", "confirm", "report_signin", "signin_reported"} /\ t.step = "ready"
                      /\ ~auth.verified /\ others.told = 0
    /\ t.opens > 0 => link.type # "report"
    /\ others.told <= t.opens
    /\ t.step = "request" => others.told < t.opens

\* A session the storage has is one the tab of the link had.
Tells(t) ==
    /\ auth.verified /\ t.session # 0 /\ t.opens > 0 => others.told > 0
    /\ t.opens > 0 /\ link.where # "there" /\ stored.session # 0 => t.session # 0

\* The tab that asked goes back to the relying party, as the tab of the link or by its poll.
Returns(t) ==
    /\ t.original \/ others.asking = "polls" => others.relier = 0
    /\ t.original => others.asking = "gone"

\* The flow of the relying party was finished, or tried to be.
Finished == others.relier = 1 \/ others.failed

\* A link that takes the place of the tab that asked is opened by the original tab,
\* and finishes its flow when its code is verified; so does the tab that polls.
Comes(t) ==
    /\ t.opens = 0 /\ link.where = "replaces" => t.page = "confirm" /\ t.original
    /\ t.step = "request" => /\ link.where = "replaces" /\ t.opens = 1 => t.original
                             /\ link.service = "rp" => t.broker.context \in OAuthContexts
    /\ link.service = "rp" /\ others.asking = "done" => Finished
    /\ link.service = "rp" /\ link.where = "replaces" /\ IsSignUp /\ t.opens = 1 /\ auth.verified => Finished

LinkTabOK(t) == LinkShape(t) /\ LinkTypes(t) /\ Texts(t) /\ Opens(t) /\ Tells(t) /\ Returns(t) /\ Comes(t)

LinkAccountOK ==
    /\ DOMAIN stored = {"session", "signedIn", "context"}
    /\ stored.session \in 0..1 /\ stored.signedIn \in {"own", "another", "none"}
    /\ stored.context \in Contexts \cup {"none"}

LinkServerOK ==
    /\ DOMAIN auth = {"verified", "session", "sent", "subscribed", "reported"}
    /\ auth.verified \in BOOLEAN /\ auth.session \in 0..1 /\ auth.subscribed \in BOOLEAN
    /\ \A sms \in auth.sent : Eligible(sms.country, sms.agreed) /\ Deliverable(sms.country, sms.number)

LinkOthersOK ==
    /\ DOMAIN others = {"asking", "told", "relier", "failed"}
    /\ others.asking \in {"polls", "gone", "done"} /\ others.told \in 0..2 /\ others.relier \in 0..1
    /\ others.failed \in BOOLEAN

LinkInv ==
    link \in LinkScenarios /\ LinkAccountOK /\ LinkServerOK /\ LinkOthersOK /\ LinkTabOK(linkTab)

-----------------------------------------------------------------------------
LinkNumber == [plus : BOOLEAN, lead : {"zero", "code", "seven", "other"}, digits : Nat]

LEMMA PrefixOK ==
    ASSUME NEW num \in LinkNumber
    PROVE  /\ EnsurePrefix(num) = [plus |-> TRUE, lead |-> num.lead, digits |-> num.digits]
           /\ num.plus => EnsurePrefix(num) = num
           /\ \A next : WithoutLead(num, next) = [plus |-> num.plus, lead |-> next, digits |-> num.digits - 1]
<1>1. num = [plus |-> num.plus, lead |-> num.lead, digits |-> num.digits] BY DEF LinkNumber
<1>2. EnsurePrefix(num) = [plus |-> TRUE, lead |-> num.lead, digits |-> num.digits]
  <2> DEFINE m == EnsurePrefix(num)
  <2>1. DOMAIN m = {"plus", "lead", "digits"} /\ m = [f \in {"plus", "lead", "digits"} |-> m[f]]
    BY <1>1 DEF EnsurePrefix
  <2>2. m.plus = TRUE /\ m.lead = num.lead /\ m.digits = num.digits BY <1>1 DEF EnsurePrefix
  <2> HIDE DEF m
  <2>3. m = [plus |-> TRUE, lead |-> num.lead, digits |-> num.digits] BY <2>1, <2>2
  <2> QED BY <2>3 DEF m
<1>3. num.plus => num.plus = TRUE BY DEF LinkNumber
<1>4. num.plus => EnsurePrefix(num) = num BY <1>1, <1>2, <1>3
<1>5. ASSUME NEW next
      PROVE  WithoutLead(num, next) = [plus |-> num.plus, lead |-> next, digits |-> num.digits - 1]
  <2> DEFINE m == [num EXCEPT !.digits = @ - 1]
  <2>1. m = [plus |-> num.plus, lead |-> num.lead, digits |-> num.digits - 1] BY <1>1
  <2>2. WithoutLead(num, next) = [m EXCEPT !.lead = next] BY DEF WithoutLead
  <2> QED BY <2>1, <2>2
<1> QED BY <1>2, <1>4, <1>5

\* A number that is accepted is sent to as the server takes it.
LEMMA NumberOK ==
    ASSUME NEW num \in Numbers, NEW country, Accepts(country, num)
    PROVE  Deliverable(country, Normalize(country, num))
<1>1. num \in LinkNumber BY NumbersAssumption DEF LinkNumber
<1>2. CASE country = "RO"
  <2>1. (num.lead = "seven" /\ num.digits = 9) \/ (num.lead = "zero" /\ num.digits = 10)
    BY <1>2 DEF Accepts, AcceptsRomania
  <2> DEFINE n == [plus |-> TRUE, lead |-> "seven", digits |-> 9]
             short == [plus |-> num.plus, lead |-> "seven", digits |-> 9]
  <2>2. n \in LinkNumber /\ short \in LinkNumber BY <1>1 DEF LinkNumber
  <2>3. NormalizeRomania(num) = n
    <3>1. CASE num.lead = "zero" BY <1>1, <2>1, <2>2, <3>1, PrefixOK DEF NormalizeRomania
    <3>2. CASE num.lead # "zero" BY <1>1, <2>1, <3>2, PrefixOK DEF NormalizeRomania
    <3> QED BY <3>1, <3>2
  <2>4. NormalizeRomania(n) = n BY <2>2, PrefixOK DEF NormalizeRomania
  <2>5. Normalize(country, num) = n /\ Normalize(country, n) = n BY <1>2, <2>3, <2>4 DEF Normalize
  <2>6. n.plus /\ n.lead = "seven" /\ n.digits = 9 BY DEF n
  <2> HIDE DEF n
  <2>7. Accepts(country, n) BY <1>2, <2>6 DEF Accepts, AcceptsRomania
  <2> QED BY <1>2, <2>5, <2>6, <2>7 DEF Deliverable
<1>3. CASE country \in {"US", "CA"}
  <2>1. (num.lead = "other" /\ num.digits = 10) \/ (num.lead = "code" /\ num.digits = 11 /\ ~num.plus)
    BY <1>3 DEF Accepts, AcceptsUS
  <2> DEFINE n == [plus |-> TRUE, lead |-> "other", digits |-> 10]
             short == [plus |-> num.plus, lead |-> "other", digits |-> 10]
  <2>2. n \in LinkNumber /\ short \in LinkNumber BY <1>1 DEF LinkNumber
  <2>3. NormalizeUS(num) = n
    <3>1. CASE num.lead = "code"
      <4>1. WithoutLead(num, "other") = short BY <1>1, <2>1, <3>1, PrefixOK
      <4>2. EnsurePrefix(short) = n BY <2>2, PrefixOK
      <4> QED BY <2>1, <3>1, <4>1, <4>2 DEF NormalizeUS
    <3>2. CASE num.lead # "code" BY <1>1, <2>1, <3>2, PrefixOK DEF NormalizeUS
    <3> QED BY <3>1, <3>2
  <2>4. NormalizeUS(n) = n BY <2>2, PrefixOK DEF NormalizeUS
  <2>5. Normalize(country, num) = n /\ Normalize(country, n) = n BY <1>3, <2>3, <2>4 DEF Normalize
  <2>6. n.plus /\ n.lead = "other" /\ n.digits = 10 BY DEF n
  <2> HIDE DEF n
  <2>7. Accepts(country, n) BY <1>3, <2>6 DEF Accepts, AcceptsUS
  <2> QED BY <1>3, <2>5, <2>6, <2>7 DEF Deliverable
<1>4. CASE country \notin {"RO", "US", "CA"}
  <2> DEFINE n == [plus |-> TRUE, lead |-> num.lead, digits |-> num.digits]
  <2>1. n \in LinkNumber BY <1>1 DEF LinkNumber
  <2>2. EnsurePrefix(num) = n /\ EnsurePrefix(n) = n BY <1>1, <2>1, PrefixOK
  <2>3. Normalize(country, num) = n /\ Normalize(country, n) = n BY <1>4, <2>2 DEF Normalize
  <2>4. n.plus /\ n.digits = num.digits BY DEF n
  <2> HIDE DEF n
  <2>5. num.digits \in Lengths(country).plus \/ num.digits \in Lengths(country).bare BY <1>4 DEF Accepts
  <2>6. Lengths(country).bare = Lengths(country).plus \/ country \in {"AU", "BE", "FR", "GB"} BY DEF Lengths
  <2>7. Accepts(country, n) \/ KeepsTrunkDigit(country, n)
    <3>1. CASE num.digits \in Lengths(country).plus BY <1>4, <2>4, <3>1 DEF Accepts
    <3>2. CASE num.digits \notin Lengths(country).plus BY <2>4, <2>5, <2>6, <3>2 DEF KeepsTrunkDigit
    <3> QED BY <3>1, <3>2
  <2> QED BY <1>4, <2>3, <2>4, <2>7 DEF Deliverable
<1> QED BY <1>2, <1>3, <1>4

\* Showing a screen.
LEMMA LinkShown ==
    ASSUME NEW t, LinkShape(t), NEW page
    PROVE  LET c == ShowScreen(t, page)
           IN  /\ DOMAIN c = DOMAIN t /\ c.page = page /\ c.step = "ready" /\ ~c.canSignIn /\ c.canSignIn \in BOOLEAN
               /\ c.buttons = {} /\ c.method = <<>>
               /\ \A f \in (DOMAIN t) \ {"page", "step", "canSignIn", "buttons", "method"} : c[f] = t[f]
  BY DEF ShowScreen, LinkShape

\* A step of the tab alone.
LEMMA LinkTabOnly ==
    ASSUME LinkInv, Unchanged, LinkTabOK(linkTab)'
    PROVE  LinkInv'
<1>1. /\ LinkAccountOK' /\ link' \in LinkScenarios
  BY DEF LinkInv, Unchanged, LinkAccountOK
<1>2. LinkServerOK' BY DEF LinkInv, Unchanged, LinkServerOK, Eligible
<1>3. LinkOthersOK' BY DEF LinkInv, Unchanged, LinkOthersOK
<1> QED BY <1>1, <1>2, <1>3 DEF LinkInv

\* A screen other than those of the text message is shown.
LEMMA LinkShows ==
    ASSUME LinkInv, UNCHANGED <<link, stored, others>>, auth'.verified = auth.verified,
           LinkShape(linkTab'), LinkTypes(linkTab'),
           linkTab'.page \notin TextPages, linkTab'.step \in {"ready", "country"},
           linkTab.opens = 0 => /\ linkTab.page # "confirm" /\ linkTab'.step = "ready"
                                /\ linkTab'.page \in {"report_signin", "signin_reported"},
           linkTab'.opens = linkTab.opens, linkTab'.session = linkTab.session, linkTab'.original => linkTab.original
    PROVE  LinkTabOK(linkTab)'
<1>1. Texts(linkTab)' BY DEF Texts, TextPages
<1>2. Opens(linkTab)' BY DEF Opens, LinkInv, LinkTabOK
<1>3. Tells(linkTab)' BY DEF Tells, LinkInv, LinkTabOK
<1>4. Returns(linkTab)' BY DEF Returns, LinkInv, LinkTabOK
<1>5. LinkShape(linkTab)' /\ LinkTypes(linkTab)' BY DEF LinkShape, LinkTypes
<1>6. Comes(linkTab)' BY DEF Comes, Finished, IsSignUp, LinkInv, LinkTabOK
<1> QED BY <1>1, <1>2, <1>3, <1>4, <1>5, <1>6 DEF LinkTabOK

LEMMA ShownTypes ==
    ASSUME NEW t, LinkShape(t), LinkTypes(t), NEW page \in LinkScreens
    PROVE  LET c == ShowScreen(t, page)
           IN  LinkShape(c) /\ LinkTypes(c)
<1> DEFINE c == ShowScreen(t, page)
<1>1. /\ DOMAIN c = DOMAIN t /\ c.page = page /\ c.step = "ready" /\ c.canSignIn \in BOOLEAN /\ c.buttons = {}
      /\ \A f \in (DOMAIN t) \ {"page", "step", "canSignIn", "buttons", "method"} : c[f] = t[f]
  BY LinkShown
<1> HIDE DEF c
<1>2. LinkShape(c) BY <1>1 DEF LinkShape
<1>3. LinkTypes(c) BY <1>1 DEF LinkTypes, LinkShape
<1> QED BY <1>2, <1>3 DEF c

-----------------------------------------------------------------------------
\* The link is opened.
LEMMA LinkOpenOK == ASSUME LinkInv, OpenEmailLink PROVE LinkInv'
<1> USE DEF LinkInv, LinkTabOK
<1>1. LinkShape(linkTab) /\ LinkTypes(linkTab) OBVIOUS
<1>2. linkTab.opens \in {0, 1} /\ link.type # "report"
  <2>1. linkTab.opens = 0 \/ linkTab.opens = 1 BY DEF OpenEmailLink
  <2> QED BY <2>1 DEF OpenEmailLink
<1> DEFINE b == NewBroker(VerificationContext, link.browser)
           opened == [ShowScreen(linkTab, "complete_signup") EXCEPT
                          !.broker = b, !.same = SameBrowser, !.opens = @ + 1,
                          !.original = @ /\ linkTab.page = "confirm",
                          !.session = IF link.where = "there" THEN 0 ELSE stored.session,
                          !.stores = FALSE, !.mark = "none", !.country = "none", !.agreed = "none",
                          !.number = NoNumber, !.resends = 0]
           known == PopulateFromStringifiedResumeToken("account", link.resume)
<1>3. /\ linkTab' = IF link.valid THEN [opened EXCEPT !.step = "request", !.known = known]
                    ELSE [opened EXCEPT !.mark = "damaged"]
      /\ Unchanged
  BY DEF OpenEmailLink
<1>4. /\ LinkShape(opened) /\ opened.page = "complete_signup" /\ opened.step = "ready"
      /\ opened.opens = linkTab.opens + 1 /\ opened.broker = b
      /\ opened.session = IF link.where = "there" THEN 0 ELSE stored.session
      /\ (opened.original <=> (linkTab.original /\ linkTab.page = "confirm")) /\ opened.original \in BOOLEAN
      /\ opened.same \in BOOLEAN /\ opened.stores \in BOOLEAN /\ opened.mark = "none" /\ opened.resends = 0
      /\ opened.known = linkTab.known /\ opened.canSignIn \in BOOLEAN /\ opened.buttons = {}
  <2> DEFINE c == ShowScreen(linkTab, "complete_signup")
  <2>1. /\ DOMAIN c = DOMAIN linkTab /\ c.page = "complete_signup" /\ c.step = "ready" /\ c.canSignIn \in BOOLEAN
        /\ c.buttons = {} /\ c.opens = linkTab.opens /\ c.original = linkTab.original /\ c.known = linkTab.known
    BY <1>1, LinkShown DEF LinkShape
  <2> HIDE DEF c, b
  <2>2. SameBrowser \in BOOLEAN BY DEF SameBrowser
  <2>3. LinkShape(opened) /\ opened.page = "complete_signup" /\ opened.step = "ready" /\ opened.broker = b
    BY <1>1, <2>1 DEF LinkShape, c
  <2>4. /\ opened.opens = linkTab.opens + 1
        /\ opened.session = IF link.where = "there" THEN 0 ELSE stored.session
        /\ opened.mark = "none" /\ opened.resends = 0 /\ opened.known = linkTab.known /\ opened.buttons = {}
    BY <1>1, <2>1 DEF LinkShape, c
  <2>5. /\ (opened.original <=> (linkTab.original /\ linkTab.page = "confirm")) /\ opened.original \in BOOLEAN
        /\ opened.same \in BOOLEAN /\ opened.stores \in BOOLEAN /\ opened.canSignIn \in BOOLEAN
    BY <1>1, <2>1, <2>2 DEF LinkShape, c
  <2> QED BY <2>3, <2>4, <2>5
<1>5. known \subseteq ResumeFields.account
  BY DEF PopulateFromStringifiedResumeToken
<1>6. DOMAIN b.behaviors \subseteq {"afterSignIn"}
  <2>1. b.behaviors = FetchFirstrun(VerificationContext, link.browser) BY DEF NewBroker
  <2> QED BY <2>1 DEF FetchFirstrun
<1> HIDE DEF opened, known, b
<1>7. /\ LinkShape(linkTab') /\ linkTab'.page = "complete_signup" /\ linkTab'.step \in {"ready", "request"}
      /\ linkTab'.opens = linkTab.opens + 1 /\ linkTab'.broker = b /\ linkTab'.session = opened.session
      /\ linkTab'.mark \in {"none", "damaged"} /\ linkTab'.known \subseteq ResumeFields.account
      /\ \A f \in {"original", "same", "stores", "resends", "canSignIn", "buttons"} : linkTab'[f] = opened[f]
  <2>1. CASE link.valid
    <3>1. linkTab' = [opened EXCEPT !.step = "request", !.known = known] BY <1>3, <2>1
    <3> QED BY <3>1, <1>4, <1>5 DEF LinkShape
  <2>2. CASE ~link.valid
    <3>1. linkTab' = [opened EXCEPT !.mark = "damaged"] BY <1>3, <2>2
    <3> QED BY <3>1, <1>4, <1>1 DEF LinkShape, LinkTypes
  <2> QED BY <2>1, <2>2
<1>8. LinkTypes(linkTab')
  <2>1. linkTab'.opens \in 0..2 BY <1>2, <1>7
  <2>2. linkTab'.session \in 0..1 BY <1>4, <1>7 DEF LinkAccountOK
  <2>3. "complete_signup" \in LinkScreens BY DEF LinkScreens
  <2>4. linkTab'.mark \in Marks BY <1>7 DEF Marks
  <2>5. linkTab'.resends = 0 /\ 0 \in 0..MaxResends BY <1>4, <1>7, ResendsAssumption
  <2>6. linkTab'.buttons = {} BY <1>4, <1>7
  <2>7. DOMAIN linkTab'.broker.behaviors \subseteq {"afterSignIn"} BY <1>6, <1>7
  <2>8. linkTab'.same \in BOOLEAN /\ linkTab'.original \in BOOLEAN /\ linkTab'.stores \in BOOLEAN /\ linkTab'.canSignIn \in BOOLEAN
    BY <1>4, <1>7
  <2> QED BY <1>7, <2>1, <2>2, <2>3, <2>4, <2>5, <2>6, <2>7, <2>8 DEF LinkTypes
<1>9. UNCHANGED <<link, stored, auth, others>> BY <1>3 DEF Unchanged
<1>10. Texts(linkTab)' BY <1>7 DEF Texts, TextPages
<1>11. Opens(linkTab)'
  <2>1. others.told <= linkTab.opens /\ others.told \in 0..2 BY DEF Opens, LinkOthersOK
  <2>2. others'.told < linkTab'.opens /\ linkTab'.opens > 0 BY <1>2, <1>7, <1>9, <2>1
  <2>3. others'.told <= linkTab'.opens /\ linkTab'.opens # 0 BY <1>2, <1>7, <1>9, <2>1
  <2> QED BY <1>2, <1>9, <2>2, <2>3 DEF Opens
<1>12. Tells(linkTab)'
  <2>1. CASE linkTab.opens = 0 BY <1>4, <1>7, <1>9, <2>1 DEF Tells, Opens
  <2>2. CASE linkTab.opens = 1 BY <1>4, <1>7, <1>9, <2>2 DEF Tells
  <2> QED BY <1>2, <2>1, <2>2
<1>13. Returns(linkTab)'
  <2>1. linkTab'.original => linkTab.original BY <1>4, <1>7
  <2> QED BY <1>9, <2>1 DEF Returns
<1>14. LinkShape(linkTab)' /\ LinkTypes(linkTab)' BY <1>7, <1>8 DEF LinkShape, LinkTypes
<1>15. Comes(linkTab)'
  <2>1. linkTab'.opens = linkTab.opens + 1 /\ linkTab'.opens # 0 BY <1>2, <1>4, <1>7
  <2>2. linkTab'.opens = 1 => linkTab.opens = 0 /\ ~auth.verified BY <1>2, <2>1 DEF Opens
  <2>3. link.service = "rp" => linkTab'.broker.context \in OAuthContexts
    <3>1. linkTab'.broker = b BY <1>4, <1>7
    <3>2. NewBroker(VerificationContext, link.browser).context = VerificationContext BY DEF NewBroker
    <3>3. b.context = VerificationContext BY <3>2 DEF b
    <3> QED BY <3>1, <3>3 DEF VerificationContext, OAuthContexts
  <2>4. link.where = "replaces" /\ linkTab'.opens = 1 => linkTab'.original
    BY <1>4, <1>7, <2>2 DEF Comes
  <2>5. link.service = "rp" /\ others.asking = "done" => Finished BY DEF Comes
  <2> QED BY <1>9, <2>1, <2>2, <2>3, <2>4, <2>5 DEF Comes, Finished
<1> HIDE DEF LinkInv
<1> QED BY <1>3, <1>10, <1>11, <1>12, <1>13, <1>14, <1>15, LinkTabOnly

-----------------------------------------------------------------------------
\* Where the broker of a link sends the user, in any context.
LEMMA LinkDestination ==
    ASSUME LinkInv, link.type # "report", NEW caps, NEW who, who.redirectTo = "none",
           NEW page, page = Destination(GetBehavior(linkTab.broker, BrokerMethod), caps, who, "complete_signup")
    PROVE  page \in LinkScreens /\ page \notin TextPages
<1> DEFINE m == BrokerMethod
           Ready == {"primary_email_verified", "secondary_email_verified", "signin_verified", "signup_verified"}
           Ends == {Navigate(p) : p \in Ready}
           Behaviors == Ends \cup {SettingsIfSignedIn(e) : e \in Ends}
                             \cup {ConnectAnotherDevice(e) : e \in Ends}
<1>1. m \in {"afterCompletePrimaryEmail", "afterCompleteSecondaryEmail", "afterCompleteSignIn", "afterCompleteSignUp"}
  BY LinkScenariosAssumption DEF BrokerMethod, IsPrimaryEmail, IsSecondaryEmail, IsSignIn, IsSignUp, LinkInv
<1>2. GetBehavior(linkTab.broker, m) = DefaultBehaviors(linkTab.broker.context)[m]
  <2>1. m \notin DOMAIN linkTab.broker.behaviors BY <1>1 DEF LinkInv, LinkTabOK, LinkTypes
  <2> QED BY <2>1 DEF GetBehavior
<1> HIDE DEF m
<1>3. BaseBehaviors[m] \in Behaviors BY <1>1 DEF BaseBehaviors
<1>4. BaseBehaviors["afterCompleteSignIn"] \in Ends /\ BaseBehaviors["afterCompleteSignUp"] \in Ends
  <2>1. /\ BaseBehaviors["afterCompleteSignIn"] = Navigate("signin_verified")
        /\ BaseBehaviors["afterCompleteSignUp"] = Navigate("signup_verified")
    BY DEF BaseBehaviors
  <2>2. "signin_verified" \in Ready /\ "signup_verified" \in Ready OBVIOUS
  <2> HIDE DEF Ready
  <2> QED BY <2>1, <2>2
<1> HIDE DEF Ends
<1>a. {"afterCompletePrimaryEmail", "afterCompleteSecondaryEmail", "afterCompleteSignIn", "afterCompleteSignUp"}
        \subseteq DOMAIN BaseBehaviors
  BY DEF BaseBehaviors
<1>b. \A e \in Ends : ConnectAnotherDevice(e) \in Behaviors /\ SettingsIfSignedIn(e) \in Behaviors OBVIOUS
<1> HIDE DEF Behaviors
<1>5. SyncBehaviors[m] \in Behaviors
  <2>1. CASE m \in {"afterCompletePrimaryEmail", "afterCompleteSecondaryEmail"}
    <3>1. SyncBehaviors[m] = BaseBehaviors[m] BY <1>a, <2>1 DEF SyncBehaviors
    <3> QED BY <1>3, <3>1
  <2>2. CASE m \in {"afterCompleteSignIn", "afterCompleteSignUp"}
    <3>1. SyncBehaviors[m] = ConnectAnotherDevice(BaseBehaviors[m]) BY <1>a, <2>2 DEF SyncBehaviors
    <3> QED BY <1>4, <1>b, <2>2, <3>1
  <2> QED BY <1>1, <2>1, <2>2
<1>6. DesktopBehaviors[m] = SyncBehaviors[m] /\ IosBehaviors[m] = SyncBehaviors[m]
  <2>1. m \in DOMAIN SyncBehaviors BY <1>1, <1>a DEF SyncBehaviors
  <2> QED BY <1>1, <2>1 DEF DesktopBehaviors, IosBehaviors
<1>7. OAuthBehaviors[m] = BaseBehaviors[m] BY <1>1, <1>a DEF OAuthBehaviors
<1>8. WebBehaviors[m] \in Behaviors
  <2>1. CASE m \in {"afterCompletePrimaryEmail", "afterCompleteSecondaryEmail"}
    <3>1. WebBehaviors[m] = BaseBehaviors[m] BY <1>a, <2>1 DEF WebBehaviors
    <3> QED BY <1>3, <3>1
  <2>2. CASE m \in {"afterCompleteSignIn", "afterCompleteSignUp"}
    <3>1. WebBehaviors[m] = SettingsIfSignedIn(BaseBehaviors[m]) BY <1>a, <2>2 DEF WebBehaviors
    <3> QED BY <1>4, <1>b, <2>2, <3>1
  <2> QED BY <1>1, <2>1, <2>2
<1>9. DefaultBehaviors(linkTab.broker.context)[m] \in Behaviors
  BY <1>3, <1>5, <1>6, <1>7, <1>8 DEF DefaultBehaviors
<1> DEFINE Goes == {Navigate(p) : p \in Ready \cup {"settings", "connect_another_device"}}
<1>10. \A e \in Goes : Call1(e, caps, who) = e
  BY DEF Call1, Navigate
<1>11. \A e \in Ends : e \in Goes BY DEF Ends
<1>12. Navigate("settings") \in Goes /\ Navigate("connect_another_device") \in Goes OBVIOUS
<1> HIDE DEF Goes, Ends, Ready
<1>13. \A b \in Behaviors : Call1(b, caps, who) \in Goes
  <2>1. ASSUME NEW e \in Ends PROVE Call1(SettingsIfSignedIn(e), caps, who) \in Goes
    <3>1. SettingsIfSignedIn(e).type = "settings" /\ SettingsIfSignedIn(e).default = e
      BY DEF SettingsIfSignedIn
    <3> QED BY <1>11, <1>12, <3>1 DEF Call1, SettingsPage
  <2>2. ASSUME NEW e \in Ends PROVE Call1(ConnectAnotherDevice(e), caps, who) \in Goes
    <3>1. ConnectAnotherDevice(e).type = "connect-another-device" /\ ConnectAnotherDevice(e).default = e
      BY DEF ConnectAnotherDevice
    <3> QED BY <1>11, <1>12, <3>1 DEF Call1
  <2> QED BY <1>10, <1>11, <2>1, <2>2 DEF Behaviors
<1> DEFINE end == InvokeBehavior(GetBehavior(linkTab.broker, m), caps, who)
<1>14. end \in Goes BY <1>2, <1>9, <1>10, <1>13 DEF InvokeBehavior
<1>15. page = IF end.type = "navigate" THEN end.to ELSE IF end.type = "halt" THEN "halted" ELSE "complete_signup"
  BY DEF Destination, m
<1> HIDE DEF end
<1>16. end.type = "navigate" /\ end.to \in Ready \cup {"settings", "connect_another_device"}
  BY <1>14 DEF Goes, Navigate
<1> QED BY <1>15, <1>16 DEF Ready, LinkScreens, ReadyReason, TextPages

\* The code is verified, and the broker says where the user goes.
LEMMA LinkVerifiedOK == ASSUME LinkInv, Verified PROVE LinkInv'
<1> USE DEF LinkInv, LinkTabOK
<1>1. /\ LinkShape(linkTab) /\ LinkTypes(linkTab) /\ linkTab.page = "complete_signup" /\ linkTab.step = "request"
      /\ linkTab.opens > 0 /\ link.type # "report" /\ linkTab.opens \in 0..2
      /\ others.told < linkTab.opens
  <2>1. linkTab.page = "complete_signup" /\ linkTab.step = "request" BY DEF Verified
  <2>2. linkTab.opens \in 0..2 /\ linkTab.opens # 0 BY <2>1 DEF Opens, LinkTypes
  <2> QED BY <2>1, <2>2 DEF Opens
<1>2. LinkServerOK' /\ auth'.verified = TRUE
  <2>1. /\ DOMAIN auth' = DOMAIN auth /\ auth'.verified = TRUE /\ auth'.session = auth.session
        /\ auth'.sent = auth.sent /\ auth'.subscribed \in BOOLEAN
    <3>1. \/ auth' = [auth EXCEPT !.verified = TRUE, !.subscribed = @ \/ OptsIn]
          \/ auth' = [auth EXCEPT !.verified = TRUE]
      BY DEF Verified, VerifySignUp, MarketingFails
    <3> QED BY <3>1 DEF LinkServerOK
  <2>2. link' = link BY DEF Verified, NotifyBrokerAndComplete
  <2> QED BY <2>1, <2>2 DEF LinkServerOK, Eligible
<1>3. /\ link' = link /\ stored' = [stored EXCEPT !.context = "none"]
  BY DEF Verified, NotifyBrokerAndComplete, AfterComplete, Clear
<1>4. LinkAccountOK' /\ stored'.session = stored.session BY <1>3 DEF LinkAccountOK
<1> DEFINE o == CompleteAccountSignUp(others)
<1>5. /\ DOMAIN o = DOMAIN others /\ o.asking = others.asking /\ o.relier = others.relier /\ o.failed = others.failed
      /\ o.told \in 0..2 /\ o.told <= linkTab.opens /\ (linkTab.session # 0 => o.told > 0)
  <2>1. others.told \in 0..2 BY DEF LinkOthersOK
  <2>2. CASE linkTab.session # 0
    <3>1. o = [others EXCEPT !.told = @ + 1] BY <2>2 DEF CompleteAccountSignUp
    <3>2. /\ DOMAIN o = DOMAIN others /\ o.asking = others.asking /\ o.relier = others.relier
          /\ o.failed = others.failed /\ o.told = others.told + 1
      BY <3>1 DEF LinkOthersOK
    <3> QED BY <1>1, <2>1, <3>2
  <2>3. CASE linkTab.session = 0 BY <1>1, <2>1, <2>3 DEF CompleteAccountSignUp
  <2> QED BY <2>2, <2>3
<1> HIDE DEF o
<1>6. CASE FinishesOAuthFlow
  <2>1. PICK ok \in BOOLEAN :
           /\ linkTab' = [ShowScreen(linkTab, IF ok THEN "halted" ELSE "complete_signup") EXCEPT
                             !.stores = TRUE, !.original = FALSE, !.mark = IF ok THEN @ ELSE "error"]
           /\ others' = FinishOAuthSignUpFlow(o, ok)
    BY <1>6 DEF Verified, NotifyBrokerAndComplete, GetOAuthResult, o
  <2> DEFINE page == IF ok THEN "halted" ELSE "complete_signup"
             c == ShowScreen(linkTab, page)
             mark == IF ok THEN c.mark ELSE "error"
  <2>2. page \in LinkScreens /\ page \notin TextPages BY DEF LinkScreens, TextPages
  <2> HIDE DEF page
  <2>3. /\ LinkShape(c) /\ LinkTypes(c) /\ c.page = page /\ c.step = "ready" /\ c.opens = linkTab.opens
        /\ c.session = linkTab.session
    BY <1>1, <2>2, ShownTypes, LinkShown DEF LinkShape
  <2>4. linkTab' = [c EXCEPT !.stores = TRUE, !.original = FALSE, !.mark = mark] BY <2>1 DEF page
  <2>a. mark \in Marks BY <2>3 DEF LinkTypes, Marks
  <2> HIDE DEF c, mark
  <2>5. /\ LinkShape(linkTab') /\ LinkTypes(linkTab') /\ linkTab'.page = page /\ linkTab'.step = "ready"
        /\ linkTab'.opens = linkTab.opens /\ linkTab'.session = linkTab.session /\ ~linkTab'.original
    BY <2>3, <2>4, <2>a DEF LinkShape, LinkTypes
  <2>6. linkTab.original BY <1>6 DEF FinishesOAuthFlow, IsOriginalTab
  <2>7. others.relier = 0 /\ others.asking = "gone" BY <2>6 DEF Returns
  <2>8. /\ DOMAIN others' = DOMAIN others /\ others'.asking = "gone" /\ others'.relier \in 0..1
        /\ others'.told = o.told /\ others'.failed \in BOOLEAN /\ (others'.relier = 1 \/ others'.failed)
    <3>1. DOMAIN o = {"asking", "told", "relier", "failed"} /\ o.failed \in BOOLEAN BY <1>5 DEF LinkOthersOK
    <3>2. CASE ok
      <4>1. others' = [o EXCEPT !.relier = @ + 1] BY <2>1, <3>2 DEF FinishOAuthSignUpFlow
      <4> QED BY <1>5, <2>7, <3>1, <4>1
    <3>3. CASE ~ok
      <4>1. others' = [o EXCEPT !.failed = TRUE] BY <2>1, <3>3 DEF FinishOAuthSignUpFlow
      <4> QED BY <1>5, <2>7, <3>1, <4>1
    <3> QED BY <3>2, <3>3
  <2>9. LinkOthersOK' BY <1>5, <2>8 DEF LinkOthersOK
  <2>10. Texts(linkTab)' BY <2>2, <2>5 DEF Texts, TextPages
  <2>11. Opens(linkTab)' BY <1>1, <1>3, <1>5, <2>5, <2>8 DEF Opens
  <2>12. Tells(linkTab)' BY <1>3, <1>4, <1>5, <2>5, <2>8 DEF Tells
  <2>13. Returns(linkTab)' BY <2>5, <2>8 DEF Returns
  <2>14. LinkShape(linkTab)' /\ LinkTypes(linkTab)' BY <2>5 DEF LinkShape, LinkTypes
  <2>15. Comes(linkTab)' BY <1>1, <2>5, <2>8 DEF Comes, Finished
  <2> QED BY <1>2, <1>3, <1>4, <2>9, <2>10, <2>11, <2>12, <2>13, <2>14, <2>15
<1>7. CASE ~FinishesOAuthFlow
  <2> DEFINE Where == Destination(GetBehavior(linkTab.broker, BrokerMethod), linkTab.broker.caps, Who, "complete_signup")
             Shown(page) == [ShowScreen(linkTab, page) EXCEPT
                               !.step = IF page = "connect_another_device" THEN "country" ELSE "ready",
                               !.stores = TRUE,
                               !.buttons = CreateMarketingSnippet(page, FALSE)]
  <2>1. linkTab' = Shown(Where) /\ others' = o
    BY <1>7 DEF Verified, NotifyBrokerAndComplete, AfterComplete, o
  <2>2. Where \in LinkScreens /\ Where \notin TextPages
    <3>1. Who.redirectTo = "none" BY DEF Who
    <3> HIDE DEF Where
    <3> QED BY <1>1, <3>1, LinkDestination DEF Where
  <2> HIDE DEF Where
  <2>3. CreateMarketingSnippet(Where, FALSE) \subseteq {"ios", "android"}
    BY DEF CreateMarketingSnippet, StoreButtons
  <2> DEFINE c == ShowScreen(linkTab, Where)
  <2>4. /\ LinkShape(c) /\ LinkTypes(c) /\ c.page = Where /\ c.step = "ready" /\ c.opens = linkTab.opens
        /\ c.session = linkTab.session /\ c.original = linkTab.original
    BY <1>1, <2>2, ShownTypes, LinkShown DEF LinkShape
  <2>5. linkTab' = [c EXCEPT !.step = IF Where = "connect_another_device" THEN "country" ELSE "ready", !.stores = TRUE,
                             !.buttons = CreateMarketingSnippet(Where, FALSE)]
    BY <2>1
  <2> HIDE DEF c, Shown
  <2>6. /\ LinkShape(linkTab') /\ LinkTypes(linkTab') /\ linkTab'.page = Where /\ linkTab'.step \in {"ready", "country"}
        /\ linkTab'.opens = linkTab.opens /\ linkTab'.session = linkTab.session /\ linkTab'.original = linkTab.original
    BY <2>3, <2>4, <2>5 DEF LinkShape, LinkTypes
  <2>7. LinkOthersOK' BY <1>5, <2>1 DEF LinkOthersOK
  <2>8. Texts(linkTab)' BY <2>2, <2>6 DEF Texts, TextPages
  <2>9. Opens(linkTab)' BY <1>1, <1>3, <1>5, <2>1, <2>6 DEF Opens
  <2>10. Tells(linkTab)' BY <1>3, <1>4, <1>5, <2>1, <2>6 DEF Tells
  <2>11. Returns(linkTab)' BY <1>5, <2>1, <2>6 DEF Returns
  <2>12. LinkShape(linkTab)' /\ LinkTypes(linkTab)' BY <2>6 DEF LinkShape, LinkTypes
  <2>13. Comes(linkTab)'
    <3>1. ~(link.service = "rp" /\ link.where = "replaces" /\ IsSignUp /\ linkTab.opens = 1)
      BY <1>1, <1>7 DEF Comes, FinishesOAuthFlow, IsOriginalTab
    <3>2. link.service = "rp" /\ others'.asking = "done" => Finished' BY <1>5, <2>1 DEF Comes, Finished
    <3>3. IsSignUp' = IsSignUp BY <1>3 DEF IsSignUp
    <3> QED BY <1>1, <1>3, <2>6, <3>1, <3>2, <3>3 DEF Comes
  <2> QED BY <1>2, <1>3, <1>4, <2>7, <2>8, <2>9, <2>10, <2>11, <2>12, <2>13
<1> QED BY <1>6, <1>7

-----------------------------------------------------------------------------
\* The account of the screen takes the place of the stored one.
LEMMA LinkFetchedOK == ASSUME LinkInv, AccountFetched PROVE LinkInv'
<1> USE DEF LinkInv, LinkTabOK
<1>1. /\ linkTab' = [linkTab EXCEPT !.stores = FALSE] /\ UNCHANGED <<link, auth, others>>
      /\ \E s : /\ stored' = [stored EXCEPT !.session = s]
                /\ s = IF link.where = "there" THEN stored.session
                       ELSE IF linkTab.session = auth.session \/ IsPrimaryEmail \/ IsSecondaryEmail
                                THEN linkTab.session ELSE 0
  BY DEF AccountFetched
<1>2. PICK s : /\ stored' = [stored EXCEPT !.session = s]
               /\ IF link.where = "there" THEN s = stored.session ELSE s \in {linkTab.session, 0}
  BY <1>1
<1>3. LinkShape(linkTab) /\ LinkTypes(linkTab) OBVIOUS
<1>4. /\ LinkShape(linkTab') /\ LinkTypes(linkTab')
      /\ \A f \in {"page", "step", "opens", "session", "original", "broker", "country", "agreed", "number"} : linkTab'[f] = linkTab[f]
  BY <1>1, <1>3 DEF LinkShape, LinkTypes
<1>5. LinkAccountOK' BY <1>2, <1>3 DEF LinkAccountOK, LinkTypes
<1>6. stored'.session = s BY <1>2 DEF LinkAccountOK
<1>7. LinkServerOK' /\ LinkOthersOK' /\ link' \in LinkScenarios BY <1>1 DEF LinkServerOK, LinkOthersOK, Eligible
<1>8. Texts(linkTab)' BY <1>1, <1>4 DEF Texts, CountryOf, Eligible
<1>9. Opens(linkTab)' BY <1>1, <1>4 DEF Opens
<1>10. Tells(linkTab)' BY <1>1, <1>2, <1>4, <1>6 DEF Tells
<1>11. Returns(linkTab)' BY <1>1, <1>4 DEF Returns
<1>12. LinkShape(linkTab)' /\ LinkTypes(linkTab)' BY <1>4 DEF LinkShape, LinkTypes
<1>13. Comes(linkTab)' BY <1>1, <1>4 DEF Comes, Finished, IsSignUp
<1> QED BY <1>5, <1>7, <1>8, <1>9, <1>10, <1>11, <1>12, <1>13

LEMMA LinkFailsOK == ASSUME LinkInv, VerificationFails PROVE LinkInv'
<1> DEFINE c == ShowScreen(linkTab, "complete_signup")
<1>1. PICK mark \in VerificationErrors : linkTab' = [c EXCEPT !.mark = mark]
  BY DEF VerificationFails, Mark
<1>2. Unchanged /\ linkTab.page = "complete_signup" BY DEF VerificationFails
<1>3. "complete_signup" \in LinkScreens BY DEF LinkScreens
<1>4. LinkShape(linkTab) /\ LinkTypes(linkTab) BY DEF LinkInv, LinkTabOK
<1>5. /\ LinkShape(c) /\ LinkTypes(c) /\ c.page = "complete_signup" /\ c.step = "ready" /\ c.opens = linkTab.opens
      /\ c.session = linkTab.session /\ c.original = linkTab.original
  BY <1>3, <1>4, ShownTypes, LinkShown DEF LinkShape
<1>6. mark \in Marks BY DEF VerificationErrors, Marks
<1> HIDE DEF c
<1>7. /\ LinkShape(linkTab') /\ LinkTypes(linkTab') /\ linkTab'.page = "complete_signup" /\ linkTab'.step = "ready"
      /\ linkTab'.opens = linkTab.opens /\ linkTab'.session = linkTab.session /\ linkTab'.original = linkTab.original
  BY <1>1, <1>5, <1>6 DEF LinkShape, LinkTypes
<1>8. linkTab.opens # 0 BY <1>2 DEF LinkInv, LinkTabOK, Opens
<1>9. LinkTabOK(linkTab)' BY <1>2, <1>7, <1>8, LinkShows DEF Unchanged, TextPages
<1> QED BY <1>2, <1>9, LinkTabOnly

\* A change of the tab that leaves its screen and its link alone.
LEMMA LinkSmallChange ==
    ASSUME LinkInv, Unchanged, LinkShape(linkTab'), LinkTypes(linkTab'),
           \A f \in {"page", "step", "opens", "session", "original", "broker", "country", "agreed", "number"} : linkTab'[f] = linkTab[f]
    PROVE  LinkInv'
<1>1. Texts(linkTab)' BY DEF LinkInv, LinkTabOK, Unchanged, Texts, CountryOf, Eligible
<1>2. Opens(linkTab)' BY DEF LinkInv, LinkTabOK, Unchanged, Opens
<1>3. Tells(linkTab)' BY DEF LinkInv, LinkTabOK, Unchanged, Tells
<1>4. Returns(linkTab)' BY DEF LinkInv, LinkTabOK, Unchanged, Returns
<1>5. LinkShape(linkTab)' /\ LinkTypes(linkTab)' BY DEF LinkShape, LinkTypes
<1>6. Comes(linkTab)' BY DEF LinkInv, LinkTabOK, Unchanged, Comes, Finished, IsSignUp
<1> QED BY <1>1, <1>2, <1>3, <1>4, <1>5, <1>6, LinkTabOnly DEF LinkTabOK

\* A screen is shown and no more, by a tab in which a link was opened.
LEMMA LinkGoesTo ==
    ASSUME LinkInv, Unchanged, NEW page \in LinkScreens, page \notin TextPages, linkTab.opens # 0,
           linkTab' = ShowScreen(linkTab, page)
    PROVE  LinkInv'
<1>1. LinkShape(linkTab) /\ LinkTypes(linkTab) BY DEF LinkInv, LinkTabOK
<1>2. /\ LinkShape(linkTab') /\ LinkTypes(linkTab') /\ linkTab'.page = page /\ linkTab'.step = "ready"
      /\ linkTab'.opens = linkTab.opens /\ linkTab'.session = linkTab.session /\ linkTab'.original = linkTab.original
  BY <1>1, ShownTypes, LinkShown DEF LinkShape
<1>3. LinkTabOK(linkTab)' BY <1>2, LinkShows DEF Unchanged
<1> QED BY <1>3, LinkTabOnly

LEMMA LinkResendOK == ASSUME LinkInv, ResendEmail PROVE LinkInv'
<1>1. /\ Unchanged /\ linkTab.opens # 0 /\ LinkShape(linkTab) /\ LinkTypes(linkTab)
      /\ linkTab.resends < MaxResends
  BY DEF ResendEmail, LinkInv, LinkTabOK, Opens
<1>2. CASE linkTab' = [linkTab EXCEPT !.resends = @ + 1]
  <2>1. linkTab.resends + 1 \in 0..MaxResends BY <1>1, ResendsAssumption DEF LinkTypes
  <2>2. /\ LinkShape(linkTab') /\ LinkTypes(linkTab')
        /\ \A f \in {"page", "step", "opens", "session", "original", "broker", "country", "agreed", "number"} : linkTab'[f] = linkTab[f]
    BY <1>1, <1>2, <2>1 DEF LinkShape, LinkTypes
  <2> QED BY <1>1, <2>2, LinkSmallChange
<1>3. CASE GoTo("signup")
  <2>1. "signup" \in LinkScreens /\ "signup" \notin TextPages BY DEF LinkScreens, TextPages
  <2> QED BY <1>1, <1>3, <2>1, LinkGoesTo DEF GoTo
<1> QED BY <1>2, <1>3 DEF ResendEmail

\* A report of a sign in.
LEMMA LinkReportOK == ASSUME LinkInv, OpenReport PROVE LinkInv'
<1> DEFINE c == ShowScreen(linkTab, "report_signin")
<1>1. /\ linkTab' = [c EXCEPT !.mark = IF link.valid THEN "none" ELSE "damaged"]
      /\ Unchanged /\ linkTab.page = "none" /\ link.type = "report"
  BY DEF OpenReport
<1>2. "report_signin" \in LinkScreens /\ {"none", "damaged"} \subseteq Marks BY DEF LinkScreens, Marks
<1>3. LinkShape(linkTab) /\ LinkTypes(linkTab) BY DEF LinkInv, LinkTabOK
<1>4. /\ LinkShape(c) /\ LinkTypes(c) /\ c.page = "report_signin" /\ c.step = "ready" /\ c.opens = linkTab.opens
      /\ c.session = linkTab.session /\ c.original = linkTab.original
  BY <1>2, <1>3, ShownTypes, LinkShown DEF LinkShape
<1> HIDE DEF c
<1>5. /\ LinkShape(linkTab') /\ LinkTypes(linkTab') /\ linkTab'.page = "report_signin" /\ linkTab'.step = "ready"
      /\ linkTab'.opens = linkTab.opens /\ linkTab'.session = linkTab.session /\ linkTab'.original = linkTab.original
  BY <1>1, <1>2, <1>4 DEF LinkShape, LinkTypes
<1>6. LinkTabOK(linkTab)' BY <1>1, <1>5, LinkShows DEF Unchanged, TextPages
<1> QED BY <1>1, <1>6, LinkTabOnly

LEMMA LinkRejectOK == ASSUME LinkInv, RejectUnblockCode PROVE LinkInv'
<1>1. /\ linkTab' = ShowScreen(linkTab, "signin_reported") /\ linkTab.page = "report_signin"
      /\ auth' = [auth EXCEPT !.reported = TRUE]
      /\ UNCHANGED <<link, stored, others>>
  BY DEF RejectUnblockCode, GoTo
<1>2. "signin_reported" \in LinkScreens BY DEF LinkScreens
<1>3. LinkShape(linkTab) /\ LinkTypes(linkTab) BY DEF LinkInv, LinkTabOK
<1>4. /\ LinkShape(linkTab') /\ LinkTypes(linkTab') /\ linkTab'.page = "signin_reported" /\ linkTab'.step = "ready"
      /\ linkTab'.opens = linkTab.opens /\ linkTab'.session = linkTab.session /\ linkTab'.original = linkTab.original
  BY <1>1, <1>2, <1>3, ShownTypes, LinkShown DEF LinkShape
<1>5. /\ DOMAIN auth' = DOMAIN auth
      /\ \A f \in {"verified", "session", "sent", "subscribed"} : auth'[f] = auth[f]
  BY <1>1 DEF LinkInv, LinkServerOK
<1>6. LinkServerOK' BY <1>1, <1>5 DEF LinkInv, LinkServerOK, Eligible
<1>7. LinkTabOK(linkTab)' BY <1>1, <1>4, <1>5, LinkShows DEF TextPages
<1> QED BY <1>1, <1>6, <1>7 DEF LinkInv, LinkAccountOK, LinkOthersOK

-----------------------------------------------------------------------------
\* The screen of other devices.
LEMMA DevicesShown ==
    ASSUME LinkInv, Unchanged, linkTab.opens # 0, linkTab' = ShowDevices(linkTab)
    PROVE  LinkInv'
<1> DEFINE c == ShowScreen(linkTab, "connect_another_device")
           buttons == IF CanSignIn THEN {} ELSE CreateMarketingSnippet("connect_another_device", MarketingWhich)
<1>1. linkTab' = [c EXCEPT !.canSignIn = CanSignIn, !.method = ConnectMethod, !.buttons = buttons]
  BY DEF ShowDevices
<1>2. "connect_another_device" \in LinkScreens BY DEF LinkScreens
<1>3. LinkShape(linkTab) /\ LinkTypes(linkTab) BY DEF LinkInv, LinkTabOK
<1>4. /\ LinkShape(c) /\ LinkTypes(c) /\ c.page = "connect_another_device" /\ c.step = "ready" /\ c.opens = linkTab.opens
      /\ c.session = linkTab.session /\ c.original = linkTab.original
  BY <1>2, <1>3, ShownTypes, LinkShown DEF LinkShape
<1>5. CanSignIn \in BOOLEAN BY DEF CanSignIn
<1>6. buttons \subseteq {"ios", "android"} BY DEF CreateMarketingSnippet, StoreButtons
<1> HIDE DEF c, buttons
<1>7. /\ LinkShape(linkTab') /\ LinkTypes(linkTab') /\ linkTab'.page = "connect_another_device" /\ linkTab'.step = "ready"
      /\ linkTab'.opens = linkTab.opens /\ linkTab'.session = linkTab.session /\ linkTab'.original = linkTab.original
  BY <1>1, <1>4, <1>5, <1>6 DEF LinkShape, LinkTypes
<1>8. LinkTabOK(linkTab)' BY <1>7, LinkShows DEF Unchanged, TextPages
<1> QED BY <1>8, LinkTabOnly

LEMMA NotEligibleOK == ASSUME LinkInv, NotEligibleForSms PROVE LinkInv'
<1>1. linkTab.opens # 0 BY DEF NotEligibleForSms, LinkInv, LinkTabOK, Opens
<1> QED BY <1>1, DevicesShown DEF NotEligibleForSms

\* A screen of the text message, or the one to sign in at.
LEMMA SmsShown ==
    ASSUME LinkInv, NEW page \in TextPages, NEW country
    PROVE  LET c == ShowSms(page, country)
           IN  /\ LinkShape(c) /\ LinkTypes(c) /\ c.step = "ready"
               /\ c.page = "signin" \/ (c.page = page /\ c.country = country)
               /\ \A f \in {"opens", "session", "original", "agreed", "number"} : c[f] = linkTab[f]
<1>1. LinkShape(linkTab) /\ LinkTypes(linkTab) BY DEF LinkInv, LinkTabOK
<1>2. page \in LinkScreens /\ "signin" \in LinkScreens BY DEF LinkScreens, TextPages
<1>3. CreateMarketingSnippet(page, FALSE) \subseteq {"ios", "android"}
  BY DEF CreateMarketingSnippet, StoreButtons
<1>4. CASE Who.signedIn
  <2> DEFINE c == ShowScreen(linkTab, page)
             d == [c EXCEPT !.country = country, !.buttons = CreateMarketingSnippet(page, FALSE)]
  <2>1. ShowSms(page, country) = d BY <1>4 DEF ShowSms
  <2>2. /\ LinkShape(c) /\ LinkTypes(c) /\ c.page = page /\ c.step = "ready"
        /\ \A f \in {"opens", "session", "original", "agreed", "number"} : c[f] = linkTab[f]
    BY <1>1, <1>2, ShownTypes, LinkShown DEF LinkShape
  <2> HIDE DEF c
  <2>3. /\ LinkShape(d) /\ LinkTypes(d) /\ d.page = page /\ d.country = country /\ d.step = "ready"
        /\ \A f \in {"opens", "session", "original", "agreed", "number"} : d[f] = linkTab[f]
    BY <1>3, <2>2 DEF LinkShape, LinkTypes
  <2> QED BY <2>1, <2>3
<1>5. CASE ~Who.signedIn
  <2> DEFINE c == ShowScreen(linkTab, "signin")
  <2>1. ShowSms(page, country) = c BY <1>5 DEF ShowSms
  <2>2. /\ LinkShape(c) /\ LinkTypes(c) /\ c.page = "signin" /\ c.step = "ready"
        /\ \A f \in {"opens", "session", "original", "agreed", "number"} : c[f] = linkTab[f]
    BY <1>1, <1>2, ShownTypes, LinkShown DEF LinkShape
  <2> QED BY <2>1, <2>2
<1> QED BY <1>4, <1>5

\* Whatever the server answers, the country is one that may be sent to.
LEMMA SmsStatusOK == ASSUME LinkInv, SmsStatusAnswered PROVE LinkInv'
<1>1. Unchanged /\ linkTab.opens # 0 BY DEF SmsStatusAnswered, LinkInv, LinkTabOK, Opens
<1>2. PICK reply, country :
          /\ country = GetEligibleSmsCountry(reply)
          /\ linkTab' = IF country = "none" THEN ShowDevices(linkTab)
                        ELSE [ShowSms("sms", country) EXCEPT !.agreed = SmsCountry(reply)]
  BY DEF SmsStatusAnswered
<1>3. CASE country = "none" BY <1>1, <1>2, <1>3, DevicesShown
<1>4. CASE country # "none"
  <2>1. country = SmsCountry(reply) /\ Choose(country) # "none"
    BY <1>2, <1>4 DEF GetEligibleSmsCountry
  <2>2. RolloutRate(country) > 0 \/ link.tester
    BY <2>1 DEF Choose, RolloutRate
  <2> DEFINE c == ShowSms("sms", country)
  <2>3. /\ LinkShape(c) /\ LinkTypes(c) /\ c.step = "ready" /\ (c.page = "signin" \/ (c.page = "sms" /\ c.country = country))
        /\ \A f \in {"opens", "session", "original", "agreed", "number"} : c[f] = linkTab[f]
    BY SmsShown DEF TextPages
  <2>4. linkTab' = [c EXCEPT !.agreed = country] BY <1>2, <1>4, <2>1
  <2> HIDE DEF c
  <2>5. /\ LinkShape(linkTab') /\ LinkTypes(linkTab') /\ linkTab'.step = "ready" /\ linkTab'.agreed = country
        /\ linkTab'.page = "signin" \/ (linkTab'.page = "sms" /\ linkTab'.country = country)
        /\ \A f \in {"opens", "session", "original"} : linkTab'[f] = linkTab[f]
    BY <2>3, <2>4 DEF LinkShape, LinkTypes
  <2>6. Texts(linkTab)'
    <3>1. CountryOf(linkTab') = link.country \/ linkTab'.page = "signin" \/ CountryOf(linkTab') = country
      BY <1>4, <2>5 DEF CountryOf
    <3>2. linkTab'.page # "signin" => Eligible(CountryOf(linkTab'), linkTab'.agreed)
      BY <2>2, <2>5, <3>1 DEF Eligible
    <3>3. UNCHANGED link BY <1>1 DEF Unchanged
    <3> QED BY <2>5, <3>2, <3>3 DEF Texts, TextPages, Eligible, CountryOf
  <2>7. Opens(linkTab)' BY <1>1, <2>5 DEF LinkInv, LinkTabOK, Unchanged, Opens
  <2>8. Tells(linkTab)' BY <1>1, <2>5 DEF LinkInv, LinkTabOK, Unchanged, Tells
  <2>9. Returns(linkTab)' BY <1>1, <2>5 DEF LinkInv, LinkTabOK, Unchanged, Returns
  <2>10. LinkShape(linkTab)' /\ LinkTypes(linkTab)' BY <2>5 DEF LinkShape, LinkTypes
  <2>11. Comes(linkTab)' BY <1>1, <2>5 DEF LinkInv, LinkTabOK, Unchanged, Comes, Finished, IsSignUp
  <2> QED BY <1>1, <2>6, <2>7, <2>8, <2>9, <2>10, <2>11, LinkTabOnly DEF LinkTabOK
<1> QED BY <1>3, <1>4

LEMMA SignInToSyncOK == ASSUME LinkInv, SignInToSync PROVE LinkInv'
<1> DEFINE c == ShowScreen(linkTab, "signin")
           b == NewBroker(GetSyncContext, link.browser)
<1>1. linkTab' = [c EXCEPT !.broker = b] /\ Unchanged /\ linkTab.opens # 0
  BY DEF SignInToSync, LinkInv, LinkTabOK, Opens
<1>2. "signin" \in LinkScreens BY DEF LinkScreens
<1>3. LinkShape(linkTab) /\ LinkTypes(linkTab) BY DEF LinkInv, LinkTabOK
<1>4. /\ LinkShape(c) /\ LinkTypes(c) /\ c.page = "signin" /\ c.step = "ready" /\ c.opens = linkTab.opens
      /\ c.session = linkTab.session /\ c.original = linkTab.original
  BY <1>2, <1>3, ShownTypes, LinkShown DEF LinkShape
<1>5. DOMAIN b.behaviors \subseteq {"afterSignIn"}
  <2>1. b.behaviors = FetchFirstrun(GetSyncContext, link.browser) BY DEF NewBroker
  <2> QED BY <2>1 DEF FetchFirstrun
<1> HIDE DEF c, b
<1>6. /\ LinkShape(linkTab') /\ LinkTypes(linkTab') /\ linkTab'.page = "signin" /\ linkTab'.step = "ready"
      /\ linkTab'.opens = linkTab.opens /\ linkTab'.session = linkTab.session /\ linkTab'.original = linkTab.original
  BY <1>1, <1>4, <1>5 DEF LinkShape, LinkTypes
<1>7. LinkTabOK(linkTab)' BY <1>1, <1>6, LinkShows DEF Unchanged, TextPages
<1> QED BY <1>1, <1>7, LinkTabOnly

LEMMA WhyAndBackOK == ASSUME LinkInv, WhyAndBack PROVE LinkInv'
<1>1. PICK page \in {"connect_another_device", "why_connect_another_device"} : linkTab' = [linkTab EXCEPT !.page = page]
  BY DEF WhyAndBack
<1>2. Unchanged /\ linkTab.opens # 0 BY DEF WhyAndBack, LinkInv, LinkTabOK, Opens
<1>3. page \in LinkScreens /\ page \notin TextPages BY DEF LinkScreens, TextPages
<1>4. LinkShape(linkTab) /\ LinkTypes(linkTab) BY DEF LinkInv, LinkTabOK
<1>5. /\ LinkShape(linkTab') /\ LinkTypes(linkTab') /\ linkTab'.page = page /\ linkTab'.step = linkTab.step
      /\ linkTab'.broker = linkTab.broker
      /\ linkTab'.opens = linkTab.opens /\ linkTab'.session = linkTab.session /\ linkTab'.original = linkTab.original
  BY <1>1, <1>3, <1>4 DEF LinkShape, LinkTypes
<1>6. Texts(linkTab)' BY <1>3, <1>5 DEF Texts, TextPages
<1>7. Opens(linkTab)' BY <1>2, <1>5 DEF LinkInv, LinkTabOK, Unchanged, Opens
<1>8. Tells(linkTab)' BY <1>2, <1>5 DEF LinkInv, LinkTabOK, Unchanged, Tells
<1>9. Returns(linkTab)' BY <1>2, <1>5 DEF LinkInv, LinkTabOK, Unchanged, Returns
<1>10. LinkShape(linkTab)' /\ LinkTypes(linkTab)' BY <1>5 DEF LinkShape, LinkTypes
<1>11. Comes(linkTab)' BY <1>2, <1>5 DEF LinkInv, LinkTabOK, Unchanged, Comes, Finished, IsSignUp
<1> QED BY <1>2, <1>6, <1>7, <1>8, <1>9, <1>10, <1>11, LinkTabOnly DEF LinkTabOK

-----------------------------------------------------------------------------
\* The text message.
LEMMA SubmitNumberOK == ASSUME LinkInv, SubmitNumber PROVE LinkInv'
<1>1. GetCountry = CountryOf(linkTab) BY DEF GetCountry, CountryOf
<1>2. PICK num \in Numbers : /\ Accepts(CountryOf(linkTab), num)
                             /\ linkTab' = [linkTab EXCEPT !.step = "sending",
                                                           !.number = Normalize(CountryOf(linkTab), num)]
  BY <1>1 DEF SubmitNumber
<1>3. Deliverable(CountryOf(linkTab), Normalize(CountryOf(linkTab), num)) BY <1>2, NumberOK
<1>4. Unchanged /\ linkTab.page = "sms" /\ linkTab.opens # 0
  BY DEF SubmitNumber, LinkInv, LinkTabOK, Opens
<1>5. LinkShape(linkTab) /\ LinkTypes(linkTab) BY DEF LinkInv, LinkTabOK
<1>6. /\ LinkShape(linkTab') /\ LinkTypes(linkTab') /\ linkTab'.step = "sending"
      /\ linkTab'.number = Normalize(CountryOf(linkTab), num)
      /\ \A f \in {"page", "opens", "session", "original", "country", "agreed"} : linkTab'[f] = linkTab[f]
  BY <1>2, <1>5 DEF LinkShape, LinkTypes
<1>7. UNCHANGED link BY <1>4 DEF Unchanged
<1>8. CountryOf(linkTab)' = CountryOf(linkTab) BY <1>6, <1>7 DEF CountryOf
<1>9. Texts(linkTab)'
  <2>1. Eligible(CountryOf(linkTab), linkTab.agreed) BY <1>4 DEF LinkInv, LinkTabOK, Texts, TextPages
  <2>2. Eligible(CountryOf(linkTab), linkTab.agreed)' BY <1>6, <1>7, <1>8, <2>1 DEF Eligible
  <2>3. Deliverable(CountryOf(linkTab), linkTab.number)' BY <1>3, <1>6, <1>8 DEF Deliverable
  <2> QED BY <2>2, <2>3 DEF Texts
<1>10. Opens(linkTab)' BY <1>4, <1>6 DEF LinkInv, LinkTabOK, Unchanged, Opens
<1>11. Tells(linkTab)' BY <1>4, <1>6 DEF LinkInv, LinkTabOK, Unchanged, Tells
<1>12. Returns(linkTab)' BY <1>4, <1>6 DEF LinkInv, LinkTabOK, Unchanged, Returns
<1>13. LinkShape(linkTab)' /\ LinkTypes(linkTab)' BY <1>6 DEF LinkShape, LinkTypes
<1>14. Comes(linkTab)' BY <1>4, <1>6 DEF LinkInv, LinkTabOK, Unchanged, Comes, Finished, IsSignUp
<1> QED BY <1>4, <1>9, <1>10, <1>11, <1>12, <1>13, <1>14, LinkTabOnly DEF LinkTabOK

\* A message is sent of a screen that may send it.
LEMMA MessageSent ==
    ASSUME LinkInv, link' = link, auth' = [auth EXCEPT !.sent = Message],
           Eligible(CountryOf(linkTab), linkTab.agreed), Deliverable(CountryOf(linkTab), linkTab.number)
    PROVE  LinkServerOK' /\ auth'.verified = auth.verified
<1> DEFINE sms == [country |-> GetCountry, agreed |-> linkTab.agreed, number |-> linkTab.number]
<1>1. /\ DOMAIN auth' = DOMAIN auth /\ auth'.sent = {sms}
      /\ \A f \in {"verified", "session", "subscribed"} : auth'[f] = auth[f]
  BY DEF Message, LinkInv, LinkServerOK
<1>2. sms.country = CountryOf(linkTab) /\ sms.agreed = linkTab.agreed /\ sms.number = linkTab.number
  BY DEF GetCountry, CountryOf
<1> HIDE DEF sms
<1> QED BY <1>1, <1>2 DEF LinkInv, LinkServerOK, Eligible, Deliverable

\* The screen after a message is of the country it was sent to.
LEMMA SentShown ==
    ASSUME LinkInv, UNCHANGED <<link, stored, others>>, auth'.verified = auth.verified,
           linkTab.opens # 0, LinkShape(linkTab'), LinkTypes(linkTab'), linkTab'.step = "ready",
           \A f \in {"opens", "session", "original", "agreed"} : linkTab'[f] = linkTab[f],
           linkTab'.page \in TextPages => /\ CountryOf(linkTab)' = CountryOf(linkTab)
                                          /\ Eligible(CountryOf(linkTab), linkTab.agreed),
           linkTab'.page = "sms_sent" => Deliverable(CountryOf(linkTab), linkTab'.number)
    PROVE  LinkTabOK(linkTab)'
<1>1. Texts(linkTab)'
  <2>1. linkTab'.page \in TextPages => Eligible(CountryOf(linkTab), linkTab.agreed)' BY DEF Eligible
  <2>2. linkTab'.page = "sms_sent" => Deliverable(CountryOf(linkTab), linkTab.number)' BY DEF Deliverable, TextPages
  <2> QED BY <2>1, <2>2 DEF Texts
<1>2. Opens(linkTab)' BY DEF LinkInv, LinkTabOK, Opens
<1>3. Tells(linkTab)' BY DEF LinkInv, LinkTabOK, Tells
<1>4. Returns(linkTab)' BY DEF LinkInv, LinkTabOK, Returns
<1>5. LinkShape(linkTab)' /\ LinkTypes(linkTab)' BY DEF LinkShape, LinkTypes
<1>6. Comes(linkTab)' BY DEF LinkInv, LinkTabOK, Comes, Finished, IsSignUp
<1> QED BY <1>1, <1>2, <1>3, <1>4, <1>5, <1>6 DEF LinkTabOK

LEMMA SmsAnsweredOK == ASSUME LinkInv, SmsAnswered PROVE LinkInv'
<1>1. /\ linkTab.page = "sms" /\ linkTab.step = "sending" /\ linkTab.opens # 0
      /\ UNCHANGED <<link, stored, others>> /\ LinkShape(linkTab) /\ LinkTypes(linkTab)
  BY DEF SmsAnswered, LinkInv, LinkTabOK, Opens
<1>2. Eligible(CountryOf(linkTab), linkTab.agreed) /\ Deliverable(CountryOf(linkTab), linkTab.number)
  BY <1>1 DEF LinkInv, LinkTabOK, Texts, TextPages
<1>3. CASE linkTab' = ShowSms("sms_sent", GetCountry) /\ auth' = [auth EXCEPT !.sent = Message]
  <2>1. LinkServerOK' /\ auth'.verified = auth.verified BY <1>1, <1>2, <1>3, MessageSent
  <2>2. /\ LinkShape(linkTab') /\ LinkTypes(linkTab') /\ linkTab'.step = "ready"
        /\ linkTab'.page = "signin" \/ (linkTab'.page = "sms_sent" /\ linkTab'.country = GetCountry)
        /\ \A f \in {"opens", "session", "original", "agreed", "number"} : linkTab'[f] = linkTab[f]
    BY <1>3, SmsShown DEF TextPages
  <2>3. linkTab'.page \in TextPages => CountryOf(linkTab)' = CountryOf(linkTab)
    BY <1>1, <2>2 DEF CountryOf, GetCountry, TextPages
  <2>4. LinkTabOK(linkTab)' BY <1>1, <1>2, <2>1, <2>2, <2>3, SentShown
  <2> QED BY <1>1, <2>1, <2>4 DEF LinkInv, LinkAccountOK, LinkOthersOK
<1>4. CASE linkTab' = [linkTab EXCEPT !.step = "ready", !.number = NoNumber] /\ UNCHANGED auth
  <2>1. /\ LinkShape(linkTab') /\ LinkTypes(linkTab') /\ linkTab'.step = "ready" /\ linkTab'.page = "sms"
        /\ \A f \in {"opens", "session", "original", "agreed", "country"} : linkTab'[f] = linkTab[f]
    BY <1>1, <1>4 DEF LinkShape, LinkTypes
  <2>2. CountryOf(linkTab)' = CountryOf(linkTab) BY <1>1, <2>1 DEF CountryOf
  <2>3. LinkTabOK(linkTab)' BY <1>1, <1>2, <1>4, <2>1, <2>2, SentShown
  <2> QED BY <1>1, <1>4, <2>3, LinkTabOnly DEF Unchanged
<1> QED BY <1>3, <1>4 DEF SmsAnswered

LEMMA ResendSmsOK == ASSUME LinkInv, ResendSms PROVE LinkInv'
<1>1. /\ linkTab.page = "sms_sent" /\ linkTab.opens # 0 /\ linkTab.resends < MaxResends
      /\ linkTab' = [linkTab EXCEPT !.resends = @ + 1] /\ auth' = [auth EXCEPT !.sent = Message]
      /\ UNCHANGED <<link, stored, others>> /\ LinkShape(linkTab) /\ LinkTypes(linkTab)
  BY DEF ResendSms, LinkInv, LinkTabOK, Opens
<1>2. Eligible(CountryOf(linkTab), linkTab.agreed) /\ Deliverable(CountryOf(linkTab), linkTab.number)
  BY <1>1 DEF LinkInv, LinkTabOK, Texts, TextPages
<1>3. LinkServerOK' /\ auth'.verified = auth.verified BY <1>1, <1>2, MessageSent
<1>4. linkTab.resends + 1 \in 0..MaxResends BY <1>1, ResendsAssumption DEF LinkTypes
<1>5. /\ LinkShape(linkTab') /\ LinkTypes(linkTab')
      /\ \A f \in {"page", "step", "opens", "session", "original", "broker", "country", "agreed", "number"} : linkTab'[f] = linkTab[f]
  BY <1>1, <1>4 DEF LinkShape, LinkTypes
<1>6. CountryOf(linkTab)' = CountryOf(linkTab) BY <1>1, <1>5 DEF CountryOf
<1>7. Texts(linkTab)' BY <1>1, <1>2, <1>5, <1>6 DEF Texts, Eligible, Deliverable
<1>8. Opens(linkTab)' BY <1>1, <1>3, <1>5 DEF LinkInv, LinkTabOK, Opens
<1>9. Tells(linkTab)' BY <1>1, <1>3, <1>5 DEF LinkInv, LinkTabOK, Tells
<1>10. Returns(linkTab)' BY <1>1, <1>5 DEF LinkInv, LinkTabOK, Returns
<1>11. LinkShape(linkTab)' /\ LinkTypes(linkTab)' BY <1>5 DEF LinkShape, LinkTypes
<1>a. Comes(linkTab)' BY <1>1, <1>3, <1>5 DEF LinkInv, LinkTabOK, Comes, Finished, IsSignUp
<1>12. LinkTabOK(linkTab)' BY <1>7, <1>8, <1>9, <1>10, <1>11, <1>a DEF LinkTabOK
<1> QED BY <1>1, <1>3, <1>12 DEF LinkInv, LinkAccountOK, LinkOthersOK

LEMMA BackToSmsOK == ASSUME LinkInv, BackToSms PROVE LinkInv'
<1> DEFINE c == ShowSms("sms", linkTab.country)
<1>1. /\ linkTab.page = "sms_sent" /\ linkTab' = [c EXCEPT !.number = NoNumber] /\ Unchanged
      /\ linkTab.opens # 0
  BY DEF BackToSms, LinkInv, LinkTabOK, Opens
<1>2. /\ LinkShape(c) /\ LinkTypes(c) /\ c.step = "ready"
      /\ c.page = "signin" \/ (c.page = "sms" /\ c.country = linkTab.country)
      /\ \A f \in {"opens", "session", "original", "agreed", "number"} : c[f] = linkTab[f]
  BY SmsShown DEF TextPages
<1> HIDE DEF c
<1>3. /\ LinkShape(linkTab') /\ LinkTypes(linkTab') /\ linkTab'.step = "ready"
      /\ linkTab'.page = "signin" \/ (linkTab'.page = "sms" /\ linkTab'.country = linkTab.country)
      /\ \A f \in {"opens", "session", "original", "agreed"} : linkTab'[f] = linkTab[f]
  BY <1>1, <1>2 DEF LinkShape, LinkTypes
<1>4. UNCHANGED <<link, stored, others>> /\ auth'.verified = auth.verified
  BY <1>1 DEF Unchanged
<1>5. linkTab'.page \in TextPages => CountryOf(linkTab)' = CountryOf(linkTab)
  BY <1>3, <1>4 DEF CountryOf, TextPages
<1>6. Eligible(CountryOf(linkTab), linkTab.agreed) BY <1>1 DEF LinkInv, LinkTabOK, Texts, TextPages
<1>7. LinkTabOK(linkTab)' BY <1>1, <1>3, <1>4, <1>5, <1>6, SentShown
<1> QED BY <1>1, <1>7, LinkTabOnly

-----------------------------------------------------------------------------
\* The other tabs.
LEMMA AskingTabOK == ASSUME LinkInv, AskingTabPolls PROVE LinkInv'
<1>1. /\ others.asking = "polls" /\ UNCHANGED <<link, linkTab, stored, auth>>
      /\ \E ok \in BOOLEAN :
            others' = IF link.service = "rp" THEN FinishOAuthSignUpFlow([others EXCEPT !.asking = "done"], ok)
                      ELSE [others EXCEPT !.asking = "done"]
  BY DEF AskingTabPolls
<1>2. others.relier = 0 /\ ~linkTab.original BY <1>1 DEF LinkInv, LinkTabOK, Returns
<1>3. /\ DOMAIN others' = DOMAIN others /\ others'.asking = "done" /\ others'.told = others.told
      /\ others'.relier \in 0..1 /\ others'.failed \in BOOLEAN
      /\ link.service = "rp" => others'.relier = 1 \/ others'.failed
      /\ Finished => Finished'
  <2> DEFINE o == [others EXCEPT !.asking = "done"]
  <2>1. /\ DOMAIN o = DOMAIN others /\ o.asking = "done" /\ o.told = others.told /\ o.relier = 0
        /\ o.failed = others.failed /\ o.failed \in BOOLEAN
    BY <1>2 DEF LinkInv, LinkOthersOK
  <2> HIDE DEF o
  <2>2. PICK ok \in BOOLEAN : others' = IF link.service = "rp" THEN FinishOAuthSignUpFlow(o, ok) ELSE o
    BY <1>1 DEF o
  <2>3. DOMAIN o = {"asking", "told", "relier", "failed"} BY <2>1 DEF LinkInv, LinkOthersOK
  <2>4. CASE link.service = "rp" /\ ok
    <3>1. others' = [o EXCEPT !.relier = @ + 1] BY <2>2, <2>4 DEF FinishOAuthSignUpFlow
    <3> QED BY <2>1, <2>3, <3>1 DEF Finished
  <2>5. CASE link.service = "rp" /\ ~ok
    <3>1. others' = [o EXCEPT !.failed = TRUE] BY <2>2, <2>5 DEF FinishOAuthSignUpFlow
    <3> QED BY <2>1, <2>3, <3>1 DEF Finished
  <2>6. CASE link.service # "rp" BY <1>2, <2>1, <2>2, <2>6 DEF Finished
  <2> QED BY <2>4, <2>5, <2>6
<1>4. LinkOthersOK' BY <1>3 DEF LinkInv, LinkOthersOK
<1>5. LinkTabOK(linkTab)'
  <2>1. Texts(linkTab)' BY <1>1 DEF LinkInv, LinkTabOK, Texts, CountryOf, Eligible
  <2>2. Opens(linkTab)' BY <1>1, <1>3 DEF LinkInv, LinkTabOK, Opens
  <2>3. Tells(linkTab)' BY <1>1, <1>3 DEF LinkInv, LinkTabOK, Tells
  <2>4. Returns(linkTab)' BY <1>1, <1>2, <1>3 DEF Returns
  <2>5. Comes(linkTab)' BY <1>1, <1>3 DEF LinkInv, LinkTabOK, Comes, Finished, IsSignUp
  <2> QED BY <1>1, <2>1, <2>2, <2>3, <2>4, <2>5 DEF LinkInv, LinkTabOK, LinkShape, LinkTypes
<1> QED BY <1>1, <1>4, <1>5 DEF LinkInv, LinkAccountOK, LinkServerOK, Eligible

\* The user signs out, or in with another account.
LEMMA LinkUserOK == ASSUME LinkInv, SignOut \/ AnotherSignsIn PROVE LinkInv'
<1>1. /\ UNCHANGED <<link, linkTab, others>> /\ LinkAccountOK'
      /\ stored'.session = stored.session \/ stored'.session = 0
  <2>1. CASE SignOut
    <3> DEFINE a == [stored EXCEPT !.session = 0]
    <3>1. DOMAIN a = DOMAIN stored /\ a.session = 0 /\ a.context = stored.context
      BY DEF LinkInv, LinkAccountOK
    <3>2. stored' = [a EXCEPT !.signedIn = "none"] BY <2>1 DEF SignOut
    <3> HIDE DEF a
    <3> QED BY <2>1, <3>1, <3>2 DEF SignOut, LinkInv, LinkAccountOK
  <2>2. CASE AnotherSignsIn BY <2>2 DEF AnotherSignsIn, LinkInv, LinkAccountOK
  <2> QED BY <2>1, <2>2
<1>2. /\ DOMAIN auth' = DOMAIN auth /\ auth'.session \in 0..1
      /\ \A f \in {"verified", "sent", "subscribed"} : auth'[f] = auth[f]
  BY DEF SignOut, AnotherSignsIn, LinkInv, LinkServerOK
<1>3. LinkServerOK' BY <1>1, <1>2 DEF LinkInv, LinkServerOK, Eligible
<1>4. LinkTabOK(linkTab)'
  <2>1. Texts(linkTab)' BY <1>1 DEF LinkInv, LinkTabOK, Texts, CountryOf, Eligible
  <2>2. Opens(linkTab)' BY <1>1, <1>2 DEF LinkInv, LinkTabOK, Opens
  <2>3. Tells(linkTab)' BY <1>1, <1>2 DEF LinkInv, LinkTabOK, Tells
  <2>4. Returns(linkTab)' BY <1>1 DEF LinkInv, LinkTabOK, Returns
  <2>5. Comes(linkTab)' BY <1>1, <1>2 DEF LinkInv, LinkTabOK, Comes, Finished, IsSignUp
  <2> QED BY <1>1, <2>1, <2>2, <2>3, <2>4, <2>5 DEF LinkInv, LinkTabOK, LinkShape, LinkTypes
<1> QED BY <1>1, <1>3, <1>4 DEF LinkInv, LinkOthersOK

-----------------------------------------------------------------------------
LEMMA LinkInitOK == ASSUME LinkInit PROVE LinkInv
<1>1. /\ link \in LinkScenarios /\ link.signedIn \in {"own", "another", "none"}
      /\ link.context \in Contexts \cup {"none"}
  BY LinkScenariosAssumption DEF LinkInit
<1>2. LinkAccountOK BY <1>1 DEF LinkInit, LinkAccountOK
<1>3. LinkServerOK BY DEF LinkInit, LinkServerOK
<1>4. LinkOthersOK /\ others.told = 0 /\ others.relier = 0
      /\ (link.where = "replaces" => others.asking = "gone")
  BY DEF LinkInit, LinkOthersOK
<1> DEFINE b == NewBroker("web", link.browser)
<1>5. DOMAIN b.behaviors \subseteq {"afterSignIn"}
  <2>1. b.behaviors = FetchFirstrun("web", link.browser) BY DEF NewBroker
  <2> QED BY <2>1 DEF FetchFirstrun
<1> HIDE DEF b
<1>6. /\ LinkShape(linkTab) /\ linkTab.page = (IF link.where = "replaces" THEN "confirm" ELSE "none") /\ linkTab.step = "ready" /\ linkTab.broker = b
      /\ linkTab.session = 0 /\ linkTab.known = {} /\ linkTab.mark = "none" /\ linkTab.opens = 0 /\ linkTab.resends = 0
      /\ linkTab.buttons = {}
  BY DEF LinkInit, LinkShape, b
<1>7. /\ (linkTab.original <=> link.where = "replaces") /\ linkTab.original \in BOOLEAN /\ linkTab.same \in BOOLEAN
      /\ linkTab.stores \in BOOLEAN /\ linkTab.canSignIn \in BOOLEAN
  BY DEF LinkInit
<1>8. LinkTypes(linkTab)
  <2>1. linkTab.page \in LinkScreens /\ linkTab.mark \in Marks BY <1>6 DEF LinkScreens, Marks
  <2>2. linkTab.session \in 0..1 /\ linkTab.opens \in 0..2 /\ linkTab.resends \in 0..MaxResends
    BY <1>6, ResendsAssumption
  <2> QED BY <1>5, <1>6, <1>7, <2>1, <2>2 DEF LinkTypes
<1>9. Texts(linkTab) BY <1>6 DEF Texts, TextPages
<1>10. Opens(linkTab)
  <2>1. ~auth.verified BY DEF LinkInit
  <2> QED BY <1>4, <1>6, <2>1 DEF Opens
<1>11. Tells(linkTab) BY <1>6 DEF Tells
<1>12. Returns(linkTab) BY <1>4, <1>7 DEF Returns
<1>13. Comes(linkTab)
  <2>1. others.asking # "done" BY DEF LinkInit
  <2> QED BY <1>6, <1>7, <2>1 DEF Comes
<1> QED BY <1>1, <1>2, <1>3, <1>4, <1>6, <1>8, <1>9, <1>10, <1>11, <1>12, <1>13 DEF LinkInv, LinkTabOK

LEMMA LinkNextOK == ASSUME LinkInv, [LinkNext]_(linkVars) PROVE LinkInv'
<1>1. CASE UNCHANGED linkVars
  BY <1>1 DEF linkVars, LinkInv, LinkAccountOK, LinkServerOK, LinkOthersOK, LinkTabOK, LinkShape, LinkTypes, Texts,
              Opens, Tells, Returns, Comes, Finished, IsSignUp, Eligible, CountryOf
<1>2. CASE OpenEmailLink BY <1>2, LinkOpenOK
<1>3. CASE Verified BY <1>3, LinkVerifiedOK
<1>4. CASE AccountFetched BY <1>4, LinkFetchedOK
<1>5. CASE VerificationFails BY <1>5, LinkFailsOK
<1>6. CASE ResendEmail BY <1>6, LinkResendOK
<1>7. CASE OpenReport BY <1>7, LinkReportOK
<1>8. CASE RejectUnblockCode BY <1>8, LinkRejectOK
<1>9. CASE SmsStatusAnswered BY <1>9, SmsStatusOK
<1>10. CASE NotEligibleForSms BY <1>10, NotEligibleOK
<1>11. CASE SignInToSync BY <1>11, SignInToSyncOK
<1>12. CASE WhyAndBack BY <1>12, WhyAndBackOK
<1>13. CASE SubmitNumber BY <1>13, SubmitNumberOK
<1>14. CASE SmsAnswered BY <1>14, SmsAnsweredOK
<1>15. CASE ResendSms BY <1>15, ResendSmsOK
<1>16. CASE BackToSms BY <1>16, BackToSmsOK
<1>17. CASE AskingTabPolls BY <1>17, AskingTabOK
<1>18. CASE SignOut \/ AnotherSignsIn BY <1>18, LinkUserOK
<1> QED
  BY <1>1, <1>2, <1>3, <1>4, <1>5, <1>6, <1>7, <1>8, <1>9, <1>10, <1>11, <1>12, <1>13, <1>14, <1>15, <1>16, <1>17, <1>18
  DEF LinkNext

\* Whatever the place, the kind of the link and the other tabs do, every state of
\* Links satisfies LinkInv: nothing came of a link that was not opened, an opening
\* tells the other tabs at most once, only a tab whose session is known stores it,
\* each tab that may still return to the relying party finds that none did, and one
\* that takes the place of the tab that asked is still marked as that one.
THEOREM LinkInvariant == LinkSpec => []LinkInv
<1>1. LinkInit => LinkInv BY LinkInitOK
<1>2. LinkInv /\ [LinkNext]_(linkVars) => LinkInv' BY LinkNextOK
<1> QED BY <1>1, <1>2, PTL DEF LinkSpec

\* A code verified in a tab that has a session of the account was told to the other
\* tabs, also if the newsletter could not be subscribed to (models/user.js:
\* completeAccountSignUp).  However often the link is opened, the relying party
\* hears at most once; and it hears, unless finishing its flow failed, the tab that
\* asked still polls, or it is gone and the link does not sign up in its place
\* (models/auth_brokers/oauth-redirect.js: finishOAuthFlowIfOriginalTab).
THEOREM VerificationsAreHeard == LinkSpec => []VerificationIsHeard
<1>1. LinkInv => VerificationIsHeard
  <2> SUFFICES ASSUME LinkInv PROVE VerificationIsHeard OBVIOUS
  <2>1. LinkTypeOK
    BY DEF LinkInv, LinkTabOK, LinkTypes, LinkAccountOK, LinkServerOK, LinkOthersOK, LinkTypeOK, Contexts,
           SyncContexts, OAuthContexts
  <2>2. TabsAreTold BY DEF LinkInv, LinkTabOK, Tells, TabsAreTold
  <2>3. RelierIsTold
    <3>1. others.relier \in 0..1 /\ others.asking \in {"polls", "gone", "done"} BY DEF LinkInv, LinkOthersOK
    <3>2. linkTab.opens \in 0..2 /\ (linkTab.opens = 0 => ~auth.verified) BY DEF LinkInv, LinkTabOK, LinkTypes, Opens
    <3>3. Comes(linkTab) BY DEF LinkInv, LinkTabOK
    <3> QED BY <3>1, <3>2, <3>3 DEF Comes, Finished, RelierIsTold, NoWayBack
  <2> QED BY <2>1, <2>2, <2>3 DEF VerificationIsHeard
<1> QED BY <1>1, LinkInvariant, PTL

\* A text message only goes to a country the server agreed to and that takes part, or
\* that the relying party asked for (connect-another-device-mixin.js:
\* getEligibleSmsCountry).  Its number, typed any way and sent any number of times,
\* has a prefix that is not put before it again, and is one the pattern of the
\* country takes but for the trunk digit of Australia, Belgium, France and Britain;
\* those of the US, Canada and Romania have lost the digit for dialling
\* (lib/country-telephone-info.js: normalize).
THEOREM TextsAreAddressed == LinkSpec => []MessagesAreAddressed
<1>1. LinkInv => MessagesAreAddressed
  BY DEF LinkInv, LinkServerOK, Eligible, Deliverable, MessagesAreAddressed, MessagesAreEligible, OnePrefix
<1> QED BY <1>1, LinkInvariant, PTL
=============================================================================
