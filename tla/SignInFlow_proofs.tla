------------------------- MODULE SignInFlow_proofs -------------------------
(***************************************************************************)
(* Theorems about SignInFlow, for any set of scenarios, any number of      *)
(* forms under way at the same time and of submits.                        *)
(*                                                                         *)
(* That a flow ends with a verified session and with its keys in the       *)
(* browser depends on the way it took: the keys go with the account from   *)
(* the form, through permissions, the choice of engines, second factors    *)
(* and confirmations, to where the broker of the context tells the         *)
(* browser.  The invariant says of every screen and of every call whether  *)
(* the keys are still to come, or the browser has them, and of a broker    *)
(* where its behaviors lead.  The three parts, the world, the screen and   *)
(* the calls, are operators of what they depend on, so that each action is *)
(* looked at in the parts it changes.                                      *)
(***************************************************************************)
EXTENDS SignInFlow, TLAPS

-----------------------------------------------------------------------------
(***************************************************************************)
(* The invariant.  What the screen and the calls depend on is a world: the *)
(* server, the relier, what is stored, the broker, what it was asked.     *)
(***************************************************************************)
World == [scenario |-> scenario, server |-> server, relier |-> relier, user |-> user, broker |-> broker,
          asked |-> asked]

Methods == {"none", "email", "email-2fa", "totp-2fa"}

Reasons == {"none", "login", "signup"}

Redirects == {"none"} \cup SettingsPages

Ends == {"afterSignIn", "afterForceAuth"}

\* Where a behavior ends.
DonePages == {"halted", "connect_another_device", "signin_confirmed", "signup_confirmed"} \cup SettingsPages

CodePages == {"signin_token_code", "signin_totp_code", "signin_recovery_code"}

ConfirmPages == {"confirm", "confirm_signin"}

PermissionPages == {"signin_permissions", "signup_permissions"}

\* The screens that ask nothing before they are shown, and need a session.
Waiting == ConfirmPages \cup PermissionPages \cup {"choose_what_to_sync"}

Typed == {"signIn", "signUp", "check", "unblock", "cached"}

(***************************************************************************)
(* Accounts.                                                               *)
(***************************************************************************)
AccountOK(a) ==
    /\ a \in AccountType /\ a.uid # "stale"
    /\ a.uid # "none" => a.uid = UidOf(a.email)
    /\ a.orig # "none" => UidOf(a.orig) = UidOf(a.email)

\* A session an account has is one of its own.
Holds(w, a) ==
    a.session # 0 => /\ a.uid # "none" /\ a.session \in DOMAIN w.server.sessions
                     /\ w.server.sessions[a.session].uid = a.uid

Good(w, a) == AccountOK(a) /\ Holds(w, a)

Verified(w, a) == a.session # 0 /\ w.server.sessions[a.session].verified

(***************************************************************************)
(* What the browser was told and what it was asked.                        *)
(***************************************************************************)
Syncs(w) == w.scenario.context \in ChannelContexts

Linking(w) == w.scenario.asks /\ Syncs(w)

Recorded == Emails \X {"agreed", "failed"}

\* The browser was asked about the account, and its user did not refuse.
Agreed(w, uid) == Linking(w) => \E p \in w.asked : UidOf(p[1]) = uid

AgreedOnce(w) == \E e \in Emails : <<e, "agreed">> \in w.asked

Has(b, uid) == \E i \in DOMAIN b.sent : b.sent[i].command = "LOGIN" /\ b.sent[i].uid = uid /\ b.sent[i].keys

\* The keys are on their way to the browser, or it has them; a stored account
\* the relier names has none.
Carried(w, a) == a.keys \/ Has(w.broker, a.uid) \/ w.scenario.uid # "none"

Kept(w, a) == a.session # 0 => Carried(w, a)

Reported(w, a) == Has(w.broker, a.uid) \/ (w.scenario.uid # "none" /\ ~a.keys)

\* A session was made since the flow began.
Made(w) == Len(w.server.sessions) > IF w.scenario.cached = "none" THEN 0 ELSE 1

(***************************************************************************)
(* The world.                                                              *)
(***************************************************************************)
Session == [uid : Uids, live : BOOLEAN, verified : BOOLEAN, second : BOOLEAN, method : Methods, reason : Reasons]

ServerOK(w) ==
    /\ DOMAIN w.server = {"accounts", "sessions"}
    /\ w.server.accounts \in [Uids -> Kinds]
    /\ w.server.sessions \in Seq(Session)
    /\ w.scenario.cached # "none" => Len(w.server.sessions) > 0

UserOK(w, u) ==
    /\ DOMAIN u = {"stored", "signedIn", "tooYoung"} /\ DOMAIN u.stored = Uids /\ u.tooYoung \in BOOLEAN
    /\ Good(w, u.signedIn)
    /\ \A x \in Uids : Good(w, u.stored[x]) /\ ~u.stored[x].keys /\ u.stored[x].uid \in {"none", x}

RelierOK(w) ==
    /\ DOMAIN w.relier = {"email", "uid"}
    /\ w.relier.email \in Emails \cup {"none"} /\ w.relier.uid \in Uids \cup {"none", "stale"}
    /\ w.scenario.email # "none" => w.relier.email # "none"

Commands == {"LOGIN", "iframe_login", "signup_must_verify", "verification_complete", "oauth_code"}

Sent == [command : Commands, email : Emails \cup {"none"}, uid : Uids \cup {"none"}, keys : BOOLEAN,
         verified : BOOLEAN, canLink : BOOLEAN]

\* Behaviors by how often they are called before they end.
Ends0(e) == e = Halt \/ \E page \in DonePages : e = Navigate(page)

Ends1(e) == Ends0(e) \/ \E d : Ends0(d) /\ e \in {ConnectAnotherDevice(d), HaltIfBrowserTransitions(d)}

Ends2(e) == Ends1(e) \/ \E d : Ends1(d) /\ e \in {ConnectAnotherDevice(d), HaltIfBrowserTransitions(d)}

BrokerShape(w, b) ==
    /\ DOMAIN b = {"context", "caps", "behaviors", "canLink", "told", "sent"}
    /\ b.context = w.scenario.context /\ b.context \in Contexts
    /\ b.context \in SyncContexts => "reuseExistingSession" \notin b.caps
    /\ DOMAIN b.behaviors \subseteq Ends \cup {"beforeSignUpConfirmationPoll"}
    /\ \A name \in DOMAIN b.behaviors \cap Ends : Ends0(b.behaviors[name])
    /\ b.sent \in Seq(Sent)
    /\ \A i \in DOMAIN b.sent : b.sent[i].command = "LOGIN" => b.context \in ChannelContexts

LinksAgreed(w, b) ==
    Linking(w) => /\ b.canLink # "none" => b.canLink \in Emails /\ <<b.canLink, "agreed">> \in w.asked
                  /\ \A i \in DOMAIN b.sent :
                        b.sent[i].command = "LOGIN" /\ b.sent[i].canLink => Agreed(w, b.sent[i].uid) /\ AgreedOnce(w)

BrokerOK(w, b) == BrokerShape(w, b) /\ (b.told # "none" => Has(b, b.told)) /\ LinksAgreed(w, b)

\* What is told of the signed-in account, and of the one the relier names.
KeysOK(w) ==
    /\ w.user.signedIn.keys => Agreed(w, w.user.signedIn.uid)
    /\ Syncs(w) =>
          /\ w.relier.uid # w.scenario.uid => Has(w.broker, w.relier.uid)
          /\ Made(w) => Kept(w, w.user.signedIn)
          /\ ~Made(w) => \A i \in DOMAIN w.server.sessions : w.server.sessions[i].verified

WorldOK(w) ==
    /\ w.scenario \in Scenarios /\ w.asked \subseteq Recorded
    /\ ServerOK(w) /\ UserOK(w, w.user) /\ RelierOK(w) /\ BrokerOK(w, w.broker) /\ KeysOK(w)

(***************************************************************************)
(* The screen.                                                             *)
(***************************************************************************)
ViewShape(v) ==
    /\ DOMAIN v = {"page", "account", "shown", "ask", "from", "complete", "error", "password", "redirectTo", "done"}
    /\ v.shown \in BOOLEAN /\ v.ask \in BOOLEAN /\ v.done \in BOOLEAN /\ v.redirectTo \in Redirects

\* What a screen has that acts on an account.
ViewHas(w, v) ==
    /\ Good(w, v.account)
    /\ v.page \in {"signin_password", "signup_password"} /\ v.shown => v.account.email # "none"
    /\ v.page = "signin_unblock" => v.account.email # "none"
    /\ "force_auth" \in {v.page, v.from} => w.relier.email # "none"
    /\ v.page \in Waiting => v.account.session # 0
    /\ v.page = "signin_permissions" => v.complete \in Ends
    /\ v.complete = "finishOAuthFlow" => ~Syncs(w) /\ ~v.done /\ v.page \notin SettingsPages

ViewVerified(w, v) ==
    /\ v.page \in PermissionPages /\ v.account.verified => Verified(w, v.account)
    /\ v.done => v.page \in DonePages /\ Verified(w, v.account)

ViewKeys(w, v) ==
    /\ v.account.keys => Agreed(w, v.account.uid)
    /\ Syncs(w) =>
          /\ v.page \in ConfirmPages \cup CodePages \cup {"choose_what_to_sync", "signup_permissions"}
                => Kept(w, v.account)
          /\ v.page = "signin_permissions" => v.account.keys
          /\ v.page \in CodePages \cup PermissionPages => Made(w)
          /\ v.page = "recovery_codes" /\ v.from = "signin_recovery_code" => Made(w)
          /\ v.page \in ConfirmPages /\ v.shown => Has(w.broker, v.account.uid) \/ ~v.account.keys
          /\ v.page \in SettingsPages /\ v.complete = "end" /\ v.account.session # 0 => Reported(w, v.account)
          /\ v.done => Reported(w, v.account)

\* What a screen that is shown says of the signed-in account and of the cookie.
ViewUser(w, v) ==
    /\ Syncs(w) /\ v.page = "recovery_codes" /\ v.from = "signin_recovery_code" /\ v.shown
           => Verified(w, w.user.signedIn)
    /\ w.user.tooYoung /\ v.page \in {"signup", "signup_password"} => ~v.shown

ViewOK(w, v) == ViewShape(v) /\ ViewHas(w, v) /\ ViewVerified(w, v) /\ ViewKeys(w, v) /\ ViewUser(w, v)

(***************************************************************************)
(* The calls.                                                              *)
(***************************************************************************)
CallShape(c) ==
    /\ DOMAIN c = {"op", "step", "account", "password", "unblock", "age", "page", "from", "complete", "redirectTo", "here"}
    /\ c.op \in Typed \cup {"none", "code", "finish"} /\ c.step \in {"none", "ask", "request", "failed"}
    /\ c.here \in BOOLEAN /\ c.redirectTo \in Redirects
    /\ c.step = "ask" => c.op \in Asking
    /\ c.op \in {"signIn", "signUp", "cached"} => c.complete \in Ends
    /\ c.op = "cached" => c.page \in {"signin", "signin_password"}

CallHas(w, c) ==
    /\ Good(w, c.account)
    /\ c.op \in Typed => c.account.email # "none"
    /\ "force_auth" \in {c.page, c.from} => w.relier.email # "none"
    /\ c.op = "cached" => ~w.scenario.keys
    /\ c.op = "finish" => ~Syncs(w)

CallKeys(w, c) ==
    /\ c.account.keys => Agreed(w, c.account.uid)
    /\ c.op \in Asking \cup {"unblock"} /\ c.step = "request" => Agreed(w, UidOf(c.account.email))
    /\ Syncs(w) /\ c.op = "code" => Kept(w, c.account) /\ Made(w)
    /\ Syncs(w) /\ c.op = "signIn" /\ c.step = "request" => c.account.session = 0

CallOK(w, c) == CallShape(c) /\ CallHas(w, c) /\ CallKeys(w, c)

\* A call of the screen that is shown.
HereOK(v, c) == c.here => c.page = v.page /\ ~v.done /\ c.page \notin SettingsPages

CallsOK(w, v, cs) == DOMAIN cs = Slots /\ \A s \in Slots : CallOK(w, cs[s]) /\ HereOK(v, cs[s])

RestOK == prefill \in Emails \cup {"none"} /\ submits \in 0 .. MaxSubmits

IInv == WorldOK(World) /\ ViewOK(World, view) /\ CallsOK(World, view, calls) /\ RestOK

-----------------------------------------------------------------------------
(***************************************************************************)
(* Brokers: what is sent stays sent.                                       *)
(***************************************************************************)
\* The same broker, which has sent what it had, or more.
Follows(c, b) == \A uid : Has(b, uid) => Has(c, uid)

AccountIsSent(a) == a.email \in Emails \cup {"none"} /\ a.uid \in Uids \cup {"none"} /\ a.keys \in BOOLEAN
                    /\ a.verified \in BOOLEAN

LEMMA AccountFields ==
    ASSUME NEW a, AccountOK(a)
    PROVE  /\ AccountIsSent(a) /\ a.session \in Nat
           /\ DOMAIN a = {"email", "uid", "session", "sync", "keys", "verified", "method", "reason", "orig"}
  BY DEF AccountOK, AccountType, AccountIsSent

LEMMA SendOK ==
    ASSUME NEW w, NEW b, BrokerShape(w, b), LinksAgreed(w, b), NEW command \in Commands, NEW a, AccountIsSent(a),
           b.told # "none" => Has(b, b.told) \/ (command = "LOGIN" /\ a.keys /\ a.uid = b.told),
           command = "LOGIN" => Agreed(w, a.uid) /\ b.context \in ChannelContexts
    PROVE  LET c == Send(b, command, a)
           IN  BrokerOK(w, c) /\ Follows(c, b) /\ (command = "LOGIN" /\ a.keys => Has(c, a.uid))
<1> DEFINE m == [command |-> command, email |-> a.email, uid |-> a.uid,
                 keys |-> a.keys, verified |-> a.verified, canLink |-> b.canLink # "none"]
           c == Send(b, command, a)
<1>1. m \in Sent BY DEF AccountIsSent, Sent
<1>2. /\ c.sent = Append(b.sent, m) /\ c.context = b.context /\ c.behaviors = b.behaviors /\ c.told = b.told
      /\ c.caps = b.caps /\ c.canLink = b.canLink
      /\ DOMAIN c = {"context", "caps", "behaviors", "canLink", "told", "sent"}
  BY DEF Send, BrokerShape
<1>3. m.command = command /\ m.uid = a.uid /\ m.keys = a.keys /\ (m.canLink => b.canLink # "none") OBVIOUS
<1>4. b.sent \in Seq(Sent) BY DEF BrokerShape
<1> HIDE DEF m, c
<1>5. /\ c.sent \in Seq(Sent) /\ c.sent[Len(b.sent) + 1] = m /\ Len(b.sent) + 1 \in DOMAIN c.sent
      /\ \A i \in DOMAIN b.sent : i \in DOMAIN c.sent /\ c.sent[i] = b.sent[i]
      /\ \A i \in DOMAIN c.sent : i \in DOMAIN b.sent \/ c.sent[i] = m
  BY <1>1, <1>2, <1>4
<1>6. Follows(c, b) BY <1>5 DEF Follows, Has
<1>7. command = "LOGIN" /\ a.keys => Has(c, a.uid) BY <1>3, <1>5 DEF Has
<1>8. BrokerShape(w, c) BY <1>2, <1>3, <1>5 DEF BrokerShape
<1>9. LinksAgreed(w, c)
  <2> SUFFICES ASSUME Linking(w)
               PROVE  /\ c.canLink # "none" => c.canLink \in Emails /\ <<c.canLink, "agreed">> \in w.asked
                      /\ \A i \in DOMAIN c.sent :
                           c.sent[i].command = "LOGIN" /\ c.sent[i].canLink => Agreed(w, c.sent[i].uid) /\ AgreedOnce(w)
    BY DEF LinksAgreed
  <2>1. c.canLink # "none" => c.canLink \in Emails /\ <<c.canLink, "agreed">> \in w.asked
    BY <1>2 DEF LinksAgreed
  <2>2. ASSUME NEW i \in DOMAIN c.sent, c.sent[i].command = "LOGIN", c.sent[i].canLink
        PROVE  Agreed(w, c.sent[i].uid) /\ AgreedOnce(w)
    <3>1. CASE i \in DOMAIN b.sent BY <1>5, <2>2, <3>1 DEF LinksAgreed
    <3>2. CASE c.sent[i] = m BY <1>2, <1>3, <2>1, <2>2, <3>2 DEF AgreedOnce
    <3> QED BY <1>5, <3>1, <3>2
  <2> QED BY <2>1, <2>2
<1>10. c.told # "none" => Has(c, c.told) BY <1>2, <1>6, <1>7 DEF Follows
<1>11. BrokerOK(w, c) BY <1>8, <1>9, <1>10 DEF BrokerOK
<1> QED BY <1>6, <1>7, <1>11 DEF c

LEMMA NotifyIframeOK ==
    ASSUME NEW w, NEW b, BrokerOK(w, b), NEW command \in Commands \ {"LOGIN"}, NEW a, AccountIsSent(a)
    PROVE  BrokerOK(w, NotifyIframe(b, command, a)) /\ Follows(NotifyIframe(b, command, a), b)
  BY SendOK DEF NotifyIframe, Follows, BrokerOK

LEMMA NotifyRelierOK ==
    ASSUME NEW w, NEW b, BrokerOK(w, b), NEW a, AccountIsSent(a), a.keys => Agreed(w, a.uid)
    PROVE  LET c == NotifyRelierOfLogin(b, a)
           IN  /\ BrokerOK(w, c) /\ Follows(c, b)
               /\ Syncs(w) /\ a.keys /\ a.session # 0 /\ a.uid # "none" => Has(c, a.uid)
<1>1. CASE b.context \in ChannelContexts /\ HasRequiredLoginFields(a) /\ a.uid # b.told
  <2>1. a.keys BY <1>1 DEF HasRequiredLoginFields
  <2>2. "LOGIN" \in Commands BY DEF Commands
  <2> DEFINE d == [b EXCEPT !.told = a.uid]
  <2>3. /\ d.sent = b.sent /\ d.context = b.context /\ d.told = a.uid /\ d.caps = b.caps /\ d.behaviors = b.behaviors
        /\ d.canLink = b.canLink /\ DOMAIN d = DOMAIN b
    BY DEF BrokerOK, BrokerShape
  <2>4. NotifyRelierOfLogin(b, a) = Send(d, "LOGIN", a) BY <1>1 DEF NotifyRelierOfLogin
  <2> HIDE DEF d
  <2>5. BrokerShape(w, d) BY <2>3 DEF BrokerOK, BrokerShape
  <2>6. LinksAgreed(w, d) BY <2>3 DEF BrokerOK, LinksAgreed
  <2>7. LET c == Send(d, "LOGIN", a)
        IN  BrokerOK(w, c) /\ Follows(c, d) /\ Has(c, a.uid)
    BY <1>1, <2>1, <2>2, <2>3, <2>5, <2>6, SendOK
  <2>8. Follows(Send(d, "LOGIN", a), b) BY <2>3, <2>7 DEF Follows, Has
  <2> QED BY <2>4, <2>7, <2>8
<1>2. CASE ~(b.context \in ChannelContexts /\ HasRequiredLoginFields(a) /\ a.uid # b.told)
  <2>1. Syncs(w) /\ a.keys /\ a.session # 0 /\ a.uid # "none" => Has(b, a.uid)
    BY <1>2 DEF HasRequiredLoginFields, BrokerOK, BrokerShape, Syncs
  <2> QED BY <1>2, <2>1 DEF NotifyRelierOfLogin, Follows
<1> QED BY <1>1, <1>2

(***************************************************************************)
(* Behaviors: where those of the tables end.                               *)
(***************************************************************************)
LEMMA EndsStep ==
    ASSUME NEW e, NEW caps, NEW who, who.redirectTo \in Redirects
    PROVE  /\ Ends0(e) => Call1(e, caps, who) = e
           /\ Ends1(e) => Ends0(Call1(e, caps, who))
           /\ Ends2(e) => Ends1(Call1(e, caps, who))
<1>0. /\ Halt.type = "halt" /\ \A page : Navigate(page).type = "navigate"
      /\ \A d : ConnectAnotherDevice(d).type = "connect-another-device" /\ ConnectAnotherDevice(d).default = d
      /\ \A d : HaltIfBrowserTransitions(d).type = "halt-if-browser-transitions" /\ HaltIfBrowserTransitions(d).default = d
  BY DEF Halt, Navigate, ConnectAnotherDevice, HaltIfBrowserTransitions
<1>1. Ends0(e) => Call1(e, caps, who) = e BY <1>0 DEF Ends0, Call1
<1>2. \A d : /\ Call1(ConnectAnotherDevice(d), caps, who) \in {d, Navigate("connect_another_device")}
             /\ Call1(HaltIfBrowserTransitions(d), caps, who) \in {d, Halt}
  BY <1>0 DEF Call1
<1>3. Ends0(Halt) /\ Ends0(Navigate("connect_another_device")) BY DEF Ends0, DonePages
<1>4. Ends1(e) => Ends0(Call1(e, caps, who)) BY <1>1, <1>2, <1>3 DEF Ends1
<1>5. Ends2(e) => Ends1(Call1(e, caps, who)) BY <1>2, <1>3, <1>4 DEF Ends2, Ends1
<1> QED BY <1>1, <1>4, <1>5

\* A behavior of the tables leads to one of the screens a flow ends at.
LEMMA EndsOK ==
    ASSUME NEW e, Ends2(e), NEW caps, NEW who, who.redirectTo \in Redirects, NEW page
    PROVE  Destination(e, caps, who, page) \in DonePages
<1> DEFINE f == Call1(e, caps, who)
           g == Call1(f, caps, who)
<1>1. Ends1(f) BY EndsStep
<1>2. Ends0(g) BY <1>1, EndsStep
<1>3. InvokeBehavior(e, caps, who) = g BY <1>2, EndsStep DEF InvokeBehavior
<1> HIDE DEF f, g
<1>4. Halt.type = "halt" /\ \A x : Navigate(x).type = "navigate" /\ Navigate(x).to = x BY DEF Halt, Navigate
<1>5. (g.type = "navigate" /\ g.to \in DonePages) \/ g.type = "halt" BY <1>2, <1>4 DEF Ends0
<1>6. "halted" \in DonePages BY DEF DonePages
<1> QED BY <1>3, <1>5, <1>6 DEF Destination

LEMMA NavigateOK ==
    ASSUME NEW to, NEW caps, NEW who, NEW page
    PROVE  Destination(Navigate(to), caps, who, page) = to
<1>1. Navigate(to).type = "navigate" /\ Navigate(to).to = to BY DEF Navigate
<1>2. Call1(Navigate(to), caps, who) = Navigate(to) BY <1>1 DEF Call1
<1> QED BY <1>1, <1>2 DEF Destination, InvokeBehavior

\* The behaviors that the methods of a sign in answer with, in any context.
LEMMA TableOK ==
    ASSUME NEW c \in Contexts
    PROVE  LET t == DefaultBehaviors(c)
           IN  /\ Ends2(t["afterSignIn"]) /\ Ends1(t["afterForceAuth"])
               /\ Ends1(t["afterSignInConfirmationPoll"]) /\ Ends1(t["afterSignUpConfirmationPoll"])
               /\ t["afterCompleteSignInWithCode"] = Navigate("settings")
               /\ t["afterSignUp"] = Navigate("confirm") /\ t["afterSignUpRequireTOTP"] = Navigate("signin")
<1> DEFINE Fine(t) ==
               /\ Ends2(t["afterSignIn"]) /\ Ends1(t["afterForceAuth"])
               /\ Ends1(t["afterSignInConfirmationPoll"]) /\ Ends1(t["afterSignUpConfirmationPoll"])
               /\ t["afterCompleteSignInWithCode"] = Navigate("settings")
               /\ t["afterSignUp"] = Navigate("confirm") /\ t["afterSignUpRequireTOTP"] = Navigate("signin")
           N == Navigate("signin_confirmed")
           M == Navigate("signup_confirmed")
           S == Navigate("settings")
           C == ConnectAnotherDevice(N)
<1>1. Ends0(N) /\ Ends0(M) /\ Ends0(S) /\ Ends0(Halt) BY DEF Ends0, DonePages, SettingsPages
<1>2. Ends1(C) /\ Ends1(HaltIfBrowserTransitions(N)) /\ Ends1(HaltIfBrowserTransitions(M)) BY <1>1 DEF Ends1
<1>3. Ends2(HaltIfBrowserTransitions(C)) BY <1>2 DEF Ends2
<1>4. /\ BaseBehaviors.afterSignIn = N /\ BaseBehaviors.afterForceAuth = N
      /\ BaseBehaviors.afterSignInConfirmationPoll = N /\ BaseBehaviors.afterSignUpConfirmationPoll = M
      /\ BaseBehaviors.afterCompleteSignInWithCode = S
      /\ BaseBehaviors.afterSignUp = Navigate("confirm") /\ BaseBehaviors.afterSignUpRequireTOTP = Navigate("signin")
  BY DEF BaseBehaviors
<1>5. /\ SyncBehaviors.afterSignIn = C /\ SyncBehaviors.afterForceAuth = N
      /\ SyncBehaviors.afterSignInConfirmationPoll = N /\ SyncBehaviors.afterSignUpConfirmationPoll = M
      /\ SyncBehaviors.afterCompleteSignInWithCode = S
      /\ SyncBehaviors.afterSignUp = Navigate("confirm") /\ SyncBehaviors.afterSignUpRequireTOTP = Navigate("signin")
  BY DEF SyncBehaviors, BaseBehaviors
<1>6. /\ DesktopBehaviors.afterSignIn = HaltIfBrowserTransitions(C)
      /\ DesktopBehaviors.afterForceAuth = HaltIfBrowserTransitions(N)
      /\ DesktopBehaviors.afterSignInConfirmationPoll = HaltIfBrowserTransitions(N)
      /\ DesktopBehaviors.afterSignUpConfirmationPoll = HaltIfBrowserTransitions(M)
      /\ DesktopBehaviors.afterCompleteSignInWithCode = S
      /\ DesktopBehaviors.afterSignUp = Navigate("confirm")
      /\ DesktopBehaviors.afterSignUpRequireTOTP = Navigate("signin")
  BY DEF DesktopBehaviors, SyncBehaviors, BaseBehaviors
<1>7. /\ IosBehaviors.afterSignIn = Halt /\ IosBehaviors.afterForceAuth = Halt
      /\ IosBehaviors.afterSignInConfirmationPoll = N /\ IosBehaviors.afterSignUpConfirmationPoll = M
      /\ IosBehaviors.afterCompleteSignInWithCode = S
      /\ IosBehaviors.afterSignUp = Navigate("confirm") /\ IosBehaviors.afterSignUpRequireTOTP = Navigate("signin")
  BY DEF IosBehaviors, SyncBehaviors, BaseBehaviors
<1>8. /\ WebBehaviors.afterSignIn = S /\ WebBehaviors.afterForceAuth = S
      /\ WebBehaviors.afterSignInConfirmationPoll = S /\ WebBehaviors.afterSignUpConfirmationPoll = S
      /\ WebBehaviors.afterCompleteSignInWithCode = S
      /\ WebBehaviors.afterSignUp = Navigate("confirm") /\ WebBehaviors.afterSignUpRequireTOTP = Navigate("signin")
  BY DEF WebBehaviors, BaseBehaviors
<1>9. /\ OAuthBehaviors.afterSignIn = Halt /\ OAuthBehaviors.afterForceAuth = Halt
      /\ OAuthBehaviors.afterSignInConfirmationPoll = Halt /\ OAuthBehaviors.afterSignUpConfirmationPoll = M
      /\ OAuthBehaviors.afterCompleteSignInWithCode = S
      /\ OAuthBehaviors.afterSignUp = Navigate("confirm") /\ OAuthBehaviors.afterSignUpRequireTOTP = Navigate("signin")
  BY DEF OAuthBehaviors, BaseBehaviors
<1> HIDE DEF N, M, S, C
<1>10. \A e : (Ends0(e) => Ends1(e)) /\ (Ends1(e) => Ends2(e)) BY DEF Ends1, Ends2
<1>11. Fine(SyncBehaviors) BY <1>1, <1>2, <1>5, <1>10 DEF S
<1>12. Fine(DesktopBehaviors) BY <1>1, <1>2, <1>3, <1>6, <1>10 DEF S
<1>13. Fine(IosBehaviors) BY <1>1, <1>7, <1>10 DEF S
<1>14. Fine(WebBehaviors) BY <1>1, <1>8, <1>10 DEF S
<1>15. Fine(OAuthBehaviors) BY <1>1, <1>9, <1>10 DEF S
<1>16. DefaultBehaviors(c) \in {SyncBehaviors, DesktopBehaviors, IosBehaviors, WebBehaviors, OAuthBehaviors}
  BY DEF DefaultBehaviors
<1> HIDE DEF Fine
<1>17. Fine(DefaultBehaviors(c)) BY <1>11, <1>12, <1>13, <1>14, <1>15, <1>16
<1> QED BY <1>17 DEF Fine

-----------------------------------------------------------------------------
(***************************************************************************)
(* A later world: nothing that was said is taken back.                     *)
(***************************************************************************)
Onward(w, x) ==
    /\ x.scenario = w.scenario /\ w.asked \subseteq x.asked
    /\ w.relier.email # "none" => x.relier.email # "none"
    /\ Follows(x.broker, w.broker)
    /\ \A i \in DOMAIN w.server.sessions :
          i \in DOMAIN x.server.sessions /\ x.server.sessions[i].uid = w.server.sessions[i].uid
    /\ Made(w) => Made(x)

\* No session is less than it was.
StayVerified(w, x) ==
    \A i \in DOMAIN w.server.sessions : w.server.sessions[i].verified => x.server.sessions[i].verified

LEMMA AccountStays ==
    ASSUME NEW w, NEW x, Onward(w, x), NEW a
    PROVE  /\ Good(w, a) => Good(x, a)
           /\ Syncs(x) = Syncs(w) /\ Linking(x) = Linking(w)
           /\ Agreed(w, a.uid) => Agreed(x, a.uid)
           /\ Agreed(w, UidOf(a.email)) => Agreed(x, UidOf(a.email))
           /\ Kept(w, a) => Kept(x, a)
           /\ Reported(w, a) => Reported(x, a)
           /\ StayVerified(w, x) /\ Good(w, a) /\ Verified(w, a) => Verified(x, a)
<1>1. Good(w, a) => Good(x, a) BY DEF Onward, Good, Holds
<1>2. Syncs(x) = Syncs(w) /\ Linking(x) = Linking(w) BY DEF Onward, Syncs, Linking
<1>3. \A uid : Agreed(w, uid) => Agreed(x, uid) BY <1>2 DEF Onward, Agreed
<1>4. Kept(w, a) => Kept(x, a) BY DEF Onward, Kept, Carried, Follows
<1>5. Reported(w, a) => Reported(x, a) BY DEF Onward, Reported, Follows
<1>6. StayVerified(w, x) /\ Good(w, a) /\ Verified(w, a) => Verified(x, a)
  BY DEF StayVerified, Good, Holds, Verified
<1> QED BY <1>1, <1>2, <1>3, <1>4, <1>5, <1>6

LEMMA CallStays ==
    ASSUME NEW w, NEW x, Onward(w, x), NEW c, CallOK(w, c)
    PROVE  CallOK(x, c)
<1>1. CallHas(x, c) BY AccountStays DEF CallOK, CallHas, Onward
<1>2. CallKeys(x, c) BY AccountStays DEF CallOK, CallKeys, Onward
<1> QED BY <1>1, <1>2 DEF CallOK

LEMMA ViewStays ==
    ASSUME NEW w, NEW x, Onward(w, x), StayVerified(w, x), NEW v, ViewOK(w, v), ViewUser(x, v)
    PROVE  ViewOK(x, v)
<1>1. ViewHas(x, v) BY AccountStays DEF ViewOK, ViewHas, Onward
<1>2. ViewVerified(x, v) BY AccountStays DEF ViewOK, ViewVerified, ViewHas
<1>3. ViewKeys(x, v) BY AccountStays DEF ViewOK, ViewKeys, Onward, Follows
<1> QED BY <1>1, <1>2, <1>3 DEF ViewOK

LEMMA UserStays ==
    ASSUME NEW w, NEW x, Onward(w, x), NEW u, UserOK(w, u)
    PROVE  UserOK(x, u)
  BY AccountStays DEF UserOK

LEMMA BrokerStays ==
    ASSUME NEW w, NEW x, x.scenario = w.scenario, w.asked \subseteq x.asked, NEW b, BrokerOK(w, b)
    PROVE  BrokerOK(x, b)
<1>1. (\A uid : Agreed(w, uid) => Agreed(x, uid)) /\ (AgreedOnce(w) => AgreedOnce(x))
  BY DEF Agreed, AgreedOnce, Linking, Syncs
<1> QED BY <1>1 DEF BrokerOK, BrokerShape, LinksAgreed, Linking, Syncs

LEMMA OnwardSame ==
    ASSUME NEW w, NEW x, x.scenario = w.scenario, x.server = w.server, x.relier = w.relier, x.broker = w.broker,
           x.asked = w.asked
    PROVE  Onward(w, x) /\ StayVerified(w, x)
  BY DEF Onward, StayVerified, Follows, Made

LEMMA OnwardAgain ==
    ASSUME NEW w, NEW x, NEW y, Onward(w, x), Onward(x, y)
    PROVE  Onward(w, y) /\ (StayVerified(w, x) /\ StayVerified(x, y) => StayVerified(w, y))
  BY DEF Onward, StayVerified, Follows

(***************************************************************************)
(* Calls that end, and those whose screen is left.                         *)
(***************************************************************************)
LEMMA NoCallOK == ASSUME NEW w PROVE CallOK(w, NoCall) /\ ~NoCall.here
<1>1. AccountOK(NoAccount) /\ NoAccount.session = 0 /\ ~NoAccount.keys
  BY DEF NoAccount, InitAccount, AccountOK, AccountType, Emails, Uids
<1> DEFINE c == NoCall
<1>2. /\ DOMAIN c = {"op", "step", "account", "password", "unblock", "age", "page", "from", "complete", "redirectTo", "here"}
      /\ c.op = "none" /\ c.step = "none" /\ c.account = NoAccount /\ c.page = "none" /\ c.from = "none"
      /\ c.redirectTo = "none" /\ c.here = FALSE
  BY DEF NoCall
<1> HIDE DEF c
<1>3. CallShape(c) BY <1>2 DEF CallShape, Redirects
<1>4. CallHas(w, c) BY <1>1, <1>2 DEF CallHas, Good, Holds, Typed
<1>5. CallKeys(w, c) BY <1>1, <1>2 DEF CallKeys, Asking
<1> QED BY <1>2, <1>3, <1>4, <1>5 DEF CallOK, c

LEMMA OverOK ==
    ASSUME NEW w, NEW v, CallsOK(w, v, calls), NEW s \in Slots
    PROVE  CallsOK(w, v, Over(s))
<1>1. CallOK(w, NoCall) /\ HereOK(v, NoCall) BY NoCallOK DEF HereOK
<1> QED BY <1>1 DEF Over, CallsOK

LEMMA NextCallOK ==
    ASSUME NEW w, NEW v, CallsOK(w, v, calls), NEW s \in Slots, NEW c, CallOK(w, c), HereOK(v, c)
    PROVE  CallsOK(w, v, [calls EXCEPT ![s] = c])
  BY DEF CallsOK

LEMMA CallsStay ==
    ASSUME NEW w, NEW x, Onward(w, x), NEW v, NEW u, u.page = v.page, u.done = v.done, NEW cs, CallsOK(w, v, cs)
    PROVE  CallsOK(x, u, cs)
  BY CallStays DEF CallsOK, HereOK

LEMMA LeftOK ==
    ASSUME NEW w, NEW x, Onward(w, x), NEW v, NEW u, NEW cs, CallsOK(w, v, cs)
    PROVE  CallsOK(x, u, Left(cs))
<1>1. DOMAIN Left(cs) = Slots BY DEF Left
<1>2. ASSUME NEW s \in Slots PROVE CallOK(x, Left(cs)[s]) /\ HereOK(u, Left(cs)[s])
  <2> DEFINE c == cs[s]
             d == [c EXCEPT !.here = FALSE]
  <2>1. CallOK(x, c) BY CallStays DEF CallsOK
  <2>2. Left(cs)[s] = d BY DEF Left
  <2>3. /\ DOMAIN d = DOMAIN c /\ d.op = c.op /\ d.step = c.step /\ d.account = c.account /\ d.page = c.page
        /\ d.from = c.from /\ d.complete = c.complete /\ d.redirectTo = c.redirectTo /\ d.here = FALSE
    BY <2>1 DEF CallOK, CallShape
  <2> HIDE DEF c, d
  <2>4. CallOK(x, d) BY <2>1, <2>3 DEF CallOK, CallShape, CallHas, CallKeys
  <2> QED BY <2>2, <2>3, <2>4 DEF HereOK
<1> QED BY <1>1, <1>2 DEF CallsOK

-----------------------------------------------------------------------------
(***************************************************************************)
(* Screens that are gone to.                                               *)
(***************************************************************************)
LEMMA NewViewFields ==
    ASSUME NEW page, NEW a
    PROVE  LET v == NewView(page, a)
           IN  /\ ViewShape(v) /\ v.page = page /\ v.account = a /\ ~v.shown /\ ~v.done
               /\ v.from = "none" /\ v.complete = "none" /\ v.redirectTo = "none"
  BY DEF NewView, ViewShape, Redirects

LEMMA InitAccountOK ==
    ASSUME NEW w, NEW email \in Emails \cup {"none"}
    PROVE  LET a == InitAccount(email)
           IN  Good(w, a) /\ a.email = email /\ a.session = 0 /\ ~a.keys /\ a.uid = "none"
  BY DEF InitAccount, Good, Holds, AccountOK, AccountType, Emails, Uids

LEMMA NoAccountOK ==
    ASSUME NEW w
    PROVE  Good(w, NoAccount) /\ NoAccount.email = "none" /\ NoAccount.session = 0 /\ ~NoAccount.keys
           /\ NoAccount.uid = "none"
  BY InitAccountOK DEF NoAccount

LEMMA RouteKeeps ==
    ASSUME NEW page
    PROVE  RouteOf(page) = page \/ (page \in {"signin", "signup", "index"} /\
                                    RouteOf(page) \in {"signin_password", "signup_password", "oauth_index"})
  BY DEF RouteOf

LEMMA GoOK ==
    ASSUME NEW w, NEW v, ViewOK(w, v), ~v.shown, NEW cs, Go(v, cs)
    PROVE  ViewOK(w, view') /\ calls' = Left(cs) /\ ~view'.shown
<1> DEFINE u == [v EXCEPT !.page = RouteOf(@)]
<1>1. view' = u /\ calls' = Left(cs) BY DEF Go
<1>2. /\ DOMAIN u = DOMAIN v /\ u.page = RouteOf(v.page) /\ u.account = v.account /\ u.shown = v.shown /\ u.ask = v.ask
      /\ u.done = v.done /\ u.redirectTo = v.redirectTo /\ u.from = v.from /\ u.complete = v.complete
  BY DEF ViewOK, ViewShape
<1> HIDE DEF u
<1>3. ViewShape(u) BY <1>2 DEF ViewOK, ViewShape
<1>4. CASE RouteOf(v.page) = v.page
  BY <1>1, <1>2, <1>3, <1>4 DEF ViewOK, ViewHas, ViewVerified, ViewKeys, ViewUser
<1>5. CASE v.page \in {"signin", "signup", "index"} /\
           RouteOf(v.page) \in {"signin_password", "signup_password", "oauth_index"}
  <2>1. ~v.done BY <1>5 DEF ViewOK, ViewVerified, DonePages, SettingsPages
  <2>2. ViewHas(w, u) /\ ViewVerified(w, u)
    BY <1>2, <1>5, <2>1 DEF ViewOK, ViewHas, ViewVerified, Waiting, ConfirmPages, PermissionPages, SettingsPages
  <2>3. ViewKeys(w, u) /\ ViewUser(w, u)
    BY <1>2, <1>5, <2>1 DEF ViewOK, ViewKeys, ViewUser, ConfirmPages, PermissionPages, CodePages, SettingsPages
  <2> QED BY <1>1, <1>2, <1>3, <2>2, <2>3 DEF ViewOK
<1> QED BY <1>4, <1>5, RouteKeeps

\* A screen that asks for nothing of the account.
LEMMA EasyView ==
    ASSUME NEW w, NEW v, ViewShape(v), ~v.shown, ~v.done, Good(w, v.account),
           v.account.keys => Agreed(w, v.account.uid),
           v.page \notin Waiting \cup CodePages,
           v.page = "signin_unblock" => v.account.email # "none",
           v.page \in SettingsPages => v.complete # "end",
           v.complete = "finishOAuthFlow" => ~Syncs(w) /\ v.page \notin SettingsPages,
           "force_auth" \in {v.page, v.from} => w.relier.email # "none",
           v.page \in SettingsPages /\ v.from = "signin_recovery_code" /\ Syncs(w) => Made(w)
    PROVE  ViewOK(w, v)
<1>1. ViewHas(w, v) BY DEF ViewHas, Waiting, PermissionPages
<1>2. ViewVerified(w, v) BY DEF ViewVerified, Waiting
<1>3. ViewKeys(w, v) BY DEF ViewKeys, Waiting, ConfirmPages, PermissionPages, SettingsPages
<1>4. ViewUser(w, v) BY DEF ViewUser
<1> QED BY <1>1, <1>2, <1>3, <1>4 DEF ViewOK

-----------------------------------------------------------------------------
(***************************************************************************)
(* The broker at the end of a flow.                                        *)
(***************************************************************************)
BrokerMethods == Ends \cup Polls \cup {"afterSignUp", "afterCompleteSignInWithCode"}

\* The account is not verified: the confirmation is next.
Unconfirmed(name, a) == name = "afterSignUp" /\ ~a.verified

LEMMA GetOK ==
    ASSUME NEW w, NEW b, BrokerOK(w, b)
    PROVE  /\ Ends2(GetBehavior(b, "afterSignIn")) /\ Ends2(GetBehavior(b, "afterForceAuth"))
           /\ Ends1(GetBehavior(b, "afterSignInConfirmationPoll")) /\ Ends1(GetBehavior(b, "afterSignUpConfirmationPoll"))
           /\ GetBehavior(b, "afterCompleteSignInWithCode") = Navigate("settings")
           /\ GetBehavior(b, "afterSignUp") = Navigate("confirm")
           /\ GetBehavior(b, "afterSignUpRequireTOTP") = Navigate("signin")
<1>1. \A e : (Ends0(e) => Ends1(e)) /\ (Ends1(e) => Ends2(e)) BY DEF Ends1, Ends2
<1> DEFINE t == DefaultBehaviors(b.context)
<1>2. /\ Ends2(t["afterSignIn"]) /\ Ends1(t["afterForceAuth"])
      /\ Ends1(t["afterSignInConfirmationPoll"]) /\ Ends1(t["afterSignUpConfirmationPoll"])
      /\ t["afterCompleteSignInWithCode"] = Navigate("settings")
      /\ t["afterSignUp"] = Navigate("confirm") /\ t["afterSignUpRequireTOTP"] = Navigate("signin")
  BY TableOK DEF BrokerOK, BrokerShape
<1> HIDE DEF t
<1>3. \A name : GetBehavior(b, name) = IF name \in DOMAIN b.behaviors THEN b.behaviors[name] ELSE t[name]
  BY DEF GetBehavior, t
<1>4. DOMAIN b.behaviors \subseteq Ends \cup {"beforeSignUpConfirmationPoll"}
      /\ \A name \in DOMAIN b.behaviors \cap Ends : Ends0(b.behaviors[name])
  BY DEF BrokerOK, BrokerShape
<1> QED BY <1>1, <1>2, <1>3, <1>4 DEF Ends

LEMMA TakenOverOK == ASSUME NEW b, NEW e, Ends1(e) PROVE Ends2(TakenOver(b, e))
  BY DEF TakenOver, Ends2

\* What is invoked tells the browser of an account with its keys, unless the
\* screen of the confirmation did.
LEMMA InvokedOK ==
    ASSUME NEW w, NEW b, BrokerOK(w, b), NEW name \in BrokerMethods, NEW a, AccountOK(a), a.keys => Agreed(w, a.uid)
    PROVE  LET r == Invoke(b, name, a)
           IN  /\ BrokerOK(w, r[1]) /\ Follows(r[1], b)
               /\ Unconfirmed(name, a) => r[2] = Navigate("confirm")
               /\ ~Unconfirmed(name, a) => Ends2(r[2])
               /\ name = "afterCompleteSignInWithCode" /\ ~Syncs(w) => r[2] = Navigate("settings")
               /\ ~Unconfirmed(name, a) /\ name # "afterSignInConfirmationPoll"
                      /\ Syncs(w) /\ a.keys /\ a.session # 0 /\ a.uid # "none" => Has(r[1], a.uid)
<1> DEFINE r == Invoke(b, name, a)
           Tells(c) == Syncs(w) /\ a.keys /\ a.session # 0 /\ a.uid # "none" => Has(c, a.uid)
<1>0. AccountIsSent(a) BY AccountFields
<1>1. \A e : Ends1(e) => Ends2(e) BY DEF Ends2
<1>2. {"iframe_login", "verification_complete"} \subseteq Commands \ {"LOGIN"} BY DEF Commands
<1>3. \A c \in Commands \ {"LOGIN"} : BrokerOK(w, NotifyIframe(b, c, a)) /\ Follows(NotifyIframe(b, c, a), b)
  BY <1>0, NotifyIframeOK
<1>4. \A d : BrokerOK(w, d) => LET c == NotifyRelierOfLogin(d, a) IN BrokerOK(w, c) /\ Follows(c, d) /\ Tells(c)
  BY <1>0, NotifyRelierOK
<1>5. \A c, d : Follows(c, d) /\ Follows(d, b) => Follows(c, b) BY DEF Follows
<1>6. CASE name = "afterSignIn"
  <2>1. r = AfterSignIn(b, a) BY <1>6 DEF Invoke
  <2>2. r[2] = GetBehavior(b, "afterSignIn") /\ r[1] = NotifyRelierOfLogin(NotifyIframe(b, "iframe_login", a), a)
    BY <2>1 DEF AfterSignIn
  <2> QED BY <1>2, <1>3, <1>4, <1>5, <1>6, <2>2, GetOK DEF Unconfirmed
<1>7. CASE name = "afterForceAuth"
  <2>1. r = AfterForceAuth(b, a) BY <1>7 DEF Invoke
  <2>2. r[2] = GetBehavior(b, "afterForceAuth") /\ r[1] = NotifyRelierOfLogin(b, a) BY <2>1 DEF AfterForceAuth
  <2> QED BY <1>4, <1>7, <2>2, GetOK DEF Unconfirmed
<1>8. LET c == AfterSignUpConfirmationPoll(b, a)
      IN  BrokerOK(w, c[1]) /\ Follows(c[1], b) /\ Tells(c[1]) /\ Ends2(c[2])
  <2> DEFINE c == AfterSignUpConfirmationPoll(b, a)
  <2>1. /\ c[1] = NotifyRelierOfLogin(NotifyIframe(b, "verification_complete", a), a)
        /\ c[2] = TakenOver(b, GetBehavior(b, "afterSignUpConfirmationPoll"))
    BY DEF AfterSignUpConfirmationPoll
  <2>2. Ends2(c[2]) BY <2>1, GetOK, TakenOverOK
  <2> QED BY <1>2, <1>3, <1>4, <1>5, <2>1, <2>2
<1>9. CASE name = "afterSignUp"
  <2>1. r = IF a.verified THEN AfterSignUpConfirmationPoll(b, a) ELSE <<b, GetBehavior(b, "afterSignUp")>>
    BY <1>9 DEF Invoke, AfterSignUp
  <2>2. CASE a.verified BY <1>8, <1>9, <2>1, <2>2 DEF Unconfirmed
  <2>3. CASE ~a.verified
    <3>1. r[1] = b /\ r[2] = Navigate("confirm") BY <2>1, <2>3, GetOK
    <3> QED BY <1>9, <2>3, <3>1 DEF Unconfirmed, Follows
  <2> QED BY <2>2, <2>3
<1>10. CASE name = "afterSignUpConfirmationPoll"
  <2>1. r = AfterSignUpConfirmationPoll(b, a) BY <1>10 DEF Invoke
  <2> QED BY <1>8, <1>10, <2>1 DEF Unconfirmed
<1>11. CASE name = "afterSignInConfirmationPoll"
  <2>1. r = AfterSignInConfirmationPoll(b, a) BY <1>11 DEF Invoke
  <2>2. r[1] = NotifyIframe(b, "verification_complete", a)
        /\ r[2] = TakenOver(b, GetBehavior(b, "afterSignInConfirmationPoll"))
    BY <2>1 DEF AfterSignInConfirmationPoll
  <2>3. Ends2(r[2]) BY <2>2, GetOK, TakenOverOK
  <2> QED BY <1>2, <1>3, <1>11, <2>2, <2>3 DEF Unconfirmed
<1>12. CASE name = "afterCompleteSignInWithCode"
  <2>1. r = AfterCompleteSignInWithCode(b, a) BY <1>12 DEF Invoke
  <2>2. r[1] = NotifyRelierOfLogin(b, a)
        /\ r[2] = IF b.context \in WebChannelContexts
                  THEN TakenOver(b, GetBehavior(b, "afterSignInConfirmationPoll")) ELSE Navigate("settings")
    BY <2>1, GetOK DEF AfterCompleteSignInWithCode
  <2>3. b.context \in WebChannelContexts => Syncs(w)
    BY DEF Syncs, BrokerOK, BrokerShape, WebChannelContexts, ChannelContexts
  <2>4. Ends2(Navigate("settings")) BY <1>1 DEF Ends1, Ends0, DonePages, SettingsPages
  <2>5. Ends2(r[2]) BY <2>2, <2>4, GetOK, TakenOverOK
  <2> QED BY <1>4, <1>12, <2>2, <2>3, <2>5 DEF Unconfirmed
<1> QED BY <1>6, <1>7, <1>9, <1>10, <1>11, <1>12 DEF BrokerMethods, Ends, Polls

-----------------------------------------------------------------------------
(***************************************************************************)
(* The screen a flow ends at, or goes on with.                             *)
(***************************************************************************)
EndView(page, a) == [NewView(page, a) EXCEPT !.done = page \notin Unfinished, !.complete = "end"]

LEMMA EndViewFields ==
    ASSUME NEW page, NEW a
    PROVE  LET v == EndView(page, a)
           IN  /\ ViewShape(v) /\ v.page = page /\ v.account = a /\ ~v.shown /\ v.done \in BOOLEAN /\ (v.done <=> page \notin Unfinished)
               /\ v.from = "none" /\ v.complete = "end" /\ v.redirectTo = "none"
<1> DEFINE u == NewView(page, a)
<1>1. DOMAIN u = {"page", "account", "shown", "ask", "from", "complete", "error", "password", "redirectTo", "done"}
  BY DEF NewView
<1>2. u.page = page /\ u.account = a /\ u.shown = FALSE /\ u.ask = FALSE /\ u.from = "none" /\ u.redirectTo = "none"
  BY DEF NewView
<1> HIDE DEF u
<1>3. (page \notin Unfinished) \in BOOLEAN OBVIOUS
<1> DEFINE v == [u EXCEPT !.done = page \notin Unfinished, !.complete = "end"]
<1>4. /\ DOMAIN v = DOMAIN u /\ v.page = page /\ v.account = a /\ v.shown = FALSE /\ v.ask = FALSE
      /\ v.done \in BOOLEAN /\ (v.done <=> page \notin Unfinished) /\ v.from = "none" /\ v.complete = "end" /\ v.redirectTo = "none"
  BY <1>1, <1>2
<1>5. EndView(page, a) = v BY DEF EndView, u
<1> HIDE DEF v
<1>6. ViewShape(v) BY <1>1, <1>3, <1>4 DEF ViewShape, Redirects
<1> QED BY <1>4, <1>5, <1>6

LEMMA GoBehaviorOK ==
    ASSUME NEW e, NEW a, NEW cs, GoBehavior(e, a, cs), view.redirectTo \in Redirects
    PROVE  \/ UNCHANGED view /\ calls' = cs /\ \A to : e = Navigate(to) => view.page = to
           \/ \E page : /\ Go(EndView(page, a), cs)
                        /\ Ends2(e) => page \in DonePages
                        /\ \A to : e = Navigate(to) => page = to
<1>1. PICK page \in {Destination(e, broker'.caps, Who(a), view.page)} :
          IF page = view.page THEN UNCHANGED view /\ calls' = cs
          ELSE Go([NewView(page, a) EXCEPT !.done = page \notin Unfinished, !.complete = "end"], cs)
  BY DEF GoBehavior
<1>2. Who(a).redirectTo \in Redirects BY DEF Who
<1>3. Ends2(e) => page \in DonePages BY <1>1, <1>2, EndsOK
<1>4. \A to : e = Navigate(to) => page = to BY <1>1, NavigateOK
<1> QED BY <1>1, <1>3, <1>4 DEF EndView

\* The end of a flow, with a session the server verified and told of.
LEMMA EndViewOK ==
    ASSUME NEW w, NEW a, Good(w, a), a.keys => Agreed(w, a.uid), NEW page \in DonePages \cup {"confirm", "signin"},
           page = "confirm" => a.session # 0 /\ (Syncs(w) => Kept(w, a)),
           page \in DonePages /\ a.session # 0 /\ Syncs(w) => Reported(w, a),
           page \in DonePages \ SettingsPages => Verified(w, a)
    PROVE  ViewOK(w, EndView(page, a))
<1> DEFINE v == EndView(page, a)
<1>1. /\ ViewShape(v) /\ v.page = page /\ v.account = a /\ ~v.shown /\ v.done \in BOOLEAN /\ (v.done <=> page \notin Unfinished)
      /\ v.from = "none" /\ v.complete = "end" /\ v.redirectTo = "none"
  BY EndViewFields
<1> HIDE DEF v
<1>2. v.done => page \in DonePages \ SettingsPages BY <1>1 DEF Unfinished
<1>3. DonePages \cap (Waiting \cup CodePages \cup {"signin_unblock", "force_auth"}) = {}
  BY DEF DonePages, SettingsPages, Waiting, CodePages, ConfirmPages, PermissionPages
<1>4. ViewHas(w, v) BY <1>1, <1>3 DEF ViewHas, Waiting, ConfirmPages, PermissionPages
<1>5. ViewVerified(w, v) BY <1>1, <1>2, <1>3 DEF ViewVerified, Waiting, PermissionPages, ConfirmPages
<1>6. Verified(w, a) => a.session # 0 BY DEF Verified
<1>7. ViewKeys(w, v)
  BY <1>1, <1>2, <1>3, <1>6 DEF ViewKeys, Waiting, PermissionPages, ConfirmPages, CodePages, SettingsPages
<1>8. ViewUser(w, v) BY <1>1 DEF ViewUser
<1> QED BY <1>1, <1>4, <1>5, <1>7, <1>8 DEF ViewOK, v

\* What a step of the broker needs: the account of the flow, and that it is
\* verified when this is the end.
MayEnd(w, b, name, a) ==
    /\ Good(w, a) /\ (a.keys => Agreed(w, a.uid)) /\ (Syncs(w) => Kept(w, a))
    /\ name \in Ends \cup {"afterSignUp"} => a.session # 0
    /\ Syncs(w) /\ name \in Ends => a.keys
    /\ Syncs(w) /\ name = "afterSignInConfirmationPoll" => Has(b, a.uid) \/ ~a.keys
    /\ Unconfirmed(name, a) \/ (name = "afterCompleteSignInWithCode" /\ ~Syncs(w)) \/ Verified(w, a)

\* The world of this step, but for the relier, with the broker b.
Meanwhile(b) == [scenario |-> scenario, server |-> server', relier |-> relier, user |-> user', broker |-> b,
                 asked |-> asked']

LEMMA SameBroker ==
    ASSUME NEW w, NEW b, NEW x, x.scenario = w.scenario, x.server = w.server, x.asked = w.asked,
           x.broker = b, Follows(b, w.broker), NEW name, NEW a
    PROVE  /\ MayEnd(w, w.broker, name, a) => MayEnd(x, b, name, a)
           /\ Syncs(x) = Syncs(w) /\ (Verified(w, a) => Verified(x, a))
<1>1. Syncs(x) = Syncs(w) /\ Linking(x) = Linking(w) BY DEF Syncs, Linking
<1>2. Good(w, a) => Good(x, a) BY DEF Good, Holds
<1>3. Agreed(w, a.uid) => Agreed(x, a.uid) BY <1>1 DEF Agreed
<1>4. Kept(w, a) => Kept(x, a) BY DEF Kept, Carried, Follows
<1>5. Verified(w, a) => Verified(x, a) BY DEF Verified
<1>6. Has(w.broker, a.uid) => Has(b, a.uid) BY DEF Follows
<1> QED BY <1>1, <1>2, <1>3, <1>4, <1>5, <1>6 DEF MayEnd

\* Of the methods that are followed by a screen, what is shown next.
LEMMA InvokeViews ==
    ASSUME NEW s \in Slots, NEW b, NEW name \in BrokerMethods, NEW a, InvokeBrokerMethod(s, b, name, a),
           NEW w, w.scenario = scenario, w.broker = b, BrokerOK(w, b), MayEnd(w, b, name, a), view.redirectTo \in Redirects,
           NEW x, x.scenario = w.scenario, x.server = w.server, x.asked = w.asked, x.broker = broker'
    PROVE  /\ BrokerOK(w, broker') /\ Follows(broker', b)
           /\ Syncs(w) /\ name \in Ends => Has(broker', a.uid)
           /\ \/ UNCHANGED view /\ calls' = Over(s) /\ (Unconfirmed(name, a) => view.page = "confirm")
              \/ UNCHANGED view /\ ~Syncs(w) /\ ~Unconfirmed(name, a) /\ \E n : calls' = [calls EXCEPT ![s].op = "finish", ![s].step = "request",
                                                                  ![s].account = a, ![s].complete = n]
              \/ \E v : Go(v, Over(s)) /\ ViewOK(x, v) /\ ~v.shown
<1> DEFINE Shows == \E v : Go(v, Over(s)) /\ ViewOK(x, v) /\ ~v.shown
<1>0. AccountOK(a) /\ (a.keys => Agreed(w, a.uid)) /\ (a.session # 0 => a.uid # "none") BY DEF MayEnd, Good, Holds
<1>1. CASE b.context \in OAuthContexts
  <2>1. ~Syncs(w) BY <1>1 DEF BrokerOK, BrokerShape, Syncs, ChannelContexts, SyncContexts, OAuthContexts
  <2> DEFINE n == OAuthMethod(name, a)
  <2>2. InvokeOAuth(s, b, n, a) BY <1>1 DEF InvokeBrokerMethod
  <2>3. broker' = b BY <2>2 DEF InvokeOAuth
  <2>4. Follows(broker', b) BY <2>3 DEF Follows
  <2>5. MayEnd(x, x.broker, name, a) /\ (Verified(w, a) => Verified(x, a)) /\ ~Syncs(x)
    BY <2>1, <2>3, <2>4, SameBroker
  <2>6. Good(x, a) /\ (a.keys => Agreed(x, a.uid)) BY <2>5 DEF MayEnd
  <2>7. CASE n = "afterSignUp"
    <3>1. Unconfirmed(name, a) BY <2>7 DEF OAuthMethod, Unconfirmed
    <3>2. GoBehavior(Navigate("confirm"), a, Over(s)) BY <2>2, <2>7, GetOK DEF InvokeOAuth
    <3>3. CASE UNCHANGED view /\ calls' = Over(s) /\ view.page = "confirm" BY <2>1, <2>3, <2>4, <3>1, <3>3
    <3>4. CASE Go(EndView("confirm", a), Over(s))
      <4>1. a.session # 0 BY <3>1, <2>5 DEF MayEnd, Unconfirmed
      <4>2. "confirm" \notin DonePages BY DEF DonePages, SettingsPages
      <4>3. ViewOK(x, EndView("confirm", a)) BY <2>5, <2>6, <4>1, <4>2, EndViewOK
      <4> QED BY <2>1, <2>3, <2>4, <3>4, <4>3, EndViewFields
    <3> QED BY <3>2, <3>3, <3>4, GoBehaviorOK
  <2>8. CASE n # "afterSignUp" /\ ContinueOnAndroid(n)
    <3> DEFINE u == NewView(ReadyPage(n), a)
               v == [u EXCEPT !.complete = "finishOAuthFlow"]
    <3>1. Go(v, Over(s)) BY <2>2, <2>8 DEF InvokeOAuth
    <3>2. /\ ViewShape(u) /\ u.page = ReadyPage(n) /\ u.account = a /\ ~u.shown /\ ~u.done
          /\ u.from = "none"
      BY NewViewFields
    <3> HIDE DEF u
    <3>3. /\ ViewShape(v) /\ v.page = u.page /\ v.account = a /\ ~v.shown /\ ~v.done /\ v.from = "none"
          /\ v.complete = "finishOAuthFlow"
      BY <3>2 DEF ViewShape
    <3> HIDE DEF v
    <3>4. v.page \in {"signin_confirmed", "signup_confirmed"} BY <3>2, <3>3 DEF ReadyPage
    <3>5. ViewOK(x, v)
      BY <2>5, <2>6, <3>3, <3>4, EasyView DEF Waiting, ConfirmPages, PermissionPages, CodePages, SettingsPages
    <3> QED BY <2>1, <2>3, <2>4, <3>1, <3>3, <3>5
  <2>9. CASE n # "afterSignUp" /\ ~ContinueOnAndroid(n) /\ AfterSignUpRequireTotp(n)
    <3>1. GoBehavior(Navigate("signin"), a, Over(s)) BY <2>2, <2>9, GetOK DEF InvokeOAuth
    <3>3. CASE UNCHANGED view /\ calls' = Over(s) BY <2>1, <2>3, <2>4, <2>9, <3>3 DEF OAuthMethod, Unconfirmed
    <3>4. CASE Go(EndView("signin", a), Over(s))
      <4>1. "signin" \notin DonePages BY DEF DonePages, SettingsPages
      <4>2. ViewOK(x, EndView("signin", a)) BY <2>6, <4>1, EndViewOK
      <4> QED BY <2>1, <2>3, <2>4, <3>4, <4>2, EndViewFields
    <3> QED BY <3>1, <3>3, <3>4, GoBehaviorOK
  <2>10. CASE n # "afterSignUp" /\ ~ContinueOnAndroid(n) /\ ~AfterSignUpRequireTotp(n)
    <3>1. ~Unconfirmed(name, a) BY <2>10 DEF OAuthMethod, Unconfirmed
    <3>2. calls' = [calls EXCEPT ![s].op = "finish", ![s].step = "request", ![s].account = a, ![s].complete = n]
          /\ UNCHANGED view
      BY <2>2, <2>10 DEF InvokeOAuth
    <3> QED BY <2>1, <2>3, <2>4, <3>1, <3>2
  <2> QED BY <2>7, <2>8, <2>9, <2>10
<1>2. CASE b.context \notin OAuthContexts
  <2>1. broker' = Invoke(b, name, a)[1] /\ GoBehavior(Invoke(b, name, a)[2], a, Over(s))
    BY <1>2 DEF InvokeBrokerMethod
  <2> DEFINE e == Invoke(b, name, a)[2]
  <2>2. /\ BrokerOK(w, broker') /\ Follows(broker', b)
        /\ Unconfirmed(name, a) => e = Navigate("confirm")
        /\ ~Unconfirmed(name, a) => Ends2(e)
        /\ name = "afterCompleteSignInWithCode" /\ ~Syncs(w) => e = Navigate("settings")
        /\ ~Unconfirmed(name, a) /\ name # "afterSignInConfirmationPoll"
               /\ Syncs(w) /\ a.keys /\ a.session # 0 /\ a.uid # "none" => Has(broker', a.uid)
    BY <1>0, <2>1, InvokedOK
  <2> HIDE DEF e
  <2>3. name \in Ends => ~Unconfirmed(name, a) /\ name # "afterSignInConfirmationPoll" BY DEF Ends, Unconfirmed
  <2>4. Syncs(w) /\ name \in Ends => Has(broker', a.uid) BY <1>0, <2>2, <2>3 DEF MayEnd
  <2>5. MayEnd(x, x.broker, name, a) /\ (Verified(w, a) => Verified(x, a)) /\ Syncs(x) = Syncs(w)
    BY <2>2, SameBroker
  <2>6. Good(x, a) /\ (a.keys => Agreed(x, a.uid)) BY <2>5 DEF MayEnd
  <2>7. ~Unconfirmed(name, a) /\ Syncs(x) /\ a.session # 0 => Reported(x, a)
    BY <1>0, <2>2, <2>5 DEF MayEnd, Kept, Carried, Reported
  <2>9. CASE UNCHANGED view /\ calls' = Over(s) /\ \A to : e = Navigate(to) => view.page = to
    BY <2>2, <2>4, <2>9
  <2>10. ASSUME NEW page, Go(EndView(page, a), Over(s)), Ends2(e) => page \in DonePages,
                \A to : e = Navigate(to) => page = to
         PROVE  Shows
    <3>1. CASE Unconfirmed(name, a)
      <4>1. page = "confirm" BY <2>2, <2>10, <3>1
      <4>2. page \notin DonePages BY <4>1 DEF DonePages, SettingsPages
      <4>3. a.session # 0 /\ (Syncs(x) => Kept(x, a)) BY <2>5, <3>1 DEF MayEnd, Unconfirmed
      <4>4. ViewOK(x, EndView(page, a)) BY <2>6, <4>1, <4>2, <4>3, EndViewOK
      <4> QED BY <2>10, <4>4, EndViewFields
    <3>2. CASE ~Unconfirmed(name, a)
      <4>1. page \in DonePages BY <2>2, <2>10, <3>2
      <4>2. page # "confirm" BY <4>1 DEF DonePages, SettingsPages
      <4>3. page \in DonePages \ SettingsPages => Verified(x, a)
        <5>1. name = "afterCompleteSignInWithCode" /\ ~Syncs(w) => page \in SettingsPages
          BY <2>2, <2>10 DEF SettingsPages
        <5> QED BY <2>5, <3>2, <5>1 DEF MayEnd
      <4>4. ViewOK(x, EndView(page, a)) BY <2>6, <2>7, <3>2, <4>1, <4>2, <4>3, EndViewOK
      <4> QED BY <2>10, <4>4, EndViewFields
    <3> QED BY <3>1, <3>2
  <2> HIDE DEF Shows
  <2>11. \/ UNCHANGED view /\ calls' = Over(s) /\ \A to : e = Navigate(to) => view.page = to
         \/ \E page : Go(EndView(page, a), Over(s)) /\ (Ends2(e) => page \in DonePages)
                      /\ \A to : e = Navigate(to) => page = to
    BY <2>1, GoBehaviorOK DEF e
  <2> QED BY <2>2, <2>4, <2>9, <2>10, <2>11 DEF Shows
<1> QED BY <1>1, <1>2

-----------------------------------------------------------------------------
(***************************************************************************)
(* A step that ends with a method of the broker keeps the invariant.       *)
(***************************************************************************)
LEMMA WorldFields ==
    /\ World.scenario = scenario /\ World.server = server /\ World.relier = relier /\ World.user = user
    /\ World.broker = broker /\ World.asked = asked
    /\ World'.scenario = scenario' /\ World'.server = server' /\ World'.relier = relier' /\ World'.user = user'
    /\ World'.broker = broker' /\ World'.asked = asked'
    /\ \A b : /\ Meanwhile(b).scenario = scenario /\ Meanwhile(b).server = server' /\ Meanwhile(b).relier = relier
              /\ Meanwhile(b).user = user' /\ Meanwhile(b).broker = b /\ Meanwhile(b).asked = asked'
  BY DEF World, Meanwhile

LEMMA Together ==
    ASSUME WorldOK(World'), ViewOK(World', view'), CallsOK(World', view', calls'), RestOK'
    PROVE  IInv'
  BY DEF IInv

\* The relier learns who signed in, and the browser has been told.
LEMMA RelierStep ==
    ASSUME NEW w, NEW x, WorldOK(w), x.scenario = w.scenario, x.server = w.server, x.user = w.user, x.asked = w.asked,
           BrokerOK(w, x.broker), Follows(x.broker, w.broker), RelierOK(x),
           w.relier.email # "none" => x.relier.email # "none",
           x.relier.uid = w.relier.uid \/ (Syncs(w) => Has(x.broker, x.relier.uid))
    PROVE  WorldOK(x) /\ Onward(w, x) /\ StayVerified(w, x)
<1>1. Onward(w, x) /\ StayVerified(w, x) BY DEF Onward, StayVerified, Made
<1>2. ServerOK(x) BY DEF WorldOK, ServerOK
<1>3. UserOK(x, x.user) BY <1>1, UserStays DEF WorldOK
<1>4. BrokerOK(x, x.broker) BY BrokerStays
<1>5. KeysOK(x)
  <2>1. Syncs(x) = Syncs(w) /\ Made(x) = Made(w) BY DEF Syncs, Made
  <2>2. x.user.signedIn.keys => Agreed(x, x.user.signedIn.uid) BY <1>1, AccountStays DEF WorldOK, KeysOK
  <2>3. Kept(w, w.user.signedIn) => Kept(x, x.user.signedIn) BY <1>1, AccountStays
  <2>4. Syncs(x) /\ x.relier.uid # x.scenario.uid => Has(x.broker, x.relier.uid)
    BY <2>1 DEF WorldOK, KeysOK, Follows
  <2> QED BY <2>1, <2>2, <2>3, <2>4 DEF WorldOK, KeysOK
<1> QED BY <1>1, <1>2, <1>3, <1>4, <1>5 DEF WorldOK

LEMMA FinishCallOK ==
    ASSUME NEW w, NEW v, CallsOK(w, v, calls), NEW s \in Slots, NEW a, Good(w, a), a.keys => Agreed(w, a.uid), ~Syncs(w), NEW n
    PROVE  CallsOK(w, v, [calls EXCEPT ![s].op = "finish", ![s].step = "request", ![s].account = a, ![s].complete = n])
<1> DEFINE c == calls[s]
           d == [c EXCEPT !.op = "finish", !.step = "request", !.account = a, !.complete = n]
<1>1. CallOK(w, c) /\ HereOK(v, c) BY DEF CallsOK
<1>2. /\ DOMAIN d = DOMAIN c /\ d.op = "finish" /\ d.step = "request" /\ d.account = a /\ d.page = c.page
      /\ d.from = c.from /\ d.complete = n /\ d.redirectTo = c.redirectTo /\ d.here = c.here
  BY <1>1 DEF CallOK, CallShape
<1>3. [calls EXCEPT ![s].op = "finish", ![s].step = "request", ![s].account = a, ![s].complete = n]
          = [calls EXCEPT ![s] = d]
  BY DEF CallsOK
<1> HIDE DEF c, d
<1>4. CallOK(w, d) BY <1>1, <1>2 DEF CallOK, CallShape, CallHas, CallKeys, Typed, Asking
<1>5. HereOK(v, d) BY <1>1, <1>2 DEF HereOK
<1> QED BY <1>3, <1>4, <1>5, NextCallOK

LEMMA InvokeStep ==
    ASSUME IInv, scenario' = scenario, RestOK', NEW s \in Slots, NEW b, NEW name \in BrokerMethods, NEW a,
           InvokeBrokerMethod(s, b, name, a),
           WorldOK(Meanwhile(b)), Onward(World, Meanwhile(b)), StayVerified(World, Meanwhile(b)),
           ViewUser(Meanwhile(b), view) \/ Unconfirmed(name, a), MayEnd(Meanwhile(b), b, name, a),
           relier' = relier \/ (name \in Ends /\ relier' = RelierOf(a))
    PROVE  IInv'
<1> DEFINE w == Meanwhile(b)
           x == World'
<1>0. ViewOK(World, view) /\ CallsOK(World, view, calls) BY DEF IInv
<1>1. /\ w.scenario = scenario /\ w.server = server' /\ w.relier = relier /\ w.user = user' /\ w.broker = b
      /\ w.asked = asked'
      /\ x.scenario = scenario /\ x.server = server' /\ x.relier = relier' /\ x.user = user' /\ x.broker = broker'
      /\ x.asked = asked'
  BY WorldFields
<1>2. WorldOK(w) /\ Onward(World, w) /\ StayVerified(World, w) /\ MayEnd(w, b, name, a)
  OBVIOUS
<1> HIDE DEF w, x
<1>3. BrokerOK(w, b) /\ view.redirectTo \in Redirects BY <1>0, <1>1, <1>2 DEF WorldOK, ViewOK, ViewShape
<1>4. /\ BrokerOK(w, broker') /\ Follows(broker', b)
      /\ Syncs(w) /\ name \in Ends => Has(broker', a.uid)
      /\ \/ UNCHANGED view /\ calls' = Over(s) /\ (Unconfirmed(name, a) => view.page = "confirm")
         \/ UNCHANGED view /\ ~Syncs(w) /\ ~Unconfirmed(name, a) /\ \E n : calls' = [calls EXCEPT ![s].op = "finish", ![s].step = "request",
                                                             ![s].account = a, ![s].complete = n]
         \/ \E v : Go(v, Over(s)) /\ ViewOK(x, v) /\ ~v.shown
  <2>1. InvokeBrokerMethod(s, b, name, a) OBVIOUS
  <2>2. /\ x.scenario = w.scenario /\ x.server = w.server /\ x.asked = w.asked /\ x.broker = broker'
        /\ w.scenario = scenario /\ w.broker = b
    BY <1>1
  <2>3. MayEnd(w, b, name, a) BY <1>2
  <2> QED BY <1>3, <2>1, <2>2, <2>3, InvokeViews
<1>5. /\ RelierOK(x) /\ (relier.email # "none" => relier'.email # "none")
      /\ relier'.uid = relier.uid \/ (Syncs(w) => Has(broker', relier'.uid))
  <2>1. CASE relier' = relier BY <1>1, <1>2, <2>1 DEF WorldOK, RelierOK
  <2>2. CASE name \in Ends /\ relier' = RelierOf(a)
    <3>1. a.email \in Emails /\ a.uid \in Uids
      BY <1>2, <2>2, AccountFields DEF MayEnd, Good, Holds, AccountOK, AccountIsSent, UidOf, Uids, Emails
    <3>2. DOMAIN relier = {"email", "uid"} /\ relier.email \in Emails \cup {"none"}
          /\ (scenario.email # "none" => relier.email # "none")
      BY <1>1, <1>2 DEF WorldOK, RelierOK
    <3>3. \/ relier' = [relier EXCEPT !.uid = a.uid] \/ relier' = relier
          \/ relier' = [email |-> a.email, uid |-> a.uid]
      BY <2>2 DEF RelierOf
    <3>4. CASE relier' = relier BY <1>1, <1>2, <3>4 DEF WorldOK, RelierOK
    <3>5. CASE relier' # relier
      <4>1. DOMAIN relier' = {"email", "uid"} /\ relier'.uid = a.uid /\ relier'.email \in {relier.email, a.email}
        BY <3>2, <3>3, <3>5
      <4>3. a.email # "none" BY <3>1 DEF Emails
      <4>2. RelierOK(x) BY <1>1, <3>1, <3>2, <4>1, <4>3 DEF RelierOK
      <4> QED BY <1>4, <2>2, <4>1, <4>2, <4>3
    <3> QED BY <3>4, <3>5
  <2> QED BY <2>1, <2>2
<1>6. WorldOK(x) /\ Onward(w, x) /\ StayVerified(w, x) BY <1>1, <1>2, <1>4, <1>5, RelierStep
<1>7. Onward(World, x) /\ StayVerified(World, x) BY <1>2, <1>6, OnwardAgain
<1>9. Good(x, a) /\ (a.keys => Agreed(x, a.uid)) BY <1>2, <1>6, AccountStays DEF MayEnd
<1>10. ASSUME Unconfirmed(name, a) => view.page = "confirm" PROVE ViewUser(x, view)
  <2>1. CASE view.page = "confirm" BY <2>1 DEF ViewUser
  <2>2. CASE ViewUser(w, view) BY <1>1, <1>6, <2>2, AccountStays DEF ViewUser, Verified
  <2> QED BY <1>10, <2>1, <2>2 DEF w
<1>11. CASE UNCHANGED view /\ calls' = Over(s) /\ (Unconfirmed(name, a) => view.page = "confirm")
  <2>1. ViewOK(x, view') BY <1>0, <1>7, <1>10, <1>11, ViewStays
  <2>2. CallsOK(World, view, calls') BY <1>0, <1>11, OverOK
  <2>3. CallsOK(x, view', calls') BY <1>7, <1>11, <2>2, CallsStay
  <2> QED BY <1>6, <2>1, <2>3, Together DEF x
<1>12. ASSUME UNCHANGED view, ~Syncs(w), ~Unconfirmed(name, a),
              NEW n, calls' = [calls EXCEPT ![s].op = "finish", ![s].step = "request", ![s].account = a, ![s].complete = n]
       PROVE  IInv'
  <2>1. ViewOK(x, view') BY <1>0, <1>7, <1>10, <1>12, ViewStays
  <2>2. CallsOK(x, view, calls) BY <1>0, <1>7, CallsStay
  <2>4. ~Syncs(x) BY <1>6, <1>12, AccountStays
  <2>3. CallsOK(x, view', calls') BY <1>9, <1>12, <2>2, <2>4, FinishCallOK
  <2> QED BY <1>6, <2>1, <2>3, Together DEF x
<1>13. ASSUME NEW v, Go(v, Over(s)), ViewOK(x, v), ~v.shown
       PROVE  IInv'
  <2>1. ViewOK(x, view') /\ calls' = Left(Over(s)) BY <1>13, GoOK
  <2>2. CallsOK(World, view, Over(s)) BY <1>0, OverOK
  <2>3. CallsOK(x, view', calls') BY <1>7, <2>1, <2>2, LeftOK
  <2> QED BY <1>6, <2>1, <2>3, Together DEF x
<1> QED BY <1>4, <1>11, <1>12, <1>13

-----------------------------------------------------------------------------
(***************************************************************************)
(* The stored accounts.                                                    *)
(***************************************************************************)
LEMMA RemoveOK ==
    ASSUME NEW w, NEW u, UserOK(w, u), NEW r, (\E uid : r = RemoveAccount(u, uid)) \/ r = RemoveAllAccounts(u)
    PROVE  UserOK(w, r) /\ r.tooYoung = u.tooYoung /\ r.signedIn \in {u.signedIn, NoAccount}
<1>1. CASE r = RemoveAllAccounts(u)
  <2>1. /\ DOMAIN r = DOMAIN u /\ r.tooYoung = u.tooYoung /\ r.signedIn = NoAccount
        /\ r.stored = [x \in Uids |-> NoAccount]
    BY <1>1 DEF RemoveAllAccounts, UserOK
  <2> QED BY <2>1, NoAccountOK DEF UserOK
<1>2. ASSUME NEW uid, r = RemoveAccount(u, uid) PROVE UserOK(w, r) /\ r.tooYoung = u.tooYoung /\ r.signedIn \in {u.signedIn, NoAccount}
  <2>1. /\ DOMAIN r = DOMAIN u /\ r.tooYoung = u.tooYoung /\ r.signedIn \in {u.signedIn, NoAccount}
        /\ r.stored = [x \in Uids |-> IF x = uid THEN NoAccount ELSE u.stored[x]]
    BY <1>2 DEF RemoveAccount, UserOK
  <2> QED BY <2>1, NoAccountOK DEF UserOK
<1> QED BY <1>1, <1>2

LEMMA CheckOK ==
    ASSUME NEW w, NEW u, UserOK(w, u), NEW email
    PROVE  LET r == CheckEmail(u, email)
           IN  UserOK(w, r) /\ r.tooYoung = u.tooYoung /\ r.signedIn \in {u.signedIn, NoAccount}
  BY RemoveOK DEF CheckEmail

\* An account is stored without its keys.
LEMMA StoredOK ==
    ASSUME NEW w, NEW a, Good(w, a)
    PROVE  LET b == [a EXCEPT !.keys = FALSE] IN Good(w, b) /\ ~b.keys /\ b.uid = a.uid /\ b.session = a.session
<1>1. [a EXCEPT !.keys = FALSE] \in AccountType BY DEF Good, AccountOK, AccountType
<1> QED BY <1>1 DEF Good, AccountOK, AccountType, Holds

LEMMA StoredBy ==
    ASSUME NEW w, NEW u, UserOK(w, u), NEW a, Good(w, a), a.uid # "none"
    PROVE  UserOK(w, StoreSignedIn(u, a)) /\ StoreSignedIn(u, a).signedIn = a /\ StoreSignedIn(u, a).tooYoung = u.tooYoung
<1> DEFINE b == [a EXCEPT !.keys = FALSE]
<1>1. Good(w, b) /\ ~b.keys /\ b.uid = a.uid BY StoredOK
<1>2. a.uid \in Uids BY DEF Good, AccountOK, AccountType
<1> HIDE DEF b
<1>3. LET r == [u EXCEPT !.signedIn = a, !.stored[a.uid] = b]
      IN  UserOK(w, r) /\ r.signedIn = a /\ r.tooYoung = u.tooYoung
  BY <1>1, <1>2 DEF UserOK
<1> QED BY <1>3 DEF StoreSignedIn, b

LEMMA StoreOK ==
    ASSUME NEW w, NEW u, UserOK(w, u), NEW a, Good(w, a), a.uid # "none"
    PROVE  LET r == [u EXCEPT !.stored[a.uid] = [a EXCEPT !.keys = FALSE]]
           IN  UserOK(w, r) /\ r.signedIn = u.signedIn /\ r.tooYoung = u.tooYoung
<1> DEFINE b == [a EXCEPT !.keys = FALSE]
<1>1. Good(w, b) /\ ~b.keys /\ b.uid = a.uid BY StoredOK
<1>2. a.uid \in Uids BY DEF Good, AccountOK, AccountType
<1> HIDE DEF b
<1>3. LET r == [u EXCEPT !.stored[a.uid] = b]
      IN  UserOK(w, r) /\ r.signedIn = u.signedIn /\ r.tooYoung = u.tooYoung
  BY <1>1, <1>2 DEF UserOK
<1> QED BY <1>3 DEF b

LEMMA SignInAccountOK ==
    ASSUME NEW w, NEW u, UserOK(w, u), NEW a, Good(w, a), a.uid # "none"
    PROVE  LET r == SignInAccount(u, a)
               m == r.signedIn
           IN  /\ UserOK(w, r) /\ r.tooYoung = u.tooYoung
               /\ m.uid = a.uid /\ m.session = a.session /\ m.keys = a.keys /\ m.verified = a.verified
<1> DEFINE old == u.stored[a.uid]
           m == [a EXCEPT !.method = IF @ = "none" THEN old.method ELSE @,
                          !.reason = IF @ = "none" THEN old.reason ELSE @]
<1>1. a.uid \in Uids BY DEF Good, AccountOK, AccountType
<1>2. old.method \in {"none", "email", "email-2fa", "totp-2fa"} /\ old.reason \in {"none", "login", "signup"}
  BY <1>1 DEF UserOK, Good, AccountOK, AccountType
<1> HIDE DEF old
<1>3. /\ m \in AccountType /\ m.uid = a.uid /\ m.session = a.session /\ m.keys = a.keys /\ m.verified = a.verified
      /\ m.email = a.email /\ m.orig = a.orig
  BY <1>2 DEF Good, AccountOK, AccountType
<1> HIDE DEF m
<1>4. Good(w, m) BY <1>3 DEF Good, AccountOK, Holds
<1>5. SignInAccount(u, a) = [u EXCEPT !.stored[a.uid] = [m EXCEPT !.keys = FALSE], !.signedIn = m]
  BY DEF SignInAccount, m, old
<1> DEFINE b == [m EXCEPT !.keys = FALSE]
<1>6. Good(w, b) /\ ~b.keys /\ b.uid = a.uid BY <1>3, <1>4, StoredOK
<1> HIDE DEF b
<1>7. LET r == [u EXCEPT !.stored[a.uid] = b, !.signedIn = m]
      IN  UserOK(w, r) /\ r.signedIn = m /\ r.tooYoung = u.tooYoung
  BY <1>1, <1>4, <1>6 DEF UserOK
<1> QED BY <1>3, <1>5, <1>7 DEF b

-----------------------------------------------------------------------------
(***************************************************************************)
(* Steps that leave the screen, or stay on it.                             *)
(***************************************************************************)
LEMMA IInvParts ==
    ASSUME IInv
    PROVE  /\ WorldOK(World) /\ ViewOK(World, view) /\ CallsOK(World, view, calls) /\ RestOK
           /\ scenario \in Scenarios /\ asked \subseteq Recorded /\ ServerOK(World) /\ UserOK(World, user)
           /\ RelierOK(World) /\ BrokerOK(World, broker) /\ KeysOK(World)
           /\ \A s \in Slots : CallOK(World, calls[s]) /\ HereOK(view, calls[s])
  BY WorldFields DEF IInv, WorldOK, CallsOK

LEMMA GoStep ==
    ASSUME IInv, RestOK', WorldOK(World'), Onward(World, World'), NEW v, ViewOK(World', v), ~v.shown,
           NEW cs, CallsOK(World, view, cs), Go(v, cs)
    PROVE  IInv'
<1>1. ViewOK(World', view') /\ calls' = Left(cs) BY GoOK
<1>2. CallsOK(World', view', calls') BY <1>1, LeftOK
<1> QED BY <1>1, <1>2, Together

LEMMA StayStep ==
    ASSUME IInv, RestOK', WorldOK(World'), Onward(World, World'), ViewOK(World', view'),
           CallsOK(World', view', calls')
    PROVE  IInv'
  BY Together

LEMMA NextWorld ==
    ASSUME scenario' = scenario, relier' = relier
    PROVE  World' = Meanwhile(broker')
  BY DEF World, Meanwhile

\* What a step may do to the world, and to its sessions.
LEMMA MeanwhileOK ==
    ASSUME IInv, asked \subseteq asked', asked' \subseteq Recorded, NEW b, BrokerOK(Meanwhile(b), b), Follows(b, broker),
           ServerOK(Meanwhile(b)), UserOK(Meanwhile(b), user'), KeysOK(Meanwhile(b)),
           \A i \in DOMAIN server.sessions : /\ i \in DOMAIN server'.sessions
                                             /\ server'.sessions[i].uid = server.sessions[i].uid,
           Made(World) => Made(Meanwhile(b))
    PROVE  WorldOK(Meanwhile(b)) /\ Onward(World, Meanwhile(b))
<1> DEFINE w == Meanwhile(b)
           x == World
<1>1. /\ w.scenario = scenario /\ w.server = server' /\ w.relier = relier /\ w.user = user' /\ w.broker = b
      /\ w.asked = asked'
      /\ x.scenario = scenario /\ x.server = server /\ x.relier = relier /\ x.user = user /\ x.broker = broker
      /\ x.asked = asked
  BY WorldFields
<1>2. x.scenario \in Scenarios /\ RelierOK(x) BY IInvParts, WorldFields
<1> HIDE DEF w, x
<1>3. RelierOK(w) BY <1>1, <1>2 DEF RelierOK
<1>4. WorldOK(w) BY <1>1, <1>2, <1>3 DEF WorldOK, w
<1>5. Onward(x, w) BY <1>1 DEF Onward, w, x
<1> QED BY <1>4, <1>5 DEF w, x

\* The signed-in account is as it was, or is another one that may be kept.
SignedInOK(w, a) == (a.keys => Agreed(w, a.uid)) /\ (Syncs(w) /\ Made(w) => Kept(w, a))

\* A step that changes the stored accounts, and what the browser was told.
LEMMA UserStep ==
    ASSUME IInv, UNCHANGED <<scenario, server, relier, asked>>, NEW b, BrokerOK(World, b), Follows(b, broker),
           UserOK(World, user'), user'.signedIn \in {user.signedIn, NoAccount} \/ SignedInOK(Meanwhile(b), user'.signedIn)
    PROVE  WorldOK(Meanwhile(b)) /\ Onward(World, Meanwhile(b)) /\ StayVerified(World, Meanwhile(b))
<1> DEFINE w == Meanwhile(b)
           x == World
<1>1. /\ w.scenario = scenario /\ w.server = server' /\ w.relier = relier /\ w.user = user' /\ w.broker = b
      /\ w.asked = asked'
      /\ x.scenario = scenario /\ x.server = server /\ x.relier = relier /\ x.user = user /\ x.broker = broker
      /\ x.asked = asked
  BY WorldFields
<1>2. ServerOK(x) /\ KeysOK(x) /\ asked \subseteq Recorded BY IInvParts
<1> HIDE DEF w, x
<1>3. Onward(x, w) /\ StayVerified(x, w) BY <1>1 DEF Onward, StayVerified, Made
<1>4. ServerOK(w) BY <1>1, <1>2 DEF ServerOK
<1>5. UserOK(w, user') BY <1>3, UserStays DEF x
<1>6. BrokerOK(w, b) BY <1>1, BrokerStays DEF x
<1>7. Syncs(w) = Syncs(x) /\ Made(w) = Made(x) BY <1>1 DEF Syncs, Made
<1>8. SignedInOK(w, user'.signedIn)
  <2>1. CASE user'.signedIn = user.signedIn
    BY <1>1, <1>2, <1>3, <1>7, <2>1, AccountStays DEF KeysOK, SignedInOK
  <2>2. CASE user'.signedIn = NoAccount BY <2>2, NoAccountOK DEF SignedInOK, Kept
  <2> QED BY <2>1, <2>2 DEF w
<1>9. KeysOK(w) BY <1>1, <1>2, <1>3, <1>7, <1>8 DEF KeysOK, SignedInOK, Onward, Follows
<1>10. asked \subseteq asked' /\ asked' \subseteq Recorded BY <1>2
<1>11. \A i \in DOMAIN server.sessions : i \in DOMAIN server'.sessions /\ server'.sessions[i].uid = server.sessions[i].uid
  OBVIOUS
<1> QED BY <1>3, <1>4, <1>5, <1>6, <1>7, <1>9, <1>10, <1>11, MeanwhileOK DEF w, x

\* A step that changes no more than the screen and the calls.
LEMMA SameWorld ==
    ASSUME IInv, UNCHANGED <<scenario, server, relier, user, broker, asked>>
    PROVE  World' = World /\ WorldOK(World') /\ Onward(World, World') /\ StayVerified(World, World')
<1>1. World' = World BY DEF World
<1>2. Onward(World, World) /\ StayVerified(World, World) BY OnwardSame
<1> QED BY <1>1, <1>2, IInvParts

-----------------------------------------------------------------------------
(***************************************************************************)
(* A form that is submitted.                                               *)
(***************************************************************************)
\* A call that may be sent, once the browser was asked.
Sendable(w, c) ==
    /\ CallShape(c) /\ CallHas(w, c) /\ (c.account.keys => Agreed(w, c.account.uid))
    /\ c.op # "unblock"
    /\ Syncs(w) /\ c.op = "code" => Kept(w, c.account) /\ Made(w)

LEMMA PreparedOK ==
    ASSUME NEW w, BrokerShape(w, broker), NEW c, Sendable(w, c), c.op \in Asking => Agreed(w, UidOf(c.account.email))
    PROVE  LET d == [Prepared(c) EXCEPT !.step = "request"]
           IN  CallOK(w, d) /\ d.here = c.here /\ d.page = c.page
<1> DEFINE p == Prepared(c)
           d == [p EXCEPT !.step = "request"]
           Gone == c.op \in {"signIn", "cached"} /\ ~HasCapability(broker, "reuseExistingSession")
           a == [c.account EXCEPT !.session = 0]
<1>1. /\ Good(w, a) /\ a.keys = c.account.keys /\ a.uid = c.account.uid /\ a.email = c.account.email
      /\ a.session = 0
  <2>1. a \in AccountType /\ a.uid = c.account.uid /\ a.email = c.account.email /\ a.orig = c.account.orig
        /\ a.keys = c.account.keys /\ a.session = 0
    BY DEF Sendable, CallHas, Good, AccountOK, AccountType
  <2> QED BY <2>1 DEF Sendable, CallHas, Good, AccountOK, Holds
<1>2. p = IF Gone THEN [c EXCEPT !.account = a] ELSE c BY DEF Prepared
<1> HIDE DEF a, p
<1>3. /\ DOMAIN d = DOMAIN c /\ d.op = c.op /\ d.step = "request" /\ d.page = c.page /\ d.from = c.from
      /\ d.complete = c.complete /\ d.redirectTo = c.redirectTo /\ d.here = c.here
      /\ d.account = IF Gone THEN a ELSE c.account
  BY <1>2 DEF Sendable, CallShape
<1>4. Syncs(w) /\ c.op = "signIn" => Gone
  BY DEF Syncs, BrokerShape, ChannelContexts, HasCapability
<1> HIDE DEF d
<1>5. CallShape(d) BY <1>3 DEF Sendable, CallShape
<1>6. CallHas(w, d) BY <1>1, <1>3 DEF Sendable, CallHas
<1>7. CallKeys(w, d)
  <2>1. d.account.keys => Agreed(w, d.account.uid) BY <1>1, <1>3 DEF Sendable
  <2>2. d.op \in Asking \cup {"unblock"} => Agreed(w, UidOf(d.account.email)) BY <1>1, <1>3 DEF Sendable
  <2>3. Syncs(w) /\ d.op = "code" => Kept(w, d.account) /\ Made(w) BY <1>3 DEF Sendable
  <2>4. Syncs(w) /\ d.op = "signIn" => d.account.session = 0 BY <1>1, <1>3, <1>4
  <2> QED BY <2>1, <2>2, <2>3, <2>4 DEF CallKeys
<1> QED BY <1>3, <1>5, <1>6, <1>7 DEF CallOK, d, p

LEMMA BeforeOK ==
    ASSUME IInv, NEW c, Sendable(World, c)
    PROVE  LET d == BrokerBeforeSignIn(c)
           IN  CallOK(World, d) /\ d.here = c.here /\ d.page = c.page
<1> DEFINE w == World
<1>0. w.scenario = scenario /\ w.broker = broker /\ w.asked = asked BY WorldFields
<1> HIDE DEF w
<1>1. BrokerOK(w, broker) /\ asked \subseteq Recorded BY IInvParts DEF w
<1>2. CASE c.op \in Asking /\ MustAsk(broker, c.account.email)
  <2> DEFINE d == [c EXCEPT !.step = "ask"]
  <2>1. /\ DOMAIN d = DOMAIN c /\ d.op = c.op /\ d.step = "ask" /\ d.page = c.page /\ d.from = c.from
        /\ d.complete = c.complete /\ d.redirectTo = c.redirectTo /\ d.here = c.here /\ d.account = c.account
    BY DEF Sendable, CallShape
  <2> HIDE DEF d
  <2>2. CallOK(w, d) BY <1>2, <2>1 DEF Sendable, CallOK, CallShape, CallHas, CallKeys, Asking, w
  <2> QED BY <1>2, <2>1, <2>2 DEF BrokerBeforeSignIn, d, w
<1>3. CASE ~(c.op \in Asking /\ MustAsk(broker, c.account.email))
  <2>1. c.op \in Asking => Agreed(w, UidOf(c.account.email))
    <3> SUFFICES ASSUME c.op \in Asking, Linking(w) PROVE \E q \in w.asked : UidOf(q[1]) = UidOf(c.account.email)
      BY DEF Agreed
    <3>1. broker.context \in ChannelContexts BY <1>0, <1>1 DEF Linking, Syncs, BrokerOK, BrokerShape
    <3>2. broker.canLink = c.account.email BY <1>3, <3>1 DEF MustAsk
    <3>3. c.account.email # "none" BY DEF Sendable, CallHas, Asking, Typed
    <3> QED BY <1>1, <3>2, <3>3 DEF BrokerOK, LinksAgreed
  <2> QED BY <1>1, <1>3, <2>1, PreparedOK DEF BrokerBeforeSignIn, BrokerOK, w
<1> QED BY <1>2, <1>3

LEMMA NewCallOK ==
    ASSUME IInv, NEW op \in (Typed \ {"unblock"}) \cup {"code", "finish"}, NEW a, Good(World, a),
           a.keys => Agreed(World, a.uid),
           op \in Typed => a.email # "none",
           op = "cached" => view.page \in {"signin", "signin_password"} /\ ~scenario.keys,
           op = "finish" => ~Syncs(World),
           Syncs(World) /\ op = "code" => Kept(World, a) /\ Made(World),
           NEW password, NEW c, DOMAIN c = DOMAIN NewCall(op, a, password),
           \A f \in DOMAIN c \ {"age", "unblock"} : c[f] = NewCall(op, a, password)[f]
    PROVE  Sendable(World, c) /\ c.here /\ c.page = view.page /\ c.step = "none" /\ c.op = op /\ c.account = a
<1> DEFINE n == NewCall(op, a, password)
<1>1. /\ DOMAIN n = {"op", "step", "account", "password", "unblock", "age", "page", "from", "complete", "redirectTo", "here"}
      /\ n.op = op /\ n.step = "none" /\ n.account = a /\ n.page = view.page /\ n.from = view.from
      /\ n.complete \in Ends /\ n.redirectTo = view.redirectTo /\ n.here = TRUE
  BY DEF NewCall, NoCall, Ends
<1>2. \A f \in DOMAIN c \ {"age", "unblock"} : c[f] = n[f] OBVIOUS
<1>3. DOMAIN c = DOMAIN n OBVIOUS
<1> HIDE DEF n
<1>4. /\ DOMAIN c = {"op", "step", "account", "password", "unblock", "age", "page", "from", "complete", "redirectTo", "here"}
      /\ c.op = op /\ c.step = "none" /\ c.account = a /\ c.page = view.page /\ c.from = view.from
      /\ c.complete \in Ends /\ c.redirectTo = view.redirectTo /\ c.here = TRUE
  BY <1>1, <1>2, <1>3
<1>5. view.redirectTo \in Redirects /\ ("force_auth" \in {view.page, view.from} => World.relier.email # "none")
  BY IInvParts DEF ViewOK, ViewShape, ViewHas
<1>6. CallShape(c) BY <1>4, <1>5 DEF CallShape
<1>7. CallHas(World, c) BY <1>4, <1>5, WorldFields DEF CallHas
<1> QED BY <1>4, <1>6, <1>7 DEF Sendable, Typed

\* The form of a screen that is no settings page and no end.
LEMMA SubmitStep ==
    ASSUME IInv, NEW s \in Slots, NEW c, Submit(s, c), prefill' \in Emails \cup {"none"},
           Sendable(World, c), c.page = view.page, view.page \notin DonePages
    PROVE  IInv'
<1>1. World' = World /\ WorldOK(World') /\ Onward(World, World') BY SameWorld DEF Submit
<1>2. UNCHANGED view /\ calls' = [calls EXCEPT ![s] = BrokerBeforeSignIn(c)] BY DEF Submit, Start
<1>3. ViewOK(World, view) /\ CallsOK(World, view, calls) /\ RestOK BY IInvParts
<1>4. CallOK(World, BrokerBeforeSignIn(c)) /\ BrokerBeforeSignIn(c).page = view.page BY BeforeOK
<1>5. ~view.done /\ view.page \notin SettingsPages BY <1>3 DEF ViewOK, ViewVerified, DonePages
<1>6. CallsOK(World, view, calls') BY <1>2, <1>3, <1>4, <1>5, NextCallOK DEF HereOK
<1>7. submits < MaxSubmits /\ submits' = submits + 1 BY DEF Submit
<1>8. RestOK' BY <1>3, <1>7, SignInFlowAssumption DEF RestOK
<1> QED BY <1>1, <1>2, <1>3, <1>6, <1>8, StayStep

LEMMA ScenarioFacts ==
    ASSUME scenario \in Scenarios
    PROVE  /\ scenario \in ScenarioType
           /\ scenario.typed \subseteq Emails /\ scenario.context \in Contexts
           /\ scenario.email \in Emails \cup {"none"} /\ scenario.uid \in Uids \cup {"none", "stale"}
           /\ scenario.accounts \in [Uids -> Kinds] /\ scenario.redirectTo \in Redirects
           /\ scenario.keys \in BOOLEAN /\ (scenario.context \in ChannelContexts => scenario.keys)
           /\ "force_auth" \in {scenario.page, scenario.action} => scenario.email # "none"
           /\ scenario.page \in {"index", "oauth_index", "signin", "signup", "force_auth"}
           /\ scenario.action \in {"none", "email", "signin", "signup", "force_auth"}
           /\ scenario.cached \in {"none", "live", "dead"}
<1>1. scenario \in ScenarioType BY ScenariosAssumption
<1>2. scenario.context \in ChannelContexts => scenario.keys BY ScenariosAssumption DEF ChannelContexts
<1>3. "force_auth" \in {scenario.page, scenario.action} => scenario.email # "none" BY ScenariosAssumption
<1> QED BY <1>1, <1>2, <1>3 DEF ScenarioType, Redirects

LEMMA SubmitSignInOK ==
    ASSUME IInv, NEW s \in Slots, SubmitSignIn(s) \/ SubmitSignInPassword(s)
    PROVE  IInv'
<1>1. /\ Good(World, view.account) /\ (view.account.keys => Agreed(World, view.account.uid))
      /\ scenario \in Scenarios /\ prefill \in Emails \cup {"none"}
      /\ view.page = "signin_password" /\ view.shown => view.account.email # "none"
  BY IInvParts DEF ViewOK, ViewHas, ViewKeys, RestOK
<1>2. view.page \in {"signin", "signin_password"} BY DEF SubmitSignIn, SubmitSignInPassword
<1>3. view.page \notin DonePages BY <1>2 DEF DonePages, SettingsPages
<1>4. ASSUME NEW op \in {"signIn", "cached"}, NEW a, NEW password, Submit(s, NewCall(op, a, password)),
             Good(World, a), a.keys => Agreed(World, a.uid), a.email # "none",
             op = "cached" => ~scenario.keys, prefill' \in Emails \cup {"none"}
      PROVE  IInv'
  <2> DEFINE c == NewCall(op, a, password)
  <2>1. op \in Typed \ {"unblock"} BY DEF Typed
  <2>2. Sendable(World, c) /\ c.page = view.page BY <1>2, <1>4, <2>1, NewCallOK DEF Typed
  <2> HIDE DEF c
  <2> QED BY <1>3, <1>4, <2>2, SubmitStep DEF c
<1>5. CASE IsPasswordNeededForAccount(view.account)
  <2>1. CASE SubmitSignIn(s)
    <3>1. PICK email \in scenario.typed, password \in scenario.passwords :
              /\ Submit(s, NewCall("signIn", IF view.account.email # "none" /\ UidOf(view.account.email) = UidOf(email)
                                                 THEN view.account ELSE InitAccount(email), password))
              /\ prefill' = email
      BY <1>5, <2>1 DEF SubmitSignIn
    <3>2. email \in Emails BY <1>1, ScenarioFacts
    <3>3. /\ Good(World, InitAccount(email)) /\ ~InitAccount(email).keys /\ InitAccount(email).email = email
          /\ email # "none"
      BY <3>2, InitAccountOK DEF Emails
    <3>4. CASE view.account.email # "none" /\ UidOf(view.account.email) = UidOf(email)
      BY <1>1, <1>4, <3>1, <3>2, <3>4
    <3>5. CASE ~(view.account.email # "none" /\ UidOf(view.account.email) = UidOf(email))
      BY <1>4, <3>1, <3>2, <3>3, <3>5
    <3> QED BY <3>4, <3>5
  <2>2. CASE SubmitSignInPassword(s)
    <3>1. PICK password \in scenario.passwords : Submit(s, NewCall("signIn", view.account, password))
      BY <1>5, <2>2 DEF SubmitSignInPassword
    <3>2. view.page = "signin_password" /\ prefill' = prefill BY <2>2 DEF SubmitSignInPassword
    <3>3. view.account.email # "none" BY <1>1, <3>1, <3>2 DEF Submit
    <3> QED BY <1>1, <1>4, <3>1, <3>2, <3>3
  <2> QED BY <2>1, <2>2
<1>6. CASE ~IsPasswordNeededForAccount(view.account)
  <2>1. Submit(s, NewCall("cached", view.account, "none")) /\ prefill' = prefill
    BY <1>6 DEF SubmitSignIn, SubmitSignInPassword
  <2>2. view.account.email # "none" /\ ~scenario.keys BY <1>6 DEF IsPasswordNeededForAccount
  <2> QED BY <1>1, <1>4, <2>1, <2>2
<1> QED BY <1>5, <1>6

\* The forms that sign in or up with an e-mail that was typed, or is known.
LEMMA SubmitFormOK ==
    ASSUME IInv, NEW s \in Slots,
           SubmitIndex(s) \/ SubmitForceAuth(s) \/ SubmitSignUp(s) \/ SubmitSignUpPassword(s) \/ SubmitUnblock(s)
    PROVE  IInv'
<1>1. /\ Good(World, view.account) /\ (view.account.keys => Agreed(World, view.account.uid))
      /\ scenario \in Scenarios /\ prefill \in Emails \cup {"none"}
      /\ view.page = "signup_password" /\ view.shown => view.account.email # "none"
      /\ view.page = "signin_unblock" => view.account.email # "none"
      /\ view.page = "force_auth" => relier.email # "none"
  BY IInvParts, WorldFields DEF ViewOK, ViewHas, ViewKeys, RestOK
<1>2. view.page \in {"index", "oauth_index", "force_auth", "signup", "signup_password", "signin_unblock"}
  BY DEF SubmitIndex, SubmitForceAuth, SubmitSignUp, SubmitSignUpPassword, SubmitUnblock
<1>3. view.page \notin DonePages BY <1>2 DEF DonePages, SettingsPages
<1>4. ASSUME NEW op \in {"signIn", "signUp", "check"}, NEW a, NEW password, NEW c, Submit(s, c),
             DOMAIN c = DOMAIN NewCall(op, a, password),
             \A f \in DOMAIN c \ {"age", "unblock"} : c[f] = NewCall(op, a, password)[f],
             Good(World, a), a.keys => Agreed(World, a.uid), a.email # "none", prefill' \in Emails \cup {"none"}
      PROVE  IInv'
  <2>1. op \in Typed \ {"unblock"} /\ op # "cached" BY DEF Typed
  <2>2. Sendable(World, c) /\ c.page = view.page BY <1>4, <2>1, NewCallOK DEF Typed
  <2> QED BY <1>3, <1>4, <2>2, SubmitStep
<1>5. \A email \in Emails : /\ Good(World, InitAccount(email)) /\ ~InitAccount(email).keys
                            /\ InitAccount(email).email = email /\ email # "none"
  BY InitAccountOK DEF Emails
<1>6. scenario.typed \subseteq Emails BY <1>1, ScenarioFacts
<1>7. CASE SubmitIndex(s)
  <2>1. PICK email \in scenario.typed : Submit(s, NewCall("check", InitAccount(email), "none")) /\ prefill' = email
    BY <1>7 DEF SubmitIndex
  <2> QED BY <1>4, <1>5, <1>6, <2>1
<1>8. CASE SubmitForceAuth(s)
  <2>1. PICK password \in scenario.passwords : Submit(s, NewCall("signIn", InitAccount(relier.email), password))
    BY <1>8 DEF SubmitForceAuth
  <2>2. relier.email \in Emails BY <1>1, <1>8, IInvParts, WorldFields DEF RelierOK, SubmitForceAuth
  <2>3. prefill' = prefill BY <1>8 DEF SubmitForceAuth
  <2> QED BY <1>1, <1>4, <1>5, <2>1, <2>2, <2>3
<1>9. CASE SubmitSignUp(s)
  <2>1. PICK email \in scenario.typed, age \in {"none", "young", "old"}, password \in scenario.passwords :
            /\ Submit(s, [NewCall(IF age = "old" THEN "signUp" ELSE "signIn", InitAccount(email), password)
                              EXCEPT !.age = age])
            /\ prefill' = email
    BY <1>9 DEF SubmitSignUp
  <2> DEFINE op == IF age = "old" THEN "signUp" ELSE "signIn"
             n == NewCall(op, InitAccount(email), password)
  <2>2. DOMAIN n = {"op", "step", "account", "password", "unblock", "age", "page", "from", "complete", "redirectTo", "here"}
    BY DEF NewCall, NoCall
  <2>3. op \in {"signIn", "signUp", "check"} OBVIOUS
  <2> DEFINE c == [n EXCEPT !.age = age]
  <2>4. Submit(s, c) BY <2>1
  <2> HIDE DEF op, n
  <2>5. DOMAIN c = DOMAIN n /\ \A f \in DOMAIN c \ {"age", "unblock"} : c[f] = n[f] BY <2>2
  <2> HIDE DEF c
  <2> QED BY <1>4, <1>5, <1>6, <2>1, <2>3, <2>4, <2>5 DEF n
<1>10. CASE SubmitSignUpPassword(s)
  <2> DEFINE n == NewCall("signUp", view.account, "right")
             c == [n EXCEPT !.age = "old"]
  <2>1. Submit(s, c) /\ prefill' = prefill /\ view.page = "signup_password" BY <1>10 DEF SubmitSignUpPassword
  <2>2. DOMAIN n = {"op", "step", "account", "password", "unblock", "age", "page", "from", "complete", "redirectTo", "here"}
    BY DEF NewCall, NoCall
  <2> HIDE DEF n
  <2>3. DOMAIN c = DOMAIN n /\ \A f \in DOMAIN c \ {"age", "unblock"} : c[f] = n[f] BY <2>2
  <2> HIDE DEF c
  <2>4. view.account.email # "none" BY <1>1, <2>1 DEF Submit
  <2> QED BY <1>1, <1>4, <2>1, <2>3, <2>4 DEF n
<1>11. CASE SubmitUnblock(s)
  <2>1. PICK code \in {"right", "wrong"} :
            Submit(s, [NewCall("signIn", view.account, view.password) EXCEPT !.unblock = code])
    BY <1>11 DEF SubmitUnblock
  <2> DEFINE n == NewCall("signIn", view.account, view.password)
             c == [n EXCEPT !.unblock = code]
  <2>2. Submit(s, c) /\ prefill' = prefill /\ view.page = "signin_unblock" BY <1>11, <2>1 DEF SubmitUnblock
  <2>3. DOMAIN n = {"op", "step", "account", "password", "unblock", "age", "page", "from", "complete", "redirectTo", "here"}
    BY DEF NewCall, NoCall
  <2> HIDE DEF n
  <2>4. DOMAIN c = DOMAIN n /\ \A f \in DOMAIN c \ {"age", "unblock"} : c[f] = n[f] BY <2>3
  <2> HIDE DEF c
  <2> QED BY <1>1, <1>4, <2>2, <2>4 DEF n
<1> QED BY <1>7, <1>8, <1>9, <1>10, <1>11

LEMMA SubmitCodeOK ==
    ASSUME IInv, NEW s \in Slots, SubmitCode(s)
    PROVE  IInv'
<1>1. PICK code \in {"right", "wrong", "last"} :
          Submit(s, NewCall("code", IF view.page = "signin_recovery_code" THEN user.signedIn
                                    ELSE view.account, code))
  BY DEF SubmitCode
<1> DEFINE a == IF view.page = "signin_recovery_code" THEN user.signedIn ELSE view.account
           c == NewCall("code", a, code)
<1>2. view.page \in CodePages /\ prefill' = prefill BY DEF SubmitCode, CodePages
<1>3. view.page \notin DonePages BY <1>2 DEF DonePages, SettingsPages, CodePages
<1>4. /\ Good(World, view.account) /\ (view.account.keys => Agreed(World, view.account.uid))
      /\ Syncs(World) => Kept(World, view.account) /\ Made(World)
  BY <1>2, IInvParts DEF ViewOK, ViewHas, ViewKeys
<1>5. /\ Good(World, user.signedIn) /\ (user.signedIn.keys => Agreed(World, user.signedIn.uid))
      /\ Syncs(World) => Kept(World, user.signedIn)
  BY <1>4, IInvParts, WorldFields DEF UserOK, KeysOK
<1>6. Submit(s, c) BY <1>1
<1>7. "code" \notin Typed BY DEF Typed
<1>8. Good(World, a) /\ (a.keys => Agreed(World, a.uid)) /\ (Syncs(World) => Kept(World, a) /\ Made(World))
  BY <1>4, <1>5
<1> HIDE DEF a
<1>9. Sendable(World, c) /\ c.page = view.page BY <1>7, <1>8, NewCallOK
<1> HIDE DEF c
<1> QED BY <1>2, <1>3, <1>6, <1>9, IInvParts, SubmitStep DEF RestOK

-----------------------------------------------------------------------------
(***************************************************************************)
(* The answers of the browser, and those that change only a call.          *)
(***************************************************************************)
\* A call with another account, or that is sent again.
LEMMA CallStep ==
    ASSUME IInv, UNCHANGED <<scenario, server, relier, user, broker, asked, view, prefill, submits>>,
           NEW s \in Slots, NEW c, CallOK(World, c), HereOK(view, c), calls' = [calls EXCEPT ![s] = c]
    PROVE  IInv'
<1>1. World' = World /\ WorldOK(World') /\ Onward(World, World') BY SameWorld
<1>2. ViewOK(World, view) /\ CallsOK(World, view, calls) /\ RestOK BY IInvParts
<1>3. CallsOK(World, view, calls') BY <1>2, NextCallOK
<1> QED BY <1>1, <1>2, <1>3, StayStep DEF RestOK

LEMMA AnswerOK ==
    ASSUME IInv, NEW s \in Slots, NEW answer \in Answers, Answer(s, answer)
    PROVE  IInv'
<1> DEFINE c == calls[s]
           w == World
           x == Meanwhile(broker')
<1>1. c.step = "ask" /\ UNCHANGED <<scenario, relier, server, user, view, prefill, submits>> BY DEF Answer
<1>2. CallOK(w, c) /\ HereOK(view, c) /\ ViewOK(w, view) /\ CallsOK(w, view, calls) /\ RestOK /\ BrokerOK(w, broker)
      /\ asked \subseteq Recorded
  BY IInvParts
<1>3. c.op \in Asking /\ c.account.email \in Emails
  BY <1>1, <1>2 DEF CallOK, CallShape, CallHas, Asking, Typed, Good, AccountOK, AccountType
<1>4. Sendable(w, c)
  BY <1>2, <1>3 DEF Sendable, CallOK, CallKeys, Asking
<1>5. CASE answer = "refused"
  <2>1. UNCHANGED <<broker, asked>>
        /\ calls' = [calls EXCEPT ![s] = IF c.op = "cached" THEN [c EXCEPT !.step = "failed"] ELSE NoCall]
    BY <1>5 DEF Answer
  <2>2. CallOK(w, NoCall) /\ HereOK(view, NoCall) BY NoCallOK DEF HereOK
  <2> DEFINE d == [c EXCEPT !.step = "failed"]
  <2>3. /\ DOMAIN d = DOMAIN c /\ d.op = c.op /\ d.step = "failed" /\ d.page = c.page /\ d.from = c.from
        /\ d.complete = c.complete /\ d.redirectTo = c.redirectTo /\ d.here = c.here /\ d.account = c.account
    BY <1>2 DEF CallOK, CallShape
  <2> HIDE DEF d
  <2>4. CallOK(w, d) /\ HereOK(view, d) BY <1>2, <2>3 DEF CallOK, CallShape, CallHas, CallKeys, HereOK
  <2> HIDE DEF c, w
  <2>5. \E e : CallOK(w, e) /\ HereOK(view, e) /\ calls' = [calls EXCEPT ![s] = e]
    <3>1. CASE c.op = "cached" BY <2>1, <2>4, <3>1 DEF d
    <3>2. CASE c.op # "cached" BY <2>1, <2>2, <3>2
    <3> QED BY <3>1, <3>2
  <2> QED BY <1>1, <2>1, <2>5, CallStep DEF w
<1>6. CASE answer # "refused"
  <2> DEFINE d == [Prepared(c) EXCEPT !.step = "request"]
  <2>1. /\ calls' = [calls EXCEPT ![s] = d]
        /\ broker' = IF answer = "agreed" THEN BeforeSignIn(broker, c.account.email) ELSE broker
        /\ asked' = IF scenario.asks THEN asked \cup {<<c.account.email, answer>>} ELSE asked
        /\ answer \in {"agreed", "failed"} /\ (answer # "failed" => scenario.asks)
    BY <1>6 DEF Answer, Answers
  <2>2. /\ broker'.sent = broker.sent /\ broker'.context = broker.context /\ broker'.behaviors = broker.behaviors
        /\ broker'.told = broker.told /\ broker'.caps = broker.caps /\ DOMAIN broker' = DOMAIN broker
        /\ broker'.canLink = broker.canLink 
           \/ (scenario.asks /\ answer = "agreed" /\ broker'.canLink = c.account.email)
    BY <1>2, <2>1 DEF BeforeSignIn, BrokerOK, BrokerShape
  <2>3. /\ w.scenario = scenario /\ w.server = server /\ w.relier = relier /\ w.user = user /\ w.broker = broker
        /\ w.asked = asked
        /\ x.scenario = scenario /\ x.server = server /\ x.relier = relier /\ x.user = user /\ x.broker = broker'
        /\ x.asked = asked'
    BY <1>1, WorldFields
  <2>4. asked \subseteq asked' /\ asked' \subseteq Recorded /\ (scenario.asks => <<c.account.email, answer>> \in asked')
    BY <1>2, <1>3, <2>1 DEF Recorded
  <2> HIDE DEF c, d, w, x
  <2>5. Follows(broker', broker) BY <2>2 DEF Follows, Has
  <2>6. Onward(w, x) /\ StayVerified(w, x) BY <2>3, <2>4, <2>5 DEF Onward, StayVerified, Made
  <2>7. BrokerOK(x, broker')
    <3>1. BrokerOK(x, broker) BY <1>2, <2>3, <2>4, BrokerStays
    <3>2. BrokerShape(x, broker') BY <2>2, <3>1 DEF BrokerOK, BrokerShape
    <3>3. LinksAgreed(x, broker') BY <1>3, <2>2, <2>3, <2>4, <3>1 DEF BrokerOK, LinksAgreed
    <3>4. broker'.told # "none" => Has(broker', broker'.told) BY <2>2, <3>1 DEF BrokerOK, Has
    <3> QED BY <3>2, <3>3, <3>4 DEF BrokerOK
  <2>8. ServerOK(x) /\ UserOK(x, x.user) /\ RelierOK(x) /\ x.scenario \in Scenarios
    BY <2>3, <2>6, IInvParts, UserStays DEF ServerOK, RelierOK, w
  <2>9. KeysOK(x)
    <3>1. KeysOK(w) BY IInvParts DEF w
    <3>2. Made(x) = Made(w) /\ Syncs(x) = Syncs(w) BY <2>3 DEF Made, Syncs
    <3>3. w.user.signedIn.keys => Agreed(x, w.user.signedIn.uid) BY <2>6, <3>1, AccountStays DEF KeysOK
    <3>4. Kept(w, w.user.signedIn) => Kept(x, w.user.signedIn) BY <2>6, AccountStays
    <3> QED BY <2>3, <2>5, <3>1, <3>2, <3>3, <3>4 DEF KeysOK, Follows
  <2>10. WorldOK(x) BY <2>3, <2>4, <2>7, <2>8, <2>9 DEF WorldOK
  <2>11. ViewUser(x, view) BY <1>2, <2>3 DEF ViewOK, ViewUser, Verified, Syncs
  <2>12. ViewOK(x, view) BY <1>2, <2>6, <2>11, ViewStays
  <2>13. CallsOK(x, view, calls) BY <1>2, <2>6, CallsStay
  <2>14. Agreed(x, UidOf(c.account.email))
    <3>1. <<c.account.email, answer>>[1] = c.account.email OBVIOUS
    <3> QED BY <2>3, <2>4, <3>1 DEF Agreed, Linking
  <2>15. Sendable(x, c)
    <3>1. CallOK(x, c) BY <1>2, <2>6, CallStays
    <3> QED BY <1>3, <3>1 DEF Sendable, CallOK, CallKeys, Asking
  <2>16. BrokerShape(x, broker) BY <1>2, <2>3 DEF BrokerOK, BrokerShape
  <2>17. CallOK(x, d) /\ d.here = c.here /\ d.page = c.page BY <2>14, <2>15, <2>16, PreparedOK DEF d
  <2>18. CallsOK(x, view, calls') BY <1>2, <2>1, <2>13, <2>17, NextCallOK DEF HereOK
  <2>19. World' = x BY <1>1, NextWorld DEF x
  <2> QED BY <1>1, <1>2, <2>6, <2>10, <2>12, <2>18, <2>19, StayStep DEF RestOK, w
<1> QED BY <1>5, <1>6

\* The account of a call without its session.
LEMMA SessionReauthRefusedOK ==
    ASSUME IInv, NEW s \in Slots, SessionReauthRefused(s)
    PROVE  IInv'
<1> DEFINE c == calls[s]
           a == [c.account EXCEPT !.session = 0]
           d == [c EXCEPT !.account = a]
<1>1. CallOK(World, c) /\ HereOK(view, c) /\ c.step = "request" /\ c.op = "signIn"
  BY IInvParts DEF SessionReauthRefused, Requested
<1>2. calls' = [calls EXCEPT ![s] = d] BY <1>1, IInvParts DEF SessionReauthRefused, DiscardSession, CallsOK
<1>3. a \in AccountType /\ a.uid = c.account.uid /\ a.email = c.account.email /\ a.orig = c.account.orig
      /\ a.keys = c.account.keys /\ a.session = 0
  BY <1>1 DEF CallOK, CallHas, Good, AccountOK, AccountType
<1>4. Good(World, a) BY <1>1, <1>3 DEF CallOK, CallHas, Good, AccountOK, Holds
<1> HIDE DEF a
<1>5. /\ DOMAIN d = DOMAIN c /\ d.op = c.op /\ d.step = c.step /\ d.page = c.page /\ d.from = c.from
      /\ d.complete = c.complete /\ d.redirectTo = c.redirectTo /\ d.here = c.here /\ d.account = a
  BY <1>1 DEF CallOK, CallShape
<1> HIDE DEF c, d
<1>6. CallOK(World, d) /\ HereOK(view, d)
  BY <1>1, <1>3, <1>4, <1>5 DEF CallOK, CallShape, CallHas, CallKeys, HereOK
<1> QED BY <1>2, <1>6, CallStep DEF SessionReauthRefused

\* The e-mail of a call changes its case, or is again the one that was typed.
LEMMA OtherCaseOK ==
    ASSUME NEW w, NEW a, Good(w, a), NEW b \in {UseCanonicalEmail(a), RestoredEmail(a)}
    PROVE  /\ Good(w, b) /\ b.uid = a.uid /\ b.keys = a.keys /\ b.session = a.session /\ UidOf(b.email) = UidOf(a.email)
           /\ a.email # "none" => b.email # "none"
<1>1. a \in AccountType /\ a.email \in {"a", "A", "b", "none"} /\ a.orig \in {"a", "A", "b", "none"}
  BY DEF Good, AccountOK, AccountType, Emails
<1>2. /\ b \in AccountType /\ b.uid = a.uid /\ b.keys = a.keys /\ b.session = a.session
      /\ \/ b.email = UidOf(a.email) /\ b.orig = a.email
         \/ b.orig = a.orig /\ b.email = IF a.orig # "none" THEN a.orig ELSE a.email
  BY <1>1 DEF UseCanonicalEmail, RestoredEmail, AccountType, Emails, UidOf
<1>3. UidOf(b.email) = UidOf(a.email) /\ (a.email # "none" => b.email # "none")
  BY <1>1, <1>2 DEF UidOf, Good, AccountOK
<1>4. b.orig # "none" => UidOf(b.orig) = UidOf(b.email) BY <1>2, <1>3 DEF Good, AccountOK
<1> QED BY <1>2, <1>3, <1>4 DEF Good, AccountOK, Holds

LEMMA OtherCaseStep ==
    ASSUME IInv, NEW s \in Slots, IncorrectEmailCase(s) \/ OnSignInBlocked(s)
    PROVE  IInv'
<1> DEFINE c == calls[s]
<1>1. CallOK(World, c) /\ HereOK(view, c) /\ c.step = "request" /\ c.op = "signIn"
  BY IInvParts DEF IncorrectEmailCase, OnSignInBlocked, Requested
<1>2. PICK op \in {"signIn", "unblock"}, b \in {UseCanonicalEmail(c.account), RestoredEmail(c.account)} :
          calls' = [calls EXCEPT ![s] = [c EXCEPT !.op = op, !.account = b]]
  <2>1. CASE IncorrectEmailCase(s)
    <3>1. calls' = [calls EXCEPT ![s] = [c EXCEPT !.account = UseCanonicalEmail(c.account)]]
      BY <2>1, IInvParts DEF IncorrectEmailCase, CallsOK
    <3>2. [c EXCEPT !.account = UseCanonicalEmail(c.account)]
              = [c EXCEPT !.op = "signIn", !.account = UseCanonicalEmail(c.account)]
      BY <1>1 DEF CallOK, CallShape
    <3> QED BY <3>1, <3>2
  <2>2. CASE OnSignInBlocked(s)
    <3> DEFINE e == [c EXCEPT !.op = "unblock", !.account = RestoredEmail(c.account)]
    <3>1. calls' = [calls EXCEPT ![s] = e] BY <1>1, <2>2, IInvParts DEF OnSignInBlocked, CallsOK, CallOK, CallShape
    <3> QED BY <3>1
  <2> QED BY <2>1, <2>2
<1>3. /\ Good(World, b) /\ b.uid = c.account.uid /\ b.keys = c.account.keys /\ b.session = c.account.session
      /\ UidOf(b.email) = UidOf(c.account.email) /\ (c.account.email # "none" => b.email # "none")
  BY <1>1, OtherCaseOK DEF CallOK, CallHas
<1> DEFINE d == [c EXCEPT !.op = op, !.account = b]
<1>4. /\ DOMAIN d = DOMAIN c /\ d.op = op /\ d.step = c.step /\ d.page = c.page /\ d.from = c.from
      /\ d.complete = c.complete /\ d.redirectTo = c.redirectTo /\ d.here = c.here /\ d.account = b
  BY <1>1 DEF CallOK, CallShape
<1>5. calls' = [calls EXCEPT ![s] = d] BY <1>2
<1> HIDE DEF c, d
<1>6. CallShape(d) BY <1>1, <1>4 DEF CallOK, CallShape, Typed
<1>7. CallHas(World, d) BY <1>1, <1>3, <1>4 DEF CallOK, CallHas, Typed
<1>8. CallKeys(World, d) BY <1>1, <1>3, <1>4 DEF CallOK, CallKeys, Asking
<1>9. HereOK(view, d) BY <1>1, <1>4 DEF HereOK
<1>10. UNCHANGED <<scenario, server, relier, user, broker, asked, view, prefill, submits>>
  BY DEF IncorrectEmailCase, OnSignInBlocked
<1> QED BY <1>5, <1>6, <1>7, <1>8, <1>9, <1>10, CallStep DEF CallOK

\* A message on the screen changes nothing else.
LEMMA DisplayOK ==
    ASSUME NEW w, ViewOK(w, view), NEW c, NEW error, Display(c, error)
    PROVE  ViewOK(w, view') /\ view'.page = view.page /\ view'.done = view.done
<1> DEFINE v == [view EXCEPT !.error = error]
<1>1. /\ DOMAIN v = DOMAIN view /\ v.page = view.page /\ v.account = view.account /\ v.shown = view.shown
      /\ v.ask = view.ask /\ v.done = view.done /\ v.redirectTo = view.redirectTo /\ v.from = view.from
      /\ v.complete = view.complete
  BY DEF ViewOK, ViewShape
<1>2. view' = v \/ view' = view BY DEF Display
<1> HIDE DEF v
<1>3. ViewOK(w, v) BY <1>1 DEF ViewOK, ViewShape, ViewHas, ViewVerified, ViewKeys, ViewUser
<1> QED BY <1>1, <1>2, <1>3

LEMMA DisplayStep ==
    ASSUME IInv, UNCHANGED <<scenario, server, relier, user, broker, asked>>, RestOK', NEW s \in Slots, NEW c, NEW error,
           Display(c, error), calls' = Over(s)
    PROVE  IInv'
<1>1. World' = World /\ WorldOK(World') /\ Onward(World, World') BY SameWorld
<1>2. ViewOK(World, view') /\ view'.page = view.page /\ view'.done = view.done BY IInvParts, DisplayOK
<1>3. CallsOK(World, view, calls') BY IInvParts, OverOK
<1>4. CallsOK(World', view', calls') BY <1>1, <1>2, <1>3, CallsStay
<1> QED BY <1>1, <1>2, <1>4, StayStep

LEMMA AccountAlreadyExistsOK ==
    ASSUME IInv, NEW s \in Slots, AccountAlreadyExists(s) \/ CodeRefused(s)
    PROVE  IInv'
<1> DEFINE c == calls[s]
<1>0. /\ UNCHANGED <<scenario, server, relier, user, broker, asked, prefill, submits>>
      /\ \/ AccountAlreadyExists(s) /\ c.page = "signup"
         \/ \E error : Display(c, error) /\ calls' = Over(s)
  BY DEF AccountAlreadyExists, CodeRefused
<1>1. RestOK' BY <1>0, IInvParts DEF RestOK
<1>2. CASE AccountAlreadyExists(s) /\ c.page = "signup"
  <2> DEFINE d == [c EXCEPT !.op = "signIn"]
  <2>1. CallOK(World, c) /\ HereOK(view, c) /\ c.step = "request" /\ c.op = "signUp"
    BY <1>2, IInvParts DEF AccountAlreadyExists, Requested
  <2>2. calls' = [calls EXCEPT ![s] = BrokerBeforeSignIn(d)] /\ UNCHANGED view
    BY <1>2 DEF AccountAlreadyExists
  <2>3. /\ DOMAIN d = DOMAIN c /\ d.op = "signIn" /\ d.step = c.step /\ d.page = c.page /\ d.from = c.from
        /\ d.complete = c.complete /\ d.redirectTo = c.redirectTo /\ d.here = c.here /\ d.account = c.account
    BY <2>1 DEF CallOK, CallShape
  <2> HIDE DEF c, d
  <2>4. Sendable(World, d) BY <2>1, <2>3 DEF Sendable, CallOK, CallShape, CallHas, CallKeys, Typed, Asking
  <2>5. CallOK(World, BrokerBeforeSignIn(d)) /\ HereOK(view, BrokerBeforeSignIn(d))
    BY <2>1, <2>3, <2>4, BeforeOK DEF HereOK
  <2> QED BY <1>0, <2>2, <2>5, CallStep
<1>3. CASE \E error : Display(c, error) /\ calls' = Over(s) BY <1>0, <1>1, <1>3, DisplayStep
<1> QED BY <1>0, <1>2, <1>3

LEMMA SendUnblockEmailOK ==
    ASSUME IInv, NEW s \in Slots, SendUnblockEmail(s)
    PROVE  IInv'
<1> DEFINE c == calls[s]
           u == NewView("signin_unblock", c.account)
           v == [u EXCEPT !.from = c.page, !.password = c.password]
<1>1. CallOK(World, c) /\ c.op = "unblock" BY IInvParts DEF SendUnblockEmail, Requested
<1>2. /\ UNCHANGED <<scenario, relier, server, user, broker, prefill, submits, asked>>
      /\ Go(v, Over(s)) \/ (Display(c, "THROTTLED") /\ calls' = Over(s))
  BY DEF SendUnblockEmail, OnSignInError
<1>3. ViewShape(u) /\ u.page = "signin_unblock" /\ u.account = c.account /\ ~u.shown /\ ~u.done /\ u.complete = "none"
  BY NewViewFields
<1> HIDE DEF u
<1>4. ViewShape(v) /\ v.page = "signin_unblock" /\ v.account = c.account /\ ~v.shown /\ ~v.done /\ v.from = c.page
      /\ v.complete = "none"
  BY <1>3 DEF ViewShape
<1> HIDE DEF v
<1>5. /\ Good(World, c.account) /\ (c.account.keys => Agreed(World, c.account.uid)) /\ c.account.email # "none"
      /\ c.page = "force_auth" => World.relier.email # "none"
  BY <1>1 DEF CallOK, CallHas, CallKeys, Typed
<1>6. ViewOK(World, v)
  BY <1>4, <1>5, EasyView DEF Waiting, ConfirmPages, PermissionPages, CodePages, SettingsPages
<1>7. World' = World /\ WorldOK(World') /\ Onward(World, World') BY <1>2, SameWorld
<1>8. CallsOK(World, view, Over(s)) /\ RestOK' BY <1>2, IInvParts, OverOK DEF RestOK
<1>9. CASE Display(c, "THROTTLED") /\ calls' = Over(s) BY <1>2, <1>8, <1>9, DisplayStep
<1>10. CASE Go(v, Over(s)) BY <1>2, <1>4, <1>6, <1>7, <1>8, <1>10, GoStep
<1> QED BY <1>2, <1>9, <1>10

-----------------------------------------------------------------------------
(***************************************************************************)
(* Answers that forget an account, or lead to another form.                *)
(***************************************************************************)
\* A screen that is new, and asks for nothing of its account.
LEMMA PlainView ==
    ASSUME NEW w, NEW page, page \notin Waiting \cup CodePages \cup SettingsPages,
           page = "force_auth" => w.relier.email # "none",
           NEW a, Good(w, a), a.keys => Agreed(w, a.uid), page = "signin_unblock" => a.email # "none",
           NEW v, DOMAIN v = DOMAIN NewView(page, a), v.redirectTo \in Redirects,
           \A f \in DOMAIN v \ {"error", "redirectTo"} : v[f] = NewView(page, a)[f]
    PROVE  ViewOK(w, v) /\ ~v.shown
<1> DEFINE u == NewView(page, a)
<1>1. DOMAIN u = {"page", "account", "shown", "ask", "from", "complete", "error", "password", "redirectTo", "done"}
  BY DEF NewView
<1>2. u.page = page /\ u.account = a /\ u.shown = FALSE /\ u.ask = FALSE /\ u.from = "none" /\ u.done = FALSE
      /\ u.complete = "none"
  BY DEF NewView
<1> HIDE DEF u
<1>3. v.page = page /\ v.account = a /\ v.shown = FALSE /\ v.ask = FALSE /\ v.from = "none" /\ v.done = FALSE
      /\ v.complete = "none"
  BY <1>1, <1>2 DEF u
<1>4. ViewShape(v) BY <1>1, <1>3 DEF ViewShape, u
<1> QED BY <1>3, <1>4, EasyView

LEMMA NewViewOK ==
    ASSUME NEW w, NEW page, page \notin Waiting \cup CodePages \cup SettingsPages,
           page = "force_auth" => w.relier.email # "none",
           NEW a, Good(w, a), a.keys => Agreed(w, a.uid), page = "signin_unblock" => a.email # "none"
    PROVE  /\ ViewOK(w, NewView(page, a)) /\ ~NewView(page, a).shown
           /\ \A error : LET v == [NewView(page, a) EXCEPT !.error = error] IN ViewOK(w, v) /\ ~v.shown
<1> DEFINE u == NewView(page, a)
<1>1. DOMAIN u = {"page", "account", "shown", "ask", "from", "complete", "error", "password", "redirectTo", "done"}
  BY DEF NewView
<1>2. u.redirectTo \in Redirects BY DEF NewView, Redirects
<1> HIDE DEF u
<1>3. ViewOK(w, u) /\ ~u.shown BY <1>1, <1>2, PlainView DEF u
<1>4. ASSUME NEW error PROVE LET v == [u EXCEPT !.error = error] IN ViewOK(w, v) /\ ~v.shown
  <2> DEFINE v == [u EXCEPT !.error = error]
  <2>1. DOMAIN v = DOMAIN u /\ v.redirectTo \in Redirects /\ \A f \in DOMAIN v \ {"error", "redirectTo"} : v[f] = u[f]
    BY <1>1, <1>2
  <2> HIDE DEF v
  <2>2. ViewOK(w, v) /\ ~v.shown BY <2>1, PlainView DEF u
  <2> QED BY <2>2 DEF v
<1> QED BY <1>3, <1>4 DEF u

\* The step to a screen that asks for nothing, the stored accounts being these.
LEMMA LeaveStep ==
    ASSUME IInv, RestOK', UNCHANGED <<scenario, server, relier, asked>>, BrokerOK(World, broker'),
           Follows(broker', broker), UserOK(World, user'), user'.signedIn \in {user.signedIn, NoAccount},
           NEW page, page \notin Waiting \cup CodePages \cup SettingsPages,
           page = "force_auth" => relier.email # "none",
           NEW a, Good(World, a), a.keys => Agreed(World, a.uid), page = "signin_unblock" => a.email # "none",
           NEW cs, CallsOK(World, view, cs),
           Go(NewView(page, a), cs) \/ \E error : Go([NewView(page, a) EXCEPT !.error = error], cs)
    PROVE  IInv'
<1>1. World' = Meanwhile(broker') BY NextWorld
<1>2. WorldOK(World') /\ Onward(World, World') BY <1>1, UserStep
<1>3. Good(World', a) /\ (a.keys => Agreed(World', a.uid)) BY <1>2, AccountStays
<1>4. page = "force_auth" => World'.relier.email # "none" BY WorldFields
<1>5. /\ ViewOK(World', NewView(page, a)) /\ ~NewView(page, a).shown
      /\ \A error : LET v == [NewView(page, a) EXCEPT !.error = error] IN ViewOK(World', v) /\ ~v.shown
  BY <1>3, <1>4, NewViewOK
<1> QED BY <1>2, <1>5, GoStep

LEMMA SameBrokerOK == ASSUME IInv, broker' = broker PROVE BrokerOK(World, broker') /\ Follows(broker', broker)
  BY IInvParts DEF Follows

LEMMA SetOK ==
    ASSUME NEW w, NEW b, BrokerOK(w, b), NEW name, NEW e,
           (name \in Ends /\ Ends0(e)) \/ name = "beforeSignUpConfirmationPoll"
    PROVE  LET c == SetBehavior(b, name, e)
           IN  BrokerOK(w, c) /\ Follows(c, b) /\ Follows(b, c) /\ c.caps = b.caps
<1> DEFINE t == [n \in DOMAIN b.behaviors \cup {name} |-> IF n = name THEN e ELSE b.behaviors[n]]
           c == [b EXCEPT !.behaviors = t]
<1>1. /\ DOMAIN t = {name} \cup DOMAIN b.behaviors
      /\ \A n \in DOMAIN t : (t[n] = e /\ n = name) \/ (n \in DOMAIN b.behaviors /\ t[n] = b.behaviors[n])
  OBVIOUS
<1>2. SetBehavior(b, name, e) = c BY DEF SetBehavior
<1> HIDE DEF t
<1>3. /\ DOMAIN c = DOMAIN b /\ c.behaviors = t /\ c.context = b.context /\ c.caps = b.caps /\ c.canLink = b.canLink
      /\ c.told = b.told /\ c.sent = b.sent
  BY DEF BrokerOK, BrokerShape
<1> HIDE DEF c
<1>4. BrokerShape(w, c) BY <1>1, <1>3 DEF BrokerOK, BrokerShape, Ends
<1>5. Follows(c, b) /\ Follows(b, c) /\ LinksAgreed(w, c) /\ (c.told # "none" => Has(c, c.told))
  BY <1>3 DEF BrokerOK, Follows, Has, LinksAgreed
<1> QED BY <1>2, <1>3, <1>4, <1>5 DEF BrokerOK

LEMMA NavigateToForceSignUpOK ==
    ASSUME IInv, RestOK', UNCHANGED <<scenario, server, relier, asked>>, UserOK(World, user'),
           user'.signedIn \in {user.signedIn, NoAccount}, NEW a, a.email \in Emails \cup {"none"}, NEW cs,
           CallsOK(World, view, cs), NavigateToForceSignUp(a, cs)
    PROVE  IInv'
<1>1. /\ broker' = SetBehavior(broker, "beforeSignUpConfirmationPoll", Null)
      /\ Go([NewView("signup", InitAccount(a.email)) EXCEPT !.error = "DELETED_ACCOUNT"], cs)
  BY DEF NavigateToForceSignUp
<1>2. BrokerOK(World, broker') /\ Follows(broker', broker) BY <1>1, SetOK, IInvParts
<1>3. Good(World, InitAccount(a.email)) /\ ~InitAccount(a.email).keys BY InitAccountOK
<1>4. "signup" \notin Waiting \cup CodePages \cup SettingsPages
  BY DEF Waiting, ConfirmPages, PermissionPages, CodePages, SettingsPages
<1> QED BY <1>1, <1>2, <1>3, <1>4, LeaveStep

LEMMA TooYoungOK ==
    ASSUME IInv, RestOK', UNCHANGED <<scenario, server, relier, broker, asked>>, NEW cs, CallsOK(World, view, cs),
           TooYoung(cs)
    PROVE  IInv'
<1>1. user' = [user EXCEPT !.tooYoung = TRUE] /\ Go(NewView("cannot_create_account", NoAccount), cs)
  BY DEF TooYoung
<1>2. UserOK(World, user') /\ user'.signedIn = user.signedIn BY <1>1, IInvParts DEF UserOK
<1>3. "cannot_create_account" \notin Waiting \cup CodePages \cup SettingsPages
  BY DEF Waiting, ConfirmPages, PermissionPages, CodePages, SettingsPages
<1> QED BY <1>1, <1>2, <1>3, NoAccountOK, SameBrokerOK, LeaveStep

LEMMA SignInRefusedOK ==
    ASSUME IInv, NEW s \in Slots, SignInRefused(s)
    PROVE  IInv'
<1> DEFINE c == calls[s]
<1>1. CallOK(World, c) /\ c.op = "signIn" BY IInvParts DEF SignInRefused, Requested
<1>2. UNCHANGED <<scenario, relier, server, prefill, submits, asked>> BY DEF SignInRefused
<1>3. RestOK' /\ CallsOK(World, view, Over(s)) BY <1>2, IInvParts, OverOK DEF RestOK
<1>4. /\ Good(World, c.account) /\ (c.account.keys => Agreed(World, c.account.uid))
      /\ c.account.email \in Emails \cup {"none"}
      /\ "force_auth" \in {c.page, c.from} => relier.email # "none"
  BY <1>1, WorldFields DEF CallOK, CallHas, CallKeys, Good, AccountOK, AccountType
<1>5. UNCHANGED user => UserOK(World, user') /\ user'.signedIn = user.signedIn BY IInvParts
<1>6. PICK error : OnSignInError(s, c, error) BY DEF SignInRefused
<1> HIDE DEF c
<1>7. \/ NavigateToForceSignUp(c.account, Over(s)) /\ UNCHANGED user
      \/ TooYoung(Over(s)) /\ UNCHANGED broker
      \/ Go(NewView("signin_bounced", c.account), Over(s)) /\ UNCHANGED <<user, broker>>
      \/ /\ Go([NewView(GetAuthPage(c.from), NoAccount) EXCEPT !.error = error], Over(s))
         /\ UNCHANGED <<user, broker>>
      \/ Display(c, error) /\ calls' = Over(s) /\ UNCHANGED <<user, broker>>
  BY <1>6 DEF OnSignInError
<1>8. CASE NavigateToForceSignUp(c.account, Over(s)) /\ UNCHANGED user
  BY <1>2, <1>3, <1>4, <1>5, <1>8, NavigateToForceSignUpOK
<1>9. CASE TooYoung(Over(s)) /\ UNCHANGED broker BY <1>2, <1>3, <1>9, TooYoungOK
<1>10. CASE Go(NewView("signin_bounced", c.account), Over(s)) /\ UNCHANGED <<user, broker>>
  <2>1. "signin_bounced" \notin Waiting \cup CodePages \cup SettingsPages
    BY DEF Waiting, ConfirmPages, PermissionPages, CodePages, SettingsPages
  <2> QED BY <1>2, <1>3, <1>4, <1>5, <1>10, <2>1, SameBrokerOK, LeaveStep
<1>11. CASE /\ Go([NewView(GetAuthPage(c.from), NoAccount) EXCEPT !.error = error], Over(s))
            /\ UNCHANGED <<user, broker>>
  <2>1. /\ GetAuthPage(c.from) \notin Waiting \cup CodePages \cup SettingsPages
        /\ GetAuthPage(c.from) = "force_auth" => relier.email # "none"
        /\ GetAuthPage(c.from) # "signin_unblock"
    BY <1>4 DEF GetAuthPage, Waiting, ConfirmPages, PermissionPages, CodePages, SettingsPages
  <2> QED BY <1>2, <1>3, <1>5, <1>11, <2>1, NoAccountOK, SameBrokerOK, LeaveStep
<1>12. CASE Display(c, error) /\ calls' = Over(s) /\ UNCHANGED <<user, broker>>
  BY <1>2, <1>3, <1>12, DisplayStep
<1> QED BY <1>7, <1>8, <1>9, <1>10, <1>11, <1>12

LEMMA EmailCheckedOK ==
    ASSUME IInv, NEW s \in Slots, EmailChecked(s)
    PROVE  IInv'
<1> DEFINE email == calls[s].account.email
           page == IF Kind(email) = "missing" THEN "signup" ELSE "signin"
           a == IF Kind(email) = "missing" THEN InitAccount(email) ELSE Stored(user, email)
<1>1. UNCHANGED <<scenario, relier, server, broker, prefill, submits, asked>> BY DEF EmailChecked
<1>2. user' = CheckEmail(user, email) /\ Go(NewView(page, a), Over(s)) BY DEF EmailChecked
<1>3. email \in Emails \cup {"none"} BY IInvParts DEF CallOK, CallHas, Good, AccountOK, AccountType
<1>4. Good(World, Stored(user, email)) /\ ~Stored(user, email).keys
  BY <1>3, IInvParts, InitAccountOK DEF Stored, UserOK
<1>5. Good(World, a) /\ ~a.keys BY <1>3, <1>4, InitAccountOK
<1>6. page \notin Waiting \cup CodePages \cup SettingsPages /\ page \in {"signin", "signup"}
  BY DEF Waiting, ConfirmPages, PermissionPages, CodePages, SettingsPages
<1> HIDE DEF page, a
<1>7. UserOK(World, user') /\ user'.signedIn \in {user.signedIn, NoAccount} BY <1>2, CheckOK, IInvParts
<1>8. RestOK' /\ CallsOK(World, view, Over(s)) BY <1>1, IInvParts, OverOK DEF RestOK
<1> QED BY <1>1, <1>2, <1>5, <1>6, <1>7, <1>8, SameBrokerOK, LeaveStep

LEMMA CachedSessionFailsOK ==
    ASSUME IInv, NEW s \in Slots, CachedSessionFails(s)
    PROVE  IInv'
<1> DEFINE c == calls[s]
<1>1. CallOK(World, c) /\ HereOK(view, c) /\ ViewOK(World, view) /\ CallsOK(World, view, calls) /\ RestOK
      /\ scenario \in Scenarios
  BY IInvParts
<1>2. /\ c.op = "cached" /\ calls' = Over(s) /\ user' = RemoveAccount(user, c.account.uid)
      /\ prefill' = c.account.email /\ view' = (IF c.here THEN AskForPassword(c.account) ELSE view)
      /\ UNCHANGED <<scenario, relier, server, broker, submits, asked>>
  BY DEF CachedSessionFails
<1>3. /\ Good(World, c.account) /\ (c.account.keys => Agreed(World, c.account.uid)) /\ c.account.email # "none"
      /\ c.page \in {"signin", "signin_password"} /\ ~scenario.keys
  BY <1>1, <1>2, WorldFields DEF CallOK, CallShape, CallHas, CallKeys, Typed
<1>4. UserOK(World, user') /\ user'.signedIn \in {user.signedIn, NoAccount} /\ user'.tooYoung = user.tooYoung
  BY <1>2, RemoveOK, IInvParts
<1>5. /\ World' = Meanwhile(broker') /\ BrokerOK(World, broker') /\ Follows(broker', broker)
  BY <1>2, NextWorld, SameBrokerOK
<1>6. WorldOK(World') /\ Onward(World, World') /\ StayVerified(World, World') BY <1>2, <1>4, <1>5, UserStep
<1>7. RestOK' BY <1>1, <1>2, <1>3 DEF RestOK, Good, AccountOK, AccountType
<1>8. ~Syncs(World) BY <1>1, <1>3, WorldFields, ScenarioFacts DEF Syncs
<1>9. ViewUser(World', view)
  BY <1>1, <1>4, <1>6, <1>8, AccountStays, WorldFields DEF ViewOK, ViewUser
<1>10. ViewOK(World', view) BY <1>1, <1>6, <1>9, ViewStays
<1>11. ViewOK(World', view') /\ view'.page = view.page /\ view'.done = view.done
  <2>1. CASE ~c.here BY <1>2, <1>10, <2>1
  <2>2. CASE c.here
    <3> DEFINE a == IF view.page = "signin" THEN NoAccount ELSE c.account
               v == [view EXCEPT !.ask = TRUE, !.error = "SESSION_EXPIRED", !.account = a]
    <3>1. view' = v BY <1>2, <2>2 DEF AskForPassword
    <3>2. Good(World', a) /\ (a.keys => Agreed(World', a.uid)) /\ (view.page = "signin_password" => a.email # "none")
      BY <1>3, <1>6, AccountStays, NoAccountOK
    <3>3. view.page \in {"signin", "signin_password"} /\ ~view.done BY <1>1, <1>3, <2>2 DEF HereOK
    <3> HIDE DEF a
    <3>4. /\ DOMAIN v = DOMAIN view /\ v.page = view.page /\ v.account = a /\ v.shown = view.shown
          /\ v.ask = TRUE /\ v.done = view.done /\ v.redirectTo = view.redirectTo /\ v.from = view.from
          /\ v.complete = view.complete
      BY <1>1 DEF ViewOK, ViewShape
    <3> HIDE DEF v
    <3>5. ViewShape(v) BY <1>1, <3>4 DEF ViewOK, ViewShape
    <3>6. ViewHas(World', v) /\ ViewVerified(World', v)
      BY <1>10, <3>2, <3>3, <3>4 DEF ViewOK, ViewHas, ViewVerified, Waiting, ConfirmPages, PermissionPages
    <3>7. ViewKeys(World', v) /\ ViewUser(World', v)
      BY <1>10, <3>2, <3>3, <3>4 DEF ViewOK, ViewKeys, ViewUser, ConfirmPages, PermissionPages, CodePages, SettingsPages
    <3> QED BY <3>1, <3>4, <3>5, <3>6, <3>7 DEF ViewOK
  <2> QED BY <2>1, <2>2
<1>12. CallsOK(World, view, calls') BY <1>1, <1>2, OverOK
<1>13. CallsOK(World', view', calls') BY <1>6, <1>11, <1>12, CallsStay
<1> QED BY <1>6, <1>7, <1>11, <1>13, StayStep

-----------------------------------------------------------------------------
(***************************************************************************)
(* What the user does on a screen without submitting a form.               *)
(***************************************************************************)
LEMMA PlainPages ==
    \A page \in {"index", "oauth_index", "signin", "signup", "signin_password", "signup_password", "force_auth",
                 "cannot_create_account", "signin_bounced"} :
        page \notin Waiting \cup CodePages \cup SettingsPages /\ page # "signin_unblock"
  BY DEF Waiting, ConfirmPages, PermissionPages, CodePages, SettingsPages

LEMMA FollowPageLinkOK ==
    ASSUME IInv, FollowPageLink
    PROVE  IInv'
<1> DEFINE w == World
<1>0. UNCHANGED <<scenario, relier, server, user, broker, prefill, submits, asked>> BY DEF FollowPageLink, On
<1>1. World' = World /\ WorldOK(World') /\ Onward(World, World') BY <1>0, SameWorld
<1>2. RestOK' /\ CallsOK(World, view, calls) /\ ViewOK(World, view) BY <1>0, IInvParts DEF RestOK
<1>3. PICK page \in Links[view.page] :
          Go([NewView(page, IF page \in {"signin_totp_code", "signin_recovery_code"} THEN view.account
                            ELSE NoAccount) EXCEPT !.from = view.from], calls)
  BY DEF FollowPageLink
<1>4. /\ view.page \in {"signin", "signup", "confirm_signin", "signin_totp_code", "signin_recovery_code"}
      /\ page \in {"signin", "signup", "signin_totp_code", "signin_recovery_code"}
      /\ page \in {"signin_totp_code", "signin_recovery_code"} => view.page \in {"signin_totp_code", "signin_recovery_code"}
  <2>1. DOMAIN Links = {"signin", "signup", "confirm_signin", "signin_totp_code", "signin_recovery_code"}
    BY DEF Links
  <2>2. view.page \in DOMAIN Links BY DEF FollowPageLink
  <2>3. /\ Links.signin = {"signup"} /\ Links.signup = {"signin"} /\ Links.confirm_signin = {"signin"}
        /\ Links.signin_totp_code = {"signin_recovery_code"} /\ Links.signin_recovery_code = {"signin_totp_code"}
    BY DEF Links
  <2> QED BY <2>1, <2>2, <2>3
<1> DEFINE a == IF page \in {"signin_totp_code", "signin_recovery_code"} THEN view.account ELSE NoAccount
           u == NewView(page, a)
           v == [u EXCEPT !.from = view.from]
<1>5. Go(v, calls) BY <1>3
<1>6. /\ Good(w, a) /\ (a.keys => Agreed(w, a.uid))
      /\ page \in CodePages /\ Syncs(w) => Kept(w, a) /\ Made(w)
  BY <1>2, <1>4, NoAccountOK DEF ViewOK, ViewHas, ViewKeys, CodePages
<1>7. ViewShape(u) /\ u.page = page /\ u.account = a /\ ~u.shown /\ ~u.done /\ u.complete = "none" BY NewViewFields
<1> HIDE DEF a, u
<1>8. ViewShape(v) /\ v.page = page /\ v.account = a /\ ~v.shown /\ ~v.done /\ v.complete = "none" /\ v.from = view.from
  BY <1>7 DEF ViewShape
<1> HIDE DEF v
<1>9. "force_auth" \in {v.page, v.from} => w.relier.email # "none" BY <1>2, <1>4, <1>8 DEF ViewOK, ViewHas
<1>10. ViewHas(w, v) BY <1>4, <1>6, <1>8, <1>9 DEF ViewHas, Waiting, ConfirmPages, PermissionPages
<1>11. ViewVerified(w, v) BY <1>4, <1>8 DEF ViewVerified, PermissionPages
<1>12. ViewKeys(w, v) BY <1>4, <1>6, <1>8 DEF ViewKeys, CodePages, ConfirmPages, PermissionPages, SettingsPages
<1>13. ViewUser(w, v) BY <1>8 DEF ViewUser
<1>14. ViewOK(w, v) BY <1>8, <1>10, <1>11, <1>12, <1>13 DEF ViewOK
<1> QED BY <1>1, <1>2, <1>5, <1>8, <1>14, GoStep

LEMMA UseDifferentAccountOK ==
    ASSUME IInv, UseDifferentAccount
    PROVE  IInv'
<1>0. UNCHANGED <<scenario, relier, server, broker, submits, asked>> BY DEF UseDifferentAccount, On
<1>1. /\ CallsOK(World, view, calls) /\ ViewOK(World, view) /\ UserOK(World, user) /\ RestOK
      /\ Good(World, view.account) /\ (view.account.keys => Agreed(World, view.account.uid))
  BY IInvParts DEF ViewOK, ViewHas, ViewKeys
<1>2. BrokerOK(World, broker') /\ Follows(broker', broker) /\ World' = Meanwhile(broker')
  BY <1>0, SameBrokerOK, NextWorld
<1>3. CASE view.page = "signin"
  <2>1. /\ user' = RemoveAllAccounts(user) /\ prefill' = "none"
        /\ view' = [view EXCEPT !.account = NoAccount, !.error = "none"] /\ UNCHANGED calls
    BY <1>3 DEF UseDifferentAccount
  <2>2. UserOK(World, user') /\ user'.signedIn \in {user.signedIn, NoAccount} BY <1>1, <2>1, RemoveOK
  <2>3. WorldOK(World') /\ Onward(World, World') BY <1>0, <1>2, <2>2, UserStep
  <2>4. /\ DOMAIN view' = DOMAIN view /\ view'.page = view.page /\ view'.account = NoAccount
        /\ view'.shown = view.shown /\ view'.ask = view.ask /\ view'.done = view.done
        /\ view'.redirectTo = view.redirectTo /\ view'.from = view.from /\ view'.complete = view.complete
    BY <1>1, <2>1 DEF ViewOK, ViewShape
  <2>5. ~view.done BY <1>1, <1>3 DEF ViewOK, ViewVerified, DonePages, SettingsPages
  <2>6. ViewHas(World', view') /\ ViewVerified(World', view')
    BY <1>1, <1>3, <2>3, <2>4, <2>5, NoAccountOK, AccountStays
       DEF ViewOK, ViewHas, ViewVerified, Waiting, ConfirmPages, PermissionPages, SettingsPages, Onward
  <2>7. ViewKeys(World', view') /\ ViewUser(World', view')
    BY <1>3, <2>4, <2>5, NoAccountOK
       DEF ViewKeys, ViewUser, ConfirmPages, PermissionPages, CodePages, SettingsPages
  <2>8. ViewOK(World', view') BY <1>1, <2>4, <2>6, <2>7 DEF ViewOK, ViewShape
  <2>9. CallsOK(World', view', calls') BY <1>1, <2>1, <2>3, <2>4, CallsStay
  <2>10. RestOK' BY <1>0, <1>1, <2>1 DEF RestOK
  <2> QED BY <2>3, <2>8, <2>9, <2>10, StayStep
<1>4. CASE view.page # "signin"
  <2>1. Go(NewView("index", view.account), calls) /\ UNCHANGED <<user, prefill>> BY <1>4 DEF UseDifferentAccount
  <2> QED BY <1>0, <1>1, <1>2, <2>1, PlainPages, LeaveStep DEF RestOK
<1> QED BY <1>3, <1>4

LEMMA CreateAccountOK ==
    ASSUME IInv, CreateAccount
    PROVE  IInv'
<1>1. UNCHANGED <<scenario, relier, server, broker, submits, asked>> /\ user' = RemoveAllAccounts(user)
      /\ prefill' = "none" /\ Go(NewView("signup", NoAccount), calls)
  BY DEF CreateAccount, On
<1>2. UserOK(World, user') /\ user'.signedIn \in {user.signedIn, NoAccount} BY <1>1, IInvParts, RemoveOK
<1>3. CallsOK(World, view, calls) /\ RestOK' BY <1>1, IInvParts DEF RestOK
<1> QED BY <1>1, <1>2, <1>3, PlainPages, NoAccountOK, SameBrokerOK, LeaveStep

LEMMA SubmitTooYoungOK ==
    ASSUME IInv, SubmitTooYoung
    PROVE  IInv'
<1>1. UNCHANGED <<scenario, relier, server, broker, prefill, submits, asked>> /\ TooYoung(calls)
  BY DEF SubmitTooYoung, On
<1>2. CallsOK(World, view, calls) /\ RestOK' BY <1>1, IInvParts DEF RestOK
<1> QED BY <1>1, <1>2, TooYoungOK

\* A step of the server that changes what it holds of its sessions, and makes none.
LEMMA SessionsStep ==
    ASSUME IInv, UNCHANGED <<scenario, asked>>, DOMAIN server' = DOMAIN server,
           server'.accounts \in [Uids -> Kinds], server'.sessions \in Seq(Session),
           DOMAIN server'.sessions = DOMAIN server.sessions,
           \A i \in DOMAIN server.sessions :
               /\ server'.sessions[i].uid = server.sessions[i].uid
               /\ server.sessions[i].verified => server'.sessions[i].verified,
           UserOK(World, user'), user'.signedIn \in {user.signedIn, NoAccount}, NEW w, w = Meanwhile(broker)
    PROVE  WorldOK(w) /\ Onward(World, w) /\ StayVerified(World, w)
<1> DEFINE x == World
<1>1. /\ w.scenario = scenario /\ w.server = server' /\ w.relier = relier /\ w.user = user' /\ w.broker = broker
      /\ w.asked = asked
      /\ x.scenario = scenario /\ x.server = server /\ x.relier = relier /\ x.user = user /\ x.broker = broker
      /\ x.asked = asked
  BY WorldFields
<1>2. ServerOK(x) /\ KeysOK(x) /\ RelierOK(x) /\ BrokerOK(x, broker) /\ asked \subseteq Recorded /\ scenario \in Scenarios
  BY IInvParts
<1>3. UserOK(x, user') /\ (user'.signedIn \in {user.signedIn, NoAccount}) OBVIOUS
<1>4. Len(server'.sessions) = Len(server.sessions) BY <1>1, <1>2 DEF ServerOK
<1> HIDE DEF x
<1>5. Onward(x, w) /\ StayVerified(x, w) BY <1>1, <1>4 DEF Onward, StayVerified, Follows, Made
<1>6. ServerOK(w) BY <1>1, <1>2, <1>4 DEF ServerOK
<1>7. UserOK(w, user') BY <1>3, <1>5, UserStays
<1>8. BrokerOK(w, broker) BY <1>1, <1>2, BrokerStays
<1>9. Syncs(w) = Syncs(x) /\ Made(w) = Made(x) BY <1>1, <1>4 DEF Syncs, Made
<1>10. KeysOK(w)
  <2>1. SignedInOK(w, user'.signedIn)
    <3>1. CASE user'.signedIn = user.signedIn
      BY <1>1, <1>2, <1>5, <1>9, <3>1, AccountStays DEF KeysOK, SignedInOK
    <3>2. CASE user'.signedIn = NoAccount BY <3>2, NoAccountOK DEF SignedInOK, Kept
    <3> QED BY <1>3, <3>1, <3>2
  <2>2. ~Made(x) /\ Syncs(x) => \A i \in DOMAIN w.server.sessions : w.server.sessions[i].verified
    BY <1>1, <1>2 DEF KeysOK
  <2> QED BY <1>1, <1>2, <1>9, <2>1, <2>2 DEF KeysOK, SignedInOK
<1>11. RelierOK(w) BY <1>1, <1>2 DEF RelierOK
<1> QED BY <1>1, <1>2, <1>5, <1>6, <1>7, <1>8, <1>10, <1>11 DEF WorldOK, x

LEMMA ServerStep ==
    ASSUME IInv, UNCHANGED <<scenario, relier, broker, asked>>, DOMAIN server' = DOMAIN server,
           server'.accounts \in [Uids -> Kinds], server'.sessions \in Seq(Session),
           DOMAIN server'.sessions = DOMAIN server.sessions,
           \A i \in DOMAIN server.sessions :
               /\ server'.sessions[i].uid = server.sessions[i].uid
               /\ server.sessions[i].verified => server'.sessions[i].verified,
           UserOK(World, user'), user'.signedIn \in {user.signedIn, NoAccount}
    PROVE  WorldOK(World') /\ Onward(World, World') /\ StayVerified(World, World')
<1>1. World' = Meanwhile(broker) BY NextWorld
<1> QED BY <1>1, SessionsStep

LEMMA FollowLinkOK ==
    ASSUME IInv, FollowLink
    PROVE  IInv'
<1> DEFINE i == view.account.session
           uid == view.account.uid
<1>1. /\ UNCHANGED <<scenario, relier, user, broker, view, calls, prefill, submits, asked>>
      /\ server' = [VerifySession(i, FALSE) EXCEPT !.accounts[uid] = "plain"]
      /\ view.page \in Waiting
  BY DEF FollowLink, On, Waiting, ConfirmPages
<1>2. ServerOK(World) /\ ViewOK(World, view) /\ CallsOK(World, view, calls) /\ UserOK(World, user) /\ RestOK
  BY IInvParts
<1>3. i \in DOMAIN server.sessions /\ uid \in Uids
  BY <1>1, <1>2, WorldFields DEF ViewOK, ViewHas, Good, Holds, AccountOK, AccountType
<1>4. DOMAIN server = {"accounts", "sessions"} /\ server.accounts \in [Uids -> Kinds] /\ server.sessions \in Seq(Session)
  BY <1>2, WorldFields DEF ServerOK
<1>5. server.sessions[i] \in Session BY <1>3, <1>4
<1> HIDE DEF i, uid
<1> DEFINE t == [server.sessions[i] EXCEPT !.verified = TRUE, !.second = @ \/ FALSE]
<1>6. t \in Session /\ t.uid = server.sessions[i].uid /\ t.verified = TRUE BY <1>5 DEF Session
<1>7. /\ server'.sessions = [server.sessions EXCEPT ![i] = t]
      /\ server'.accounts = [server.accounts EXCEPT ![uid] = "plain"] /\ DOMAIN server' = DOMAIN server
  BY <1>1, <1>3, <1>4, <1>5 DEF VerifySession, Session
<1> HIDE DEF t
<1>8. server'.sessions \in Seq(Session) /\ DOMAIN server'.sessions = DOMAIN server.sessions
  BY <1>3, <1>4, <1>6, <1>7
<1>9. server'.accounts \in [Uids -> Kinds] BY <1>4, <1>7 DEF Kinds
<1>10. \A j \in DOMAIN server.sessions : /\ server'.sessions[j].uid = server.sessions[j].uid
                                         /\ server.sessions[j].verified => server'.sessions[j].verified
  BY <1>6, <1>7, <1>8
<1>11. WorldOK(World') /\ Onward(World, World') /\ StayVerified(World, World')
  BY <1>1, <1>2, <1>7, <1>8, <1>9, <1>10, ServerStep
<1>12. ViewUser(World', view)
  <2>1. view.page # "recovery_codes" BY <1>1 DEF Waiting, ConfirmPages, PermissionPages
  <2> QED BY <1>1, <1>2, <2>1, WorldFields DEF ViewOK, ViewUser
<1>13. ViewOK(World', view') BY <1>1, <1>2, <1>11, <1>12, ViewStays
<1>14. CallsOK(World', view', calls') BY <1>1, <1>2, <1>11, CallsStay
<1>15. RestOK' BY <1>1, <1>2 DEF RestOK
<1> QED BY <1>11, <1>13, <1>14, <1>15, StayStep

LEMMA SignOutOK ==
    ASSUME IInv, SignOut
    PROVE  IInv'
<1> DEFINE i == user.signedIn.session
           T(j) == IF j = i THEN [server.sessions[j] EXCEPT !.live = FALSE] ELSE server.sessions[j]
<1>1. /\ UNCHANGED <<scenario, relier, broker, prefill, submits, asked>>
      /\ user' = RemoveAccount(user, user.signedIn.uid)
      /\ server' = [server EXCEPT !.sessions = [j \in DOMAIN server.sessions |-> T(j)]]
      /\ Go(NewView("signin", NoAccount), calls)
  BY DEF SignOut
<1>2. ServerOK(World) /\ CallsOK(World, view, calls) /\ UserOK(World, user) /\ RestOK BY IInvParts
<1>4. DOMAIN server = {"accounts", "sessions"} /\ server.accounts \in [Uids -> Kinds] /\ server.sessions \in Seq(Session)
  BY <1>2, WorldFields DEF ServerOK
<1>5. \A j \in DOMAIN server.sessions : /\ T(j) \in Session /\ T(j).uid = server.sessions[j].uid
                                        /\ T(j).verified = server.sessions[j].verified
  <2> SUFFICES ASSUME NEW j \in DOMAIN server.sessions
               PROVE  /\ T(j) \in Session /\ T(j).uid = server.sessions[j].uid
                      /\ T(j).verified = server.sessions[j].verified
    OBVIOUS
  <2>1. server.sessions[j] \in Session BY <1>4
  <2> QED BY <2>1 DEF Session
<1> HIDE DEF T
<1>6. /\ server'.sessions = [j \in DOMAIN server.sessions |-> T(j)] /\ server'.accounts = server.accounts
      /\ DOMAIN server' = DOMAIN server
  BY <1>1, <1>4
<1>7. server'.sessions \in Seq(Session) /\ DOMAIN server'.sessions = DOMAIN server.sessions
  <2>1. DOMAIN server.sessions = 1 .. Len(server.sessions) /\ Len(server.sessions) \in Nat BY <1>4
  <2> QED BY <1>5, <1>6, <2>1
<1>8. UserOK(World, user') /\ user'.signedIn \in {user.signedIn, NoAccount} BY <1>1, <1>2, RemoveOK
<1>9. \A j \in DOMAIN server.sessions : /\ server'.sessions[j].uid = server.sessions[j].uid
                                        /\ server.sessions[j].verified => server'.sessions[j].verified
  BY <1>5, <1>6
<1>10. WorldOK(World') /\ Onward(World, World') BY <1>1, <1>4, <1>6, <1>7, <1>8, <1>9, ServerStep
<1>11. ViewOK(World', NewView("signin", NoAccount)) /\ ~NewView("signin", NoAccount).shown
  BY NoAccountOK, PlainPages, NewViewOK
<1>12. RestOK' BY <1>1, <1>2 DEF RestOK
<1> QED BY <1>1, <1>2, <1>10, <1>11, <1>12, GoStep

-----------------------------------------------------------------------------
(***************************************************************************)
(* The code an OAuth relier waits for.                                     *)
(***************************************************************************)
LEMMA ContinueOK ==
    ASSUME IInv, NEW s \in Slots, Continue(s)
    PROVE  IInv'
<1> DEFINE n == NewCall("finish", view.account, "none")
           c == [n EXCEPT !.step = "request"]
<1>1. /\ UNCHANGED <<scenario, relier, server, user, broker, view, prefill, submits, asked>>
      /\ calls' = [calls EXCEPT ![s] = c] /\ view.complete = "finishOAuthFlow"
  BY DEF Continue
<1>2. /\ ~Syncs(World) /\ ~view.done /\ view.page \notin SettingsPages /\ Good(World, view.account)
      /\ view.account.keys => Agreed(World, view.account.uid)
  BY <1>1, IInvParts DEF ViewOK, ViewHas, ViewKeys
<1>3. "finish" \notin Typed /\ "finish" \notin Asking BY DEF Typed, Asking
<1>4. DOMAIN n = {"op", "step", "account", "password", "unblock", "age", "page", "from", "complete", "redirectTo", "here"}
  BY DEF NewCall, NoCall
<1>5. Sendable(World, n) /\ n.here /\ n.page = view.page /\ n.op = "finish" /\ n.account = view.account
  BY <1>2, <1>3, NewCallOK
<1> HIDE DEF n
<1>6. /\ DOMAIN c = DOMAIN n /\ c.op = "finish" /\ c.step = "request" /\ c.page = n.page /\ c.from = n.from
      /\ c.complete = n.complete /\ c.redirectTo = n.redirectTo /\ c.here = n.here /\ c.account = view.account
  BY <1>4, <1>5
<1> HIDE DEF c
<1>7. CallShape(c) /\ CallHas(World, c) BY <1>3, <1>5, <1>6 DEF Sendable, CallShape, CallHas
<1>8. CallKeys(World, c) BY <1>2, <1>3, <1>6 DEF CallKeys
<1>9. HereOK(view, c) BY <1>2, <1>5, <1>6 DEF HereOK
<1> QED BY <1>1, <1>7, <1>8, <1>9, CallStep DEF CallOK

LEMMA FinishOAuthFlowOK ==
    ASSUME IInv, NEW s \in Slots, FinishOAuthFlow(s)
    PROVE  IInv'
<1> DEFINE c == calls[s]
<1>1. UNCHANGED <<scenario, relier, server, user, prefill, submits, asked>> /\ c.op = "finish"
  BY DEF FinishOAuthFlow, Requested
<1>2. CallOK(World, c) /\ RestOK /\ BrokerOK(World, broker) /\ CallsOK(World, view, Over(s)) BY IInvParts, OverOK
<1>3. Good(World, c.account) /\ (c.account.keys => Agreed(World, c.account.uid)) /\ ~Syncs(World)
  BY <1>1, <1>2 DEF CallOK, CallHas, CallKeys
<1>4. RestOK' BY <1>1, <1>2 DEF RestOK
<1>5. CASE GetOAuthResult(c) # "code"
  <2>1. calls' = Over(s) /\ Display(c, GetOAuthResult(c)) /\ UNCHANGED broker BY <1>5 DEF FinishOAuthFlow
  <2> QED BY <1>1, <1>4, <2>1, DisplayStep
<1>6. CASE GetOAuthResult(c) = "code"
  <2> DEFINE a == [c.account EXCEPT !.verified = server.sessions[c.account.session].verified]
             u == NewView("halted", c.account)
             v == [u EXCEPT !.done = TRUE]
  <2>1. broker' = Send(broker, "oauth_code", a) /\ Go(v, Over(s)) BY <1>6 DEF FinishOAuthFlow
  <2>2. c.account.session # 0 /\ server.sessions[c.account.session].verified BY <1>6 DEF GetOAuthResult, Live
  <2>3. AccountIsSent(a)
    <3>1. AccountIsSent(c.account) /\ DOMAIN c.account = {"email", "uid", "session", "sync", "keys", "verified",
                                                           "method", "reason", "orig"}
      BY <1>3, AccountFields DEF Good
    <3>2. server.sessions[c.account.session] \in Session
      BY <1>3, <2>2, IInvParts, WorldFields DEF Good, Holds, ServerOK
    <3>3. a.verified \in BOOLEAN /\ a.email = c.account.email /\ a.uid = c.account.uid /\ a.keys = c.account.keys
      BY <3>1, <3>2 DEF Session
    <3> QED BY <3>1, <3>3 DEF AccountIsSent
  <2> HIDE DEF a
  <2>4. "oauth_code" \in Commands /\ "oauth_code" # "LOGIN" BY DEF Commands
  <2>5. BrokerOK(World, broker') /\ Follows(broker', broker)
    BY <1>2, <2>1, <2>3, <2>4, SendOK DEF BrokerOK
  <2>6. World' = Meanwhile(broker') /\ UserOK(World, user') /\ user'.signedIn = user.signedIn
    BY <1>1, NextWorld, IInvParts
  <2>7. WorldOK(World') /\ Onward(World, World') BY <1>1, <2>5, <2>6, UserStep
  <2>8. Good(World', c.account) /\ (c.account.keys => Agreed(World', c.account.uid)) /\ ~Syncs(World')
    BY <1>3, <2>7, AccountStays
  <2>9. Verified(World', c.account) BY <1>1, <2>2, WorldFields DEF Verified
  <2>10. ViewShape(u) /\ u.page = "halted" /\ u.account = c.account /\ ~u.shown /\ u.from = "none" /\ u.complete = "none"
    BY NewViewFields
  <2> HIDE DEF c, u
  <2>11. ViewShape(v) /\ v.page = "halted" /\ v.account = c.account /\ ~v.shown /\ v.from = "none" /\ v.complete = "none"
    BY <2>10 DEF ViewShape
  <2> HIDE DEF v
  <2>12. ViewHas(World', v) BY <2>8, <2>11 DEF ViewHas, Waiting, ConfirmPages, PermissionPages
  <2>13. ViewVerified(World', v) BY <2>9, <2>11 DEF ViewVerified, PermissionPages, DonePages
  <2>14. ViewKeys(World', v) /\ ViewUser(World', v) BY <2>8, <2>11 DEF ViewKeys, ViewUser
  <2>15. ViewOK(World', v) BY <2>11, <2>12, <2>13, <2>14 DEF ViewOK
  <2> QED BY <1>2, <1>4, <2>1, <2>7, <2>11, <2>15, GoStep
<1> QED BY <1>5, <1>6

-----------------------------------------------------------------------------
(***************************************************************************)
(* A screen that is shown.                                                 *)
(***************************************************************************)
\* The same screen, shown, with an account it may have.
LEMMA ShownOK ==
    ASSUME NEW w, ViewOK(w, view), view.page \notin DonePages, NEW a, Good(w, a), a.keys => Agreed(w, a.uid),
           NEW v, DOMAIN v = DOMAIN view, v.account = a, v.shown \in BOOLEAN,
           \A f \in DOMAIN view \ {"account", "shown", "error"} : v[f] = view[f],
           view.page \in {"signin_password", "signup_password", "signin_unblock"} => a.email # "none",
           view.page \in Waiting => a = view.account,
           view.page \in CodePages /\ Syncs(w) => Kept(w, a),
           view.page \in ConfirmPages /\ Syncs(w) => Has(w.broker, a.uid) \/ ~a.keys,
           w.user.tooYoung => view.page \notin {"signup", "signup_password"}
    PROVE  ViewOK(w, v) /\ v.page = view.page /\ v.done = view.done
<1>1. DOMAIN view = {"page", "account", "shown", "ask", "from", "complete", "error", "password", "redirectTo", "done"}
  BY DEF ViewOK, ViewShape
<1>2. /\ v.page = view.page /\ v.ask = view.ask /\ v.from = view.from /\ v.complete = view.complete
      /\ v.redirectTo = view.redirectTo /\ v.done = view.done
  BY <1>1
<1>3. ~view.done /\ view.page \notin SettingsPages BY DEF ViewOK, ViewVerified, DonePages
<1>4. ViewShape(v) BY <1>1, <1>2 DEF ViewOK, ViewShape
<1>5. CodePages \cap Waiting = {} /\ PermissionPages \subseteq Waiting /\ ConfirmPages \subseteq Waiting
  BY DEF CodePages, Waiting, PermissionPages, ConfirmPages
<1>6. ViewHas(w, v) BY <1>2, <1>3 DEF ViewOK, ViewHas, Waiting
<1>7. ViewVerified(w, v) BY <1>2, <1>3, <1>5 DEF ViewOK, ViewVerified
<1>8. ViewKeys(w, v) BY <1>2, <1>3, <1>5 DEF ViewOK, ViewKeys, Waiting, PermissionPages, ConfirmPages
<1>9. ViewUser(w, v) BY <1>2, <1>3 DEF ViewUser, SettingsPages
<1> QED BY <1>2, <1>4, <1>6, <1>7, <1>8, <1>9 DEF ViewOK

LEMMA ShowStep ==
    ASSUME IInv, RestOK', UNCHANGED <<scenario, server, relier, asked>>, BrokerOK(World, broker'),
           Follows(broker', broker), UserOK(World, user'), user'.signedIn \in {user.signedIn, NoAccount},
           user'.tooYoung = user.tooYoung,
           view.page \notin DonePages, NEW a, Good(World, a), a.keys => Agreed(World, a.uid),
           DOMAIN view' = DOMAIN view, view'.account = a, view'.shown \in BOOLEAN,
           \A f \in DOMAIN view \ {"account", "shown", "error"} : view'[f] = view[f],
           view.page \in {"signin_password", "signup_password", "signin_unblock"} => a.email # "none",
           view.page \in Waiting => a = view.account,
           view.page \in CodePages /\ Syncs(World) => Kept(World, a),
           view.page \in ConfirmPages /\ Syncs(World) => Has(broker', a.uid) \/ ~a.keys,
           user.tooYoung => view.page \notin {"signup", "signup_password"},
           CallsOK(World, view, calls')
    PROVE  IInv'
<1> DEFINE w == World
           x == World'
<1>1. x = Meanwhile(broker') BY NextWorld
<1>2. WorldOK(x) /\ Onward(w, x) /\ StayVerified(w, x) BY <1>1, UserStep
<1>3. x.user = user' /\ x.broker = broker' BY WorldFields
<1>4. /\ Good(x, a) /\ (a.keys => Agreed(x, a.uid)) /\ Syncs(x) = Syncs(w) /\ (Kept(w, a) => Kept(x, a))
  BY <1>2, AccountStays
<1>5. ViewOK(w, view) BY IInvParts
<1>6. ViewUser(x, view)
  BY <1>3, <1>5, WorldFields DEF ViewOK, ViewUser, DonePages, SettingsPages
<1>7. ViewOK(x, view) BY <1>2, <1>5, <1>6, ViewStays
<1> HIDE DEF w, x
<1>8. ViewOK(x, view') /\ view'.page = view.page /\ view'.done = view.done
  <2>1. view.page \in CodePages /\ Syncs(x) => Kept(x, a) BY <1>4 DEF w
  <2>2. view.page \in ConfirmPages /\ Syncs(x) => Has(x.broker, a.uid) \/ ~a.keys BY <1>3, <1>4 DEF w
  <2>3. x.user.tooYoung => view.page \notin {"signup", "signup_password"} BY <1>3
  <2> QED BY <1>4, <1>7, <2>1, <2>2, <2>3, ShownOK
<1>9. CallsOK(x, view', calls') BY <1>2, <1>8, CallsStay DEF w
<1> QED BY <1>2, <1>8, <1>9, StayStep DEF x, w

LEMMA ShownFields ==
    ASSUME NEW w, ViewOK(w, view), Shown
    PROVE  /\ DOMAIN view' = DOMAIN view /\ view'.account = view.account /\ view'.shown \in BOOLEAN
           /\ \A f \in DOMAIN view \ {"account", "shown", "error"} : view'[f] = view[f]
  BY DEF Shown, ViewOK, ViewShape

LEMMA ChooserOK ==
    ASSUME IInv
    PROVE  LET a == GetChooserAccount IN Good(World, a) /\ (a.keys => Agreed(World, a.uid))
  BY IInvParts, NoAccountOK, WorldFields DEF GetChooserAccount, UserOK, KeysOK

LEMMA ViewFacts ==
    ASSUME IInv
    PROVE  /\ ViewOK(World, view) /\ Good(World, view.account) /\ (view.account.keys => Agreed(World, view.account.uid))
           /\ CallsOK(World, view, calls) /\ UserOK(World, user)
           /\ view.account.email \in Emails \cup {"none"} /\ relier.email \in Emails \cup {"none"}
           /\ prefill \in Emails \cup {"none"} /\ submits \in 0 .. MaxSubmits
           /\ (submits' = submits /\ prefill' \in Emails \cup {"none"} => RestOK')
           /\ Good(World, user.signedIn) /\ (user.signedIn.keys => Agreed(World, user.signedIn.uid))
  BY IInvParts, WorldFields
     DEF ViewOK, ViewHas, ViewKeys, RelierOK, RestOK, UserOK, KeysOK, Good, AccountOK, AccountType

\* The first screen: it looks up the e-mail it knows, or suggests an account.
LEMMA ChooseEmailOK ==
    ASSUME IInv, NEW s \in Slots, UNCHANGED <<scenario, server, relier, user, broker, asked, submits>>,
           view.page \in {"index", "oauth_index"}, ChooseEmailActionPage(s)
    PROVE  IInv'
<1>1. /\ prefill' \in Emails \cup {"none"}
      /\ \/ /\ relier.email # "none" /\ Shown
            /\ Start(s, NewCall("check", InitAccount(relier.email), "none"))
         \/ view' = NewView("signin_password", GetChooserAccount) /\ calls' = Left(calls)
         \/ Shown /\ UNCHANGED calls
  BY ViewFacts DEF ChooseEmailActionPage
<1>2. view.page \notin DonePages \cup Waiting \cup CodePages
  BY DEF DonePages, SettingsPages, Waiting, CodePages, ConfirmPages, PermissionPages
<1>3. RestOK' BY <1>1, ViewFacts
<1>4. BrokerOK(World, broker') /\ Follows(broker', broker) BY SameBrokerOK
<1>5. ASSUME Shown, CallsOK(World, view, calls') PROVE IInv'
  <2>1. /\ DOMAIN view' = DOMAIN view /\ view'.account = view.account /\ view'.shown \in BOOLEAN
        /\ \A f \in DOMAIN view \ {"account", "shown", "error"} : view'[f] = view[f]
    BY <1>5, ViewFacts, ShownFields
  <2> QED BY <1>2, <1>3, <1>4, <1>5, <2>1, ViewFacts, ShowStep DEF Waiting
<1>6. CASE /\ relier.email # "none" /\ Shown
           /\ Start(s, NewCall("check", InitAccount(relier.email), "none"))
  <2> DEFINE a == InitAccount(relier.email)
             c == NewCall("check", a, "none")
  <2>1. Good(World, a) /\ ~a.keys /\ a.email # "none" BY <1>6, ViewFacts, InitAccountOK
  <2>2. "check" \in Typed \ {"unblock"} BY DEF Typed
  <2> HIDE DEF a
  <2>3. Sendable(World, c) /\ c.page = view.page BY <2>1, <2>2, NewCallOK
  <2>4. calls' = [calls EXCEPT ![s] = BrokerBeforeSignIn(c)] BY <1>6 DEF Start, a
  <2> HIDE DEF c
  <2>5. CallOK(World, BrokerBeforeSignIn(c)) /\ BrokerBeforeSignIn(c).page = view.page BY <2>3, BeforeOK
  <2>6. ~view.done /\ view.page \notin SettingsPages BY <1>2, ViewFacts DEF ViewOK, ViewVerified, DonePages
  <2>7. CallsOK(World, view, calls') BY <2>4, <2>5, <2>6, ViewFacts, NextCallOK DEF HereOK
  <2> QED BY <1>5, <1>6, <2>7
<1>7. CASE view' = NewView("signin_password", GetChooserAccount) /\ calls' = Left(calls)
  <2>1. World' = World /\ WorldOK(World') /\ Onward(World, World') BY SameWorld
  <2>2. ViewOK(World, view') BY <1>7, ChooserOK, PlainPages, NewViewOK
  <2>3. CallsOK(World', view', calls') BY <1>7, <2>1, ViewFacts, LeftOK
  <2> QED BY <1>3, <2>1, <2>2, <2>3, StayStep
<1>8. CASE Shown /\ UNCHANGED calls BY <1>5, <1>8, ViewFacts
<1> QED BY <1>1, <1>6, <1>7, <1>8

\* A page that sends on to another.
LEMMA ReplaceOK ==
    ASSUME IInv, UNCHANGED <<scenario, server, relier, broker, asked, submits>>, prefill' \in Emails \cup {"none"},
           UserOK(World, user'), user'.signedIn \in {user.signedIn, NoAccount},
           NEW page \in {"index", "oauth_index", "signin", "signup", "force_auth", "cannot_create_account"},
           page = "force_auth" => relier.email # "none", Replace(page, NoAccount)
    PROVE  IInv'
<1>1. RestOK' /\ CallsOK(World, view, calls) BY ViewFacts
<1>2. Go(NewView(page, NoAccount), calls) BY DEF Replace
<1> QED BY <1>1, <1>2, NoAccountOK, PlainPages, SameBrokerOK, LeaveStep

LEMMA ReplaceSettingsOK ==
    ASSUME IInv, UNCHANGED <<scenario, server, relier, user, broker, asked, submits>>, prefill' \in Emails \cup {"none"},
           Replace("settings", NoAccount)
    PROVE  IInv'
<1>1. World' = World /\ WorldOK(World') /\ Onward(World, World') BY SameWorld
<1>2. RestOK' /\ CallsOK(World, view, calls) BY ViewFacts
<1> DEFINE v == NewView("settings", NoAccount)
<1>3. /\ ViewShape(v) /\ v.page = "settings" /\ v.account = NoAccount /\ ~v.shown /\ ~v.done /\ v.from = "none"
      /\ v.complete = "none"
  BY NewViewFields
<1>4. Go(v, calls) BY DEF Replace
<1> HIDE DEF v
<1>5. ViewOK(World, v)
  BY <1>3, NoAccountOK, EasyView DEF Waiting, ConfirmPages, PermissionPages, CodePages
<1> QED BY <1>1, <1>2, <1>3, <1>4, <1>5, GoStep

LEMMA RelierNamed ==
    ASSUME IInv, "force_auth" \in {scenario.action, view.page, view.from}
    PROVE  relier.email # "none"
  BY IInvParts, ScenarioFacts, WorldFields DEF RelierOK, ViewOK, ViewHas

LEMMA ShowIndexOK ==
    ASSUME IInv, NEW s \in Slots, ShowIndex(s) \/ ShowOAuthIndex(s)
    PROVE  IInv'
<1>1. UNCHANGED <<scenario, server, relier, broker, asked, submits>> BY DEF ShowIndex, ShowOAuthIndex, Opening
<1>2. UserOK(World, user) /\ prefill \in Emails \cup {"none"} /\ scenario \in Scenarios BY IInvParts DEF RestOK
<1>3. CASE ShowIndex(s)
  <2>1. user' = user /\ view.page = "index" BY <1>3 DEF ShowIndex, Opening
  <2>2. scenario.action \in {"none", "email", "signin", "signup", "force_auth"} BY <1>2, ScenarioFacts
  <2>3. \/ Replace("cannot_create_account", NoAccount) /\ UNCHANGED prefill
        \/ /\ Replace(scenario.action, NoAccount) /\ UNCHANGED prefill
           /\ scenario.action \in {"signin", "signup", "force_auth"}
        \/ ChooseEmailActionPage(s)
        \/ Replace(IndexPage, NoAccount) /\ UNCHANGED prefill
    BY <1>3, <2>2 DEF ShowIndex
  <2>4. CASE Replace("cannot_create_account", NoAccount) /\ UNCHANGED prefill BY <1>1, <1>2, <2>1, <2>4, ReplaceOK
  <2>5. CASE /\ Replace(scenario.action, NoAccount) /\ UNCHANGED prefill
             /\ scenario.action \in {"signin", "signup", "force_auth"}
    BY <1>1, <1>2, <2>1, <2>5, ReplaceOK, RelierNamed
  <2>6. CASE ChooseEmailActionPage(s) BY <1>1, <2>1, <2>6, ChooseEmailOK
  <2>7. CASE Replace(IndexPage, NoAccount) /\ UNCHANGED prefill
    <3>1. IndexPage = "settings" \/ IndexPage = "signup" BY DEF IndexPage
    <3>2. CASE IndexPage = "settings" BY <1>1, <1>2, <2>1, <2>7, <3>2, ReplaceSettingsOK
    <3>3. CASE IndexPage = "signup" BY <1>1, <1>2, <2>1, <2>7, <3>3, ReplaceOK
    <3> QED BY <3>1, <3>2, <3>3
  <2> QED BY <2>3, <2>4, <2>5, <2>6, <2>7
<1>4. CASE ShowOAuthIndex(s)
  <2>1. view.page = "oauth_index" BY <1>4 DEF ShowOAuthIndex, Opening
  <2>2. CASE scenario.action = "email"
    <3>1. ChooseEmailActionPage(s) /\ UNCHANGED user BY <1>4, <2>2 DEF ShowOAuthIndex
    <3> QED BY <1>1, <2>1, <3>1, ChooseEmailOK
  <2>3. CASE scenario.action # "email"
    <3>1. /\ Replace(OAuthPage, NoAccount) /\ UNCHANGED prefill
          /\ user' = IF relier.email = "none" THEN user ELSE CheckEmail(user, relier.email)
      BY <1>4, <2>3 DEF ShowOAuthIndex
    <3>2. OAuthPage \in {"signin", "signup"} BY DEF OAuthPage
    <3>3. UserOK(World, user') /\ user'.signedIn \in {user.signedIn, NoAccount} BY <1>2, <3>1, CheckOK
    <3> QED BY <1>1, <1>2, <3>1, <3>2, <3>3, ReplaceOK
  <2> QED BY <2>2, <2>3
<1> QED BY <1>3, <1>4

LEMMA ShowFormOK ==
    ASSUME IInv, ShowSignIn \/ ShowSignUp \/ ShowPassword
    PROVE  IInv'
<1>1. UNCHANGED <<scenario, server, relier, user, broker, asked, submits, prefill>>
  BY DEF ShowSignIn, ShowSignUp, ShowPassword, Opening
<1>2. RestOK' /\ BrokerOK(World, broker') /\ Follows(broker', broker) BY <1>1, ViewFacts, SameBrokerOK
<1>3. view.page \in {"signin", "signup", "signin_password", "signup_password"}
  BY DEF ShowSignIn, ShowSignUp, ShowPassword, Opening
<1>4. view.page \notin DonePages \cup Waiting \cup CodePages \cup ConfirmPages
  BY <1>3 DEF DonePages, SettingsPages, Waiting, CodePages, ConfirmPages, PermissionPages
<1>5. ASSUME Shown, UNCHANGED calls, view.page \in {"signin_password", "signup_password"} => view.account.email # "none",
             user.tooYoung => view.page \notin {"signup", "signup_password"}
      PROVE  IInv'
  <2>1. /\ DOMAIN view' = DOMAIN view /\ view'.account = view.account /\ view'.shown \in BOOLEAN
        /\ \A f \in DOMAIN view \ {"account", "shown", "error"} : view'[f] = view[f]
    BY <1>5, ViewFacts, ShownFields
  <2>2. view.page # "signin_unblock" BY <1>3
  <2> QED BY <1>1, <1>2, <1>4, <1>5, <2>1, <2>2, ViewFacts, ShowStep
<1>6. ASSUME NEW page \in {"index", "cannot_create_account"}, Replace(page, NoAccount)
      PROVE  IInv'
  BY <1>1, <1>6, ViewFacts, ReplaceOK
<1>7. CASE ShowSignIn
  <2>1. CASE BackToEmailFirst BY <1>6, <1>7, <2>1 DEF ShowSignIn
  <2>2. CASE ~BackToEmailFirst
    <3>1. /\ view' = [view EXCEPT !.shown = TRUE, !.account = SuggestedAccount] /\ UNCHANGED calls
          /\ view.page = "signin"
      BY <1>7, <2>2 DEF ShowSignIn, Opening
    <3>2. Good(World, SuggestedAccount) /\ (SuggestedAccount.keys => Agreed(World, SuggestedAccount.uid))
      BY ChooserOK, NoAccountOK DEF SuggestedAccount
    <3>3. /\ DOMAIN view' = DOMAIN view /\ view'.account = SuggestedAccount /\ view'.shown \in BOOLEAN
          /\ \A f \in DOMAIN view \ {"account", "shown", "error"} : view'[f] = view[f]
      BY <3>1, ViewFacts DEF ViewOK, ViewShape
    <3> QED BY <1>1, <1>2, <1>4, <3>1, <3>2, <3>3, ViewFacts, ShowStep
  <2> QED BY <2>1, <2>2
<1>8. CASE ShowSignUp
  <2>1. view.page = "signup" BY <1>8 DEF ShowSignUp, Opening
  <2>2. \/ Replace("cannot_create_account", NoAccount) \/ Replace("index", NoAccount)
        \/ Shown /\ UNCHANGED calls /\ ~user.tooYoung
    BY <1>8 DEF ShowSignUp
  <2> QED BY <1>5, <1>6, <2>1, <2>2
<1>9. CASE ShowPassword
  <2>1. view.page \in {"signin_password", "signup_password"} BY <1>9 DEF ShowPassword, Opening
  <2>2. \/ Replace("cannot_create_account", NoAccount) \/ Replace("index", NoAccount)
        \/ Shown /\ UNCHANGED calls /\ view.account.email # "none" /\ ~(view.page = "signup_password" /\ user.tooYoung)
    BY <1>9 DEF ShowPassword
  <2> QED BY <1>5, <1>6, <2>1, <2>2
<1> QED BY <1>7, <1>8, <1>9

LEMMA ShowForceAuthOK ==
    ASSUME IInv, ShowForceAuth
    PROVE  IInv'
<1> DEFINE u == IF UidExists THEN user ELSE RemoveAccount(user, relier.uid)
<1>1. /\ UNCHANGED <<scenario, server, relier, asked, submits, prefill>> /\ view.page = "force_auth"
      /\ user' = CheckEmail(u, relier.email)
      /\ \/ NavigateToForceSignUp(InitAccount(relier.email), calls)
         \/ /\ \E error : view' = [view EXCEPT !.shown = TRUE, !.error = error]
            /\ UNCHANGED <<broker, calls>>
  BY DEF ShowForceAuth, Opening
<1>2. UserOK(World, u) /\ u.tooYoung = user.tooYoung /\ u.signedIn \in {user.signedIn, NoAccount}
  BY ViewFacts, RemoveOK
<1> HIDE DEF u
<1>3. UserOK(World, user') /\ user'.tooYoung = user.tooYoung /\ user'.signedIn \in {user.signedIn, NoAccount}
  <2>1. user' = CheckEmail(u, relier.email) BY <1>1
  <2> DEFINE r == CheckEmail(u, relier.email)
  <2>2. UserOK(World, r) /\ r.tooYoung = u.tooYoung /\ r.signedIn \in {u.signedIn, NoAccount} BY <1>2, CheckOK
  <2> HIDE DEF r
  <2> QED BY <1>2, <2>1, <2>2 DEF r
<1>4. RestOK' BY <1>1, ViewFacts
<1>5. CASE NavigateToForceSignUp(InitAccount(relier.email), calls)
  <2>1. InitAccount(relier.email).email \in Emails \cup {"none"} BY ViewFacts, InitAccountOK
  <2> QED BY <1>1, <1>3, <1>4, <1>5, <2>1, ViewFacts, NavigateToForceSignUpOK
<1>6. ASSUME NEW error, view' = [view EXCEPT !.shown = TRUE, !.error = error], UNCHANGED <<broker, calls>>
      PROVE  IInv'
  <2>1. view.page \notin DonePages \cup Waiting \cup CodePages \cup ConfirmPages
        /\ view.page \notin {"signin_password", "signup_password", "signin_unblock", "signup"}
    BY <1>1 DEF DonePages, SettingsPages, Waiting, CodePages, ConfirmPages, PermissionPages
  <2>2. /\ DOMAIN view' = DOMAIN view /\ view'.account = view.account /\ view'.shown \in BOOLEAN
        /\ \A f \in DOMAIN view \ {"account", "shown", "error"} : view'[f] = view[f]
    BY <1>6, ViewFacts DEF ViewOK, ViewShape
  <2>3. BrokerOK(World, broker') /\ Follows(broker', broker) BY <1>6, SameBrokerOK
  <2> QED BY <1>1, <1>3, <1>4, <1>6, <2>1, <2>2, <2>3, ViewFacts, ShowStep
<1> QED BY <1>1, <1>5, <1>6

\* The browser is told of the account before the link is waited for.
LEMMA ShowConfirmOK ==
    ASSUME IInv, ShowConfirm
    PROVE  IInv'
<1> DEFINE a == view.account
           b == NotifyIframe(broker, "signup_must_verify", a)
<1>1. /\ UNCHANGED <<scenario, server, relier, user, asked, submits, prefill, calls>> /\ view.page \in ConfirmPages
      /\ broker' = NotifyRelierOfLogin(b, a) /\ Shown
  BY DEF ShowConfirm, Opening, BeforeSignUpConfirmationPoll, ConfirmPages
<1>2. "signup_must_verify" \in Commands \ {"LOGIN"} BY DEF Commands
<1>3. AccountIsSent(a) /\ BrokerOK(World, broker) BY ViewFacts, AccountFields, IInvParts DEF Good
<1>4. BrokerOK(World, b) /\ Follows(b, broker) BY <1>2, <1>3, NotifyIframeOK
<1> HIDE DEF b
<1>5. /\ BrokerOK(World, broker') /\ Follows(broker', b)
      /\ Syncs(World) /\ a.keys /\ a.session # 0 /\ a.uid # "none" => Has(broker', a.uid)
  BY <1>1, <1>3, <1>4, ViewFacts, NotifyRelierOK
<1>6. Follows(broker', broker) BY <1>4, <1>5 DEF Follows
<1>7. a.session # 0 /\ a.uid # "none" BY <1>1, ViewFacts DEF ViewOK, ViewHas, Waiting, Good, Holds
<1>8. view.page \notin DonePages \cup CodePages \cup {"signin_password", "signup_password", "signin_unblock", "signup"}
  BY <1>1 DEF DonePages, SettingsPages, CodePages, ConfirmPages
<1>9. /\ DOMAIN view' = DOMAIN view /\ view'.account = view.account /\ view'.shown \in BOOLEAN
      /\ \A f \in DOMAIN view \ {"account", "shown", "error"} : view'[f] = view[f]
  BY <1>1, ViewFacts, ShownFields
<1> QED BY <1>1, <1>5, <1>6, <1>7, <1>8, <1>9, ViewFacts, ShowStep

LEMMA ShowOtherOK ==
    ASSUME IInv, ShowOther
    PROVE  IInv'
<1>1. /\ UNCHANGED <<scenario, server, relier, user, broker, asked, submits, prefill, calls>> /\ Shown
      /\ view.page \in PermissionPages \cup {"signin_unblock", "signin_bounced", "choose_what_to_sync"}
  BY DEF ShowOther, Opening, PermissionPages
<1>2. view.page \notin DonePages \cup CodePages \cup ConfirmPages
      /\ view.page \notin {"signin_password", "signup_password", "signup"}
  BY <1>1 DEF DonePages, SettingsPages, CodePages, ConfirmPages, PermissionPages
<1>3. /\ DOMAIN view' = DOMAIN view /\ view'.account = view.account /\ view'.shown \in BOOLEAN
      /\ \A f \in DOMAIN view \ {"account", "shown", "error"} : view'[f] = view[f]
  BY <1>1, ViewFacts, ShownFields
<1>4. view.page = "signin_unblock" => view.account.email # "none" BY ViewFacts DEF ViewOK, ViewHas
<1>5. BrokerOK(World, broker') /\ Follows(broker', broker) BY <1>1, SameBrokerOK
<1> QED BY <1>1, <1>2, <1>3, <1>4, <1>5, ViewFacts, ShowStep

LEMMA ShowCodeOK ==
    ASSUME IInv, ShowCode
    PROVE  IInv'
<1> DEFINE a == IF view.account.email = "none" THEN user.signedIn ELSE view.account
<1>1. /\ UNCHANGED <<scenario, server, relier, user, broker, asked, submits, prefill>> /\ view.page \in CodePages
      /\ \/ Replace(GetAuthPage(view.from), NoAccount)
         \/ view' = [view EXCEPT !.shown = TRUE, !.account = a] /\ UNCHANGED calls
  BY DEF ShowCode, Opening, CodePages
<1>2. CASE Replace(GetAuthPage(view.from), NoAccount)
  <2>1. GetAuthPage(view.from) \in {"signin", "force_auth"}
        /\ (GetAuthPage(view.from) = "force_auth" => view.from = "force_auth")
    BY DEF GetAuthPage
  <2> QED BY <1>1, <1>2, <2>1, ViewFacts, RelierNamed, ReplaceOK
<1>3. CASE view' = [view EXCEPT !.shown = TRUE, !.account = a] /\ UNCHANGED calls
  <2>1. Syncs(World) => Kept(World, view.account) /\ Kept(World, user.signedIn)
    BY <1>1, IInvParts, WorldFields DEF ViewOK, ViewKeys, KeysOK
  <2>2. Good(World, a) /\ (a.keys => Agreed(World, a.uid)) /\ (Syncs(World) => Kept(World, a))
    BY <2>1, ViewFacts
  <2> HIDE DEF a
  <2>3. /\ DOMAIN view' = DOMAIN view /\ view'.account = a /\ view'.shown \in BOOLEAN
        /\ \A f \in DOMAIN view \ {"account", "shown", "error"} : view'[f] = view[f]
    BY <1>3, ViewFacts DEF ViewOK, ViewShape
  <2>4. view.page \notin DonePages \cup Waiting \cup ConfirmPages
        /\ view.page \notin {"signin_password", "signup_password", "signup", "signin_unblock"}
    BY <1>1 DEF DonePages, SettingsPages, CodePages, ConfirmPages, Waiting, PermissionPages
  <2>5. BrokerOK(World, broker') /\ Follows(broker', broker) /\ RestOK' BY <1>1, ViewFacts, SameBrokerOK
  <2> QED BY <1>1, <1>3, <2>2, <2>3, <2>4, <2>5, ViewFacts, ShowStep
<1> QED BY <1>1, <1>2, <1>3

-----------------------------------------------------------------------------
(***************************************************************************)
(* The settings.                                                           *)
(***************************************************************************)
\* The same session of the same account.
LEMMA SignedInSame ==
    ASSUME NEW w, NEW a, SignedInOK(w, a), NEW b, b.uid = a.uid, b.keys = a.keys, b.session \in {0, a.session}
    PROVE  SignedInOK(w, b)
  BY DEF SignedInOK, Kept, Carried

LEMMA SettingsUserOK ==
    ASSUME IInv
    PROVE  LET u == SettingsUser
           IN  UserOK(World, u) /\ u.tooYoung = user.tooYoung /\ SignedInOK(World, u.signedIn)
<1>1. UserOK(World, user) /\ KeysOK(World) BY IInvParts
<1>2. SignedInOK(World, user.signedIn) BY <1>1, WorldFields DEF KeysOK, SignedInOK
<1>3. CASE relier.uid \in {"none", user.signedIn.uid} BY <1>1, <1>2, <1>3 DEF SettingsUser
<1>4. CASE relier.uid \notin {"none", user.signedIn.uid}
  <2> DEFINE a == IF relier.uid \in Uids THEN user.stored[relier.uid] ELSE NoAccount
             u == [user EXCEPT !.signedIn = a]
  <2>1. Good(World, a) /\ ~a.keys /\ a.uid \in {"none", relier.uid} BY <1>1, NoAccountOK DEF UserOK
  <2>2. SettingsUser = u BY <1>4 DEF SettingsUser
  <2>3. Syncs(World) => Kept(World, a)
    <3> SUFFICES ASSUME Syncs(World), a.session # 0 PROVE Carried(World, a) BY DEF Kept
    <3>1. a.uid = relier.uid BY <2>1 DEF Good, Holds
    <3> QED BY <1>1, <1>4, <3>1, WorldFields DEF KeysOK, Carried
  <2> HIDE DEF a
  <2>4. /\ DOMAIN u = DOMAIN user /\ u.signedIn = a /\ u.stored = user.stored /\ u.tooYoung = user.tooYoung
    BY <1>1 DEF UserOK
  <2> HIDE DEF u
  <2>5. UserOK(World, u) BY <1>1, <2>1, <2>4 DEF UserOK
  <2> QED BY <2>1, <2>2, <2>3, <2>4, <2>5 DEF SignedInOK
<1> QED BY <1>3, <1>4

LEMMA RefreshedOK ==
    ASSUME IInv, NEW a, Good(World, a), Live(a.session)
    PROVE  LET b == Refreshed(a)
           IN  /\ Good(World, b) /\ b.uid = a.uid /\ b.keys = a.keys /\ b.session = a.session /\ b.email = a.email
               /\ b.verified = server.sessions[a.session].verified /\ b.uid # "none" /\ b.session # 0
<1> DEFINE verified == server.sessions[a.session].verified
           b == [a EXCEPT !.verified = verified, !.reason = IF verified THEN @ ELSE StatusReason(a.uid)]
<1>1. a.session # 0 /\ a.uid # "none" BY DEF Live, Good, Holds
<1>2. verified \in BOOLEAN
  <2>1. server.sessions[a.session] \in Session BY <1>1, IInvParts, WorldFields DEF Good, Holds, ServerOK
  <2> QED BY <2>1 DEF Session
<1>3. StatusReason(a.uid) \in {"signup", "login"} BY DEF StatusReason
<1> HIDE DEF verified
<1>4. /\ b \in AccountType /\ b.uid = a.uid /\ b.keys = a.keys /\ b.session = a.session /\ b.email = a.email
      /\ b.orig = a.orig /\ b.verified = verified
  BY <1>2, <1>3 DEF Good, AccountOK, AccountType
<1>5. Refreshed(a) = b BY DEF Refreshed, verified
<1> HIDE DEF b
<1>6. Good(World, b) BY <1>4 DEF Good, AccountOK, Holds
<1> QED BY <1>1, <1>4, <1>5, <1>6 DEF verified

\* The screens of a confirmation.
LEMMA ConfirmViewOK ==
    ASSUME NEW w, NEW a, Good(w, a), a.keys => Agreed(w, a.uid), a.session # 0, Syncs(w) => Kept(w, a),
           NEW page \in ConfirmPages \cup CodePages \cup {"signin_code"}, page \in CodePages /\ Syncs(w) => Made(w)
    PROVE  ViewOK(w, NewView(page, a)) /\ ~NewView(page, a).shown
<1> DEFINE v == NewView(page, a)
<1>1. /\ ViewShape(v) /\ v.page = page /\ v.account = a /\ ~v.shown /\ ~v.done /\ v.from = "none" /\ v.complete = "none"
  BY NewViewFields
<1> HIDE DEF v
<1>2. page \notin PermissionPages \cup SettingsPages \cup {"signin_unblock", "force_auth", "choose_what_to_sync"}
  BY DEF PermissionPages, SettingsPages, ConfirmPages, CodePages
<1>3. ViewHas(w, v) BY <1>1, <1>2 DEF ViewHas, PermissionPages
<1>4. ViewVerified(w, v) BY <1>1, <1>2 DEF ViewVerified
<1>5. ViewKeys(w, v) /\ ViewUser(w, v) BY <1>1, <1>2 DEF ViewKeys, ViewUser, PermissionPages
<1> QED BY <1>1, <1>3, <1>4, <1>5 DEF ViewOK, v

LEMMA ShowSettingsOK ==
    ASSUME IInv, ShowSettings
    PROVE  IInv'
<1> DEFINE u == SettingsUser
           account == u.signedIn
           known == Refreshed(account)
           x == World'
<1>1. /\ UNCHANGED <<scenario, server, relier, broker, asked, submits, prefill>> /\ view.page \in SettingsPages
      /\ \/ /\ Live(account.session) /\ known.verified
            /\ user' = StoreSignedIn(u, known)
            /\ view' = [view EXCEPT !.shown = TRUE,
                                      !.done = view.complete = "end" /\ view.account.session = known.session]
            /\ UNCHANGED calls
         \/ /\ Live(account.session) /\ ~known.verified
            /\ user' = StoreSignedIn(u, known)
            /\ Replace(TargetScreen(known), known)
         \/ /\ ~Live(account.session)
            /\ user' = IF account.uid = "none" THEN u ELSE StoreSignedIn(u, [account EXCEPT !.session = 0])
            /\ Go([NewView(ReAuthPage, NoAccount) EXCEPT !.redirectTo = view.page], calls)
  BY DEF ShowSettings, Opening
<1>2. UserOK(World, u) /\ u.tooYoung = user.tooYoung /\ SignedInOK(World, account) BY SettingsUserOK
<1>3. Good(World, account) BY <1>2 DEF UserOK
<1>4. RestOK' BY <1>1, ViewFacts
<1>5. BrokerOK(World, broker') /\ Follows(broker', broker) /\ World' = Meanwhile(broker')
  BY <1>1, SameBrokerOK, NextWorld
<1>6. \A a : SignedInOK(World, a) => SignedInOK(x, a)
  BY <1>1, WorldFields DEF SignedInOK, Agreed, Linking, Syncs, Made, Kept, Carried
<1>7. /\ x.scenario = scenario /\ x.server = server /\ x.relier = relier /\ x.user = user' /\ x.broker = broker
      /\ x.asked = asked
      /\ World.scenario = scenario /\ World.server = server /\ World.relier = relier /\ World.user = user
      /\ World.broker = broker
  BY <1>1, WorldFields
<1> HIDE DEF u, x
<1>8. ASSUME Live(account.session), user' = StoreSignedIn(u, known)
      PROVE  /\ WorldOK(x) /\ Onward(World, x) /\ StayVerified(World, x)
             /\ Good(x, known) /\ (known.keys => Agreed(x, known.uid)) /\ SignedInOK(x, known)
             /\ user'.signedIn = known /\ user'.tooYoung = user.tooYoung
             /\ known.session # 0 /\ known.verified = server.sessions[known.session].verified
  <2>1. /\ Good(World, known) /\ known.uid = account.uid /\ known.keys = account.keys
        /\ known.session = account.session /\ known.uid # "none" /\ known.session # 0
        /\ known.verified = server.sessions[known.session].verified
    BY <1>3, <1>8, RefreshedOK
  <2> HIDE DEF known
  <2>2. SignedInOK(x, known)
    <3>1. SignedInOK(World, known) BY <1>2, <2>1, SignedInSame
    <3> QED BY <1>6, <3>1
  <2>3. UserOK(World, user') /\ user'.signedIn = known /\ user'.tooYoung = user.tooYoung
    BY <1>2, <1>8, <2>1, StoredBy
  <2>4. SignedInOK(Meanwhile(broker'), user'.signedIn) BY <1>5, <2>2, <2>3 DEF x
  <2>5. WorldOK(x) /\ Onward(World, x) /\ StayVerified(World, x) BY <1>1, <1>5, <2>3, <2>4, UserStep DEF x
  <2>6. Good(x, known) BY <2>1, <2>5, AccountStays
  <2> QED BY <2>1, <2>2, <2>3, <2>5, <2>6 DEF SignedInOK
<1>9. CASE /\ Live(account.session) /\ known.verified
           /\ user' = StoreSignedIn(u, known)
           /\ view' = [view EXCEPT !.shown = TRUE,
                                     !.done = view.complete = "end" /\ view.account.session = known.session]
           /\ UNCHANGED calls
  <2>1. /\ WorldOK(x) /\ Onward(World, x) /\ StayVerified(World, x) /\ user'.signedIn = known
        /\ user'.tooYoung = user.tooYoung
        /\ known.session # 0 /\ known.verified = server.sessions[known.session].verified
    BY <1>8, <1>9
  <2>2. Verified(x, known) BY <1>7, <1>9, <2>1 DEF Verified
  <2> HIDE DEF known
  <2> DEFINE done == view.complete = "end" /\ view.account.session = known.session
  <2>3. /\ DOMAIN view' = DOMAIN view /\ view'.page = view.page /\ view'.account = view.account /\ view'.shown = TRUE
        /\ view'.ask = view.ask /\ view'.done = done /\ view'.redirectTo = view.redirectTo /\ view'.from = view.from
        /\ view'.complete = view.complete
    BY <1>9, ViewFacts DEF ViewOK, ViewShape
  <2>4. done \in BOOLEAN OBVIOUS
  <2>5. done => view.complete = "end" /\ view.account.session = known.session OBVIOUS
  <2> HIDE DEF done
  <2>6. ViewUser(x, view)
    <3>1. view.page \notin {"signup", "signup_password"} BY <1>1 DEF SettingsPages
    <3> QED BY <1>7, <2>1, <2>2, <3>1 DEF ViewUser
  <2>7. ViewOK(x, view) BY <2>1, <2>6, ViewFacts, ViewStays
  <2>8. ViewShape(view') BY <2>3, <2>4, <2>7 DEF ViewOK, ViewShape
  <2>9. view.page \in DonePages /\ view.page \notin Waiting \cup CodePages
        /\ view.page \notin {"signin_password", "signup_password", "signin_unblock", "signup", "force_auth"}
    BY <1>1 DEF DonePages, SettingsPages, Waiting, ConfirmPages, PermissionPages, CodePages
  <2>10. ViewHas(x, view') BY <1>1, <2>3, <2>5, <2>7, <2>9 DEF ViewOK, ViewHas, Waiting, PermissionPages
  <2>11. done => Verified(x, view.account) /\ view.account.session # 0 BY <2>1, <2>2, <2>5 DEF Verified
  <2>12. ViewVerified(x, view') BY <2>3, <2>9, <2>11 DEF ViewVerified, Waiting
  <2>13. ViewKeys(x, view') BY <1>1, <2>3, <2>5, <2>7, <2>9, <2>11 DEF ViewOK, ViewKeys, Waiting
  <2>14. ViewUser(x, view') BY <1>7, <2>1, <2>2, <2>3, <2>9 DEF ViewUser
  <2>15. ViewOK(x, view') BY <2>8, <2>10, <2>12, <2>13, <2>14 DEF ViewOK
  <2>16. CallsOK(x, view', calls')
    <3>1. \A s \in Slots : ~calls[s].here BY <1>1, ViewFacts DEF CallsOK, HereOK
    <3>2. CallsOK(x, view, calls) BY <2>1, ViewFacts, CallsStay
    <3> QED BY <1>9, <3>1, <3>2 DEF CallsOK, HereOK
  <2> QED BY <1>4, <2>1, <2>15, <2>16, StayStep DEF x
<1>10. CASE /\ Live(account.session) /\ ~known.verified
            /\ user' = StoreSignedIn(u, known)
            /\ Replace(TargetScreen(known), known)
  <2>1. /\ WorldOK(x) /\ Onward(World, x)
        /\ Good(x, known) /\ (known.keys => Agreed(x, known.uid)) /\ SignedInOK(x, known)
        /\ known.session # 0 /\ known.verified = server.sessions[known.session].verified
    BY <1>8, <1>10
  <2> HIDE DEF known
  <2>2. Syncs(x) => Made(x)
    <3>1. known.session \in DOMAIN x.server.sessions BY <2>1 DEF Good, Holds
    <3> QED BY <1>7, <1>10, <2>1, <3>1 DEF WorldOK, KeysOK
  <2>3. Syncs(x) => Kept(x, known) BY <2>1, <2>2 DEF SignedInOK
  <2> DEFINE page == TargetScreen(known)
  <2>4. page \in ConfirmPages \cup {"signin_code"} BY DEF TargetScreen, ConfirmPages
  <2>5. Go(NewView(page, known), calls) BY <1>10 DEF Replace
  <2> HIDE DEF page
  <2>6. ViewOK(x, NewView(page, known)) /\ ~NewView(page, known).shown BY <2>1, <2>2, <2>3, <2>4, ConfirmViewOK
  <2> QED BY <1>4, <2>1, <2>5, <2>6, ViewFacts, GoStep DEF x
<1>11. CASE /\ ~Live(account.session)
            /\ user' = IF account.uid = "none" THEN u ELSE StoreSignedIn(u, [account EXCEPT !.session = 0])
            /\ Go([NewView(ReAuthPage, NoAccount) EXCEPT !.redirectTo = view.page], calls)
  <2> DEFINE a == [account EXCEPT !.session = 0]
  <2>1. /\ Good(World, a) /\ a.uid = account.uid /\ a.keys = account.keys /\ a.session = 0
    <3>1. a \in AccountType /\ a.uid = account.uid /\ a.email = account.email /\ a.orig = account.orig
          /\ a.keys = account.keys /\ a.session = 0
      BY <1>3 DEF Good, AccountOK, AccountType
    <3> QED BY <1>3, <3>1 DEF Good, AccountOK, Holds
  <2> HIDE DEF a
  <2>2. UserOK(World, user') /\ (user'.signedIn = account \/ user'.signedIn = a)
    <3>1. CASE account.uid = "none" BY <1>2, <1>11, <3>1
    <3>2. CASE account.uid # "none"
      <4>1. user' = StoreSignedIn(u, a) BY <1>11, <3>2 DEF a
      <4> QED BY <1>2, <2>1, <3>2, <4>1, StoredBy
    <3> QED BY <3>1, <3>2
  <2>3. SignedInOK(World, account) /\ SignedInOK(World, a) BY <1>2, <2>1, SignedInSame
  <2>4. SignedInOK(Meanwhile(broker'), user'.signedIn) BY <1>5, <1>6, <2>2, <2>3 DEF x
  <2>5. WorldOK(x) /\ Onward(World, x) BY <1>1, <1>5, <2>2, <2>4, UserStep DEF x
  <2> DEFINE n == NewView(ReAuthPage, NoAccount)
             v == [n EXCEPT !.redirectTo = view.page]
  <2>6. ReAuthPage \in {"signin", "force_auth"} /\ (ReAuthPage = "force_auth" => x.relier.email # "none")
    BY <1>7 DEF ReAuthPage
  <2>7. DOMAIN n = {"page", "account", "shown", "ask", "from", "complete", "error", "password", "redirectTo", "done"}
    BY DEF NewView
  <2>8. Go(v, calls) BY <1>11
  <2>9. v.redirectTo = view.page /\ DOMAIN v = DOMAIN n /\ \A f \in DOMAIN v \ {"error", "redirectTo"} : v[f] = n[f]
    BY <2>7
  <2> HIDE DEF v
  <2>10. v.redirectTo \in Redirects BY <1>1, <2>9 DEF Redirects
  <2>11. ViewOK(x, v) /\ ~v.shown BY <2>6, <2>9, <2>10, NoAccountOK, PlainPages, PlainView
  <2> QED BY <1>4, <2>5, <2>8, <2>11, ViewFacts, GoStep DEF x
<1> QED BY <1>1, <1>9, <1>10, <1>11

-----------------------------------------------------------------------------
(***************************************************************************)
(* The answers that sign in.                                               *)
(***************************************************************************)
LEMMA SuccessStep ==
    ASSUME IInv, RestOK', scenario' = scenario, NEW s \in Slots, NEW a, NEW name \in Ends, NEW page \in Redirects,
           OnSignInSuccess(s, a, name, page),
           NEW w, w = Meanwhile(broker), WorldOK(w), Onward(World, w),
           Good(w, a), a.session # 0, a.keys => Agreed(w, a.uid), Syncs(w) => a.keys /\ Made(w),
           a.verified => Verified(w, a) /\ StayVerified(World, w) /\ ViewUser(w, view)
    PROVE  IInv'
<1>0. w.scenario = scenario /\ w.relier = relier /\ w.broker = broker BY WorldFields
<1>1. CASE a.verified
  <2> DEFINE b == RedirectTo(name, page)
             x == Meanwhile(b)
  <2>1. relier' = RelierOf(a) /\ InvokeBrokerMethod(s, b, name, a) BY <1>1 DEF OnSignInSuccess
  <2>2. BrokerOK(w, b) /\ Follows(b, broker)
    <3>1. BrokerOK(w, broker) BY <1>0 DEF WorldOK
    <3>2. CASE page = "none" BY <3>1, <3>2 DEF RedirectTo, Follows
    <3>3. CASE page # "none"
      <4>1. page \in DonePages BY <3>3 DEF Redirects, DonePages
      <4>2. Ends0(Navigate(page)) BY <4>1 DEF Ends0
      <4> QED BY <3>1, <3>3, <4>2, SetOK DEF RedirectTo
    <3> QED BY <3>2, <3>3
  <2> HIDE DEF b
  <2>3. /\ x.scenario = w.scenario /\ x.server = w.server /\ x.user = w.user /\ x.asked = w.asked
        /\ x.relier = w.relier /\ x.broker = b
    BY WorldFields
  <2> HIDE DEF x
  <2>4. RelierOK(x) BY <2>3 DEF WorldOK, RelierOK
  <2>5. WorldOK(x) /\ Onward(w, x) /\ StayVerified(w, x) BY <1>0, <2>2, <2>3, <2>4, RelierStep
  <2>6. Onward(World, x) /\ StayVerified(World, x) BY <1>1, <2>5, OnwardAgain
  <2>7. ViewUser(x, view) BY <1>1, <2>3, <2>5, AccountStays DEF ViewUser, Verified
  <2>8. MayEnd(x, b, name, a)
    <3>1. Good(x, a) /\ (a.keys => Agreed(x, a.uid)) /\ Verified(x, a) /\ Syncs(x) = Syncs(w)
      BY <1>1, <2>5, AccountStays
    <3>2. name \notin Polls \cup {"afterSignUp", "afterCompleteSignInWithCode"} BY DEF Ends, Polls
    <3> QED BY <3>1, <3>2 DEF MayEnd, Kept, Carried, Polls
  <2>9. name \in BrokerMethods BY DEF BrokerMethods
  <2> QED BY <2>1, <2>5, <2>6, <2>7, <2>8, <2>9, InvokeStep DEF x
<1>2. CASE ~a.verified
  <2>1. Go(NewView(ConfirmationPage(a), a), Over(s)) /\ UNCHANGED <<relier, broker>> BY <1>2 DEF OnSignInSuccess
  <2>2. World' = w BY <2>1, NextWorld
  <2>3. ConfirmationPage(a) \in ConfirmPages \cup CodePages \cup {"signin_code"}
    BY DEF ConfirmationPage, ConfirmPages, CodePages
  <2>4. Syncs(w) => Kept(w, a) BY DEF Kept, Carried
  <2>5. ViewOK(w, NewView(ConfirmationPage(a), a)) /\ ~NewView(ConfirmationPage(a), a).shown
    BY <2>3, <2>4, ConfirmViewOK
  <2>6. CallsOK(World, view, Over(s)) BY IInvParts, OverOK
  <2> QED BY <2>1, <2>2, <2>5, <2>6, GoStep
<1> QED BY <1>1, <1>2

\* Whoever signs in is stored; w is the world once that is done.
LEMMA SignedStep ==
    ASSUME IInv, UNCHANGED <<scenario, submits, asked>>, NEW s \in Slots, NEW a, SignedIn(s, a),
           calls[s].op \in {"signIn", "cached"},
           NEW w, w = Meanwhile(broker), ServerOK(w), Onward(World, w),
           Good(w, a), a.session # 0, a.keys => Agreed(w, a.uid), Syncs(w) => a.keys /\ Made(w),
           a.verified => Verified(w, a) /\ StayVerified(World, w)
    PROVE  IInv'
<1> DEFINE c == calls[s]
           u == SignInAccount(user, a)
           m == u.signedIn
<1>1. /\ user' = u /\ prefill' = "none"
      /\ IF scenario.permissions
         THEN /\ Go([NewView("signin_permissions", m) EXCEPT !.complete = c.complete, !.redirectTo = c.redirectTo],
                    Over(s))
              /\ UNCHANGED <<relier, broker>>
         ELSE OnSignInSuccess(s, m, c.complete, c.redirectTo)
  BY DEF SignedIn
<1>2. c.complete \in Ends /\ c.redirectTo \in Redirects BY IInvParts DEF CallOK, CallShape
<1>3. RestOK' BY <1>1, IInvParts DEF RestOK
<1>4. a.uid # "none" BY DEF Good, Holds
<1>5. UserOK(w, user) BY UserStays, IInvParts
<1>6. /\ UserOK(w, u) /\ u.tooYoung = user.tooYoung
      /\ m.uid = a.uid /\ m.session = a.session /\ m.keys = a.keys /\ m.verified = a.verified
  BY <1>4, <1>5, SignInAccountOK
<1> HIDE DEF u, m, c
<1>7. m = user'.signedIn BY <1>1 DEF m
<1>8. Good(w, m) BY <1>6 DEF UserOK, m
<1>9. /\ w.scenario = scenario /\ w.user = user' /\ w.broker = broker /\ w.server = server' /\ w.relier = relier
      /\ w.asked = asked
      /\ World.scenario = scenario /\ World.user = user /\ World.broker = broker /\ World.server = server
      /\ World.relier = relier /\ World.asked = asked
  BY WorldFields
<1>10. BrokerOK(w, broker) /\ Follows(broker, broker)
  BY <1>9, IInvParts, BrokerStays DEF Follows
<1>11. KeysOK(w)
  <2>1. KeysOK(World) BY IInvParts
  <2>2. Syncs(w) = Syncs(World) BY <1>9 DEF Syncs
  <2>3. Syncs(w) => Kept(w, m) BY <1>6 DEF Kept, Carried
  <2>4. m.keys => Agreed(w, m.uid) BY <1>6
  <2> QED BY <1>7, <1>9, <2>1, <2>2, <2>3, <2>4 DEF KeysOK
<1>12. WorldOK(w)
  <2>1. asked \subseteq Recorded BY IInvParts
  <2>2. \A i \in DOMAIN server.sessions : i \in DOMAIN server'.sessions
                                            /\ server'.sessions[i].uid = server.sessions[i].uid
    BY <1>9 DEF Onward
  <2>3. Made(World) => Made(w) BY DEF Onward
  <2> QED BY <1>1, <1>6, <1>10, <1>11, <2>1, <2>2, <2>3, MeanwhileOK
<1>13. CASE scenario.permissions
  <2> DEFINE n == NewView("signin_permissions", m)
             v == [n EXCEPT !.complete = c.complete, !.redirectTo = c.redirectTo]
  <2>1. Go(v, Over(s)) /\ UNCHANGED <<relier, broker>> BY <1>1, <1>13
  <2>2. World' = w BY <2>1, NextWorld
  <2>3. /\ ViewShape(n) /\ n.page = "signin_permissions" /\ n.account = m /\ ~n.shown /\ ~n.done
        /\ n.from = "none"
    BY NewViewFields
  <2> HIDE DEF n
  <2>4. /\ ViewShape(v) /\ v.page = "signin_permissions" /\ v.account = m /\ ~v.shown /\ ~v.done
        /\ v.from = "none" /\ v.complete = c.complete
    BY <1>2, <2>3 DEF ViewShape
  <2> HIDE DEF v
  <2>5. ViewHas(w, v)
    BY <1>2, <1>6, <1>8, <2>4 DEF ViewHas, Ends, SettingsPages, PermissionPages
  <2>6. ViewVerified(w, v) BY <1>6, <2>4 DEF ViewVerified, Verified
  <2>7. ViewKeys(w, v)
    BY <1>6, <2>4 DEF ViewKeys, ConfirmPages, CodePages, SettingsPages
  <2>8. ViewUser(w, v) BY <2>4 DEF ViewUser
  <2>9. ViewOK(w, v) BY <2>4, <2>5, <2>6, <2>7, <2>8 DEF ViewOK
  <2>10. CallsOK(World, view, Over(s)) BY IInvParts, OverOK
  <2> QED BY <1>3, <1>12, <2>1, <2>2, <2>4, <2>9, <2>10, GoStep
<1>14. CASE ~scenario.permissions
  <2>1. OnSignInSuccess(s, m, c.complete, c.redirectTo) BY <1>1, <1>14
  <2>2. m.session # 0 /\ (m.keys => Agreed(w, m.uid)) /\ (Syncs(w) => m.keys /\ Made(w)) BY <1>6
  <2>3. m.verified => Verified(w, m) /\ StayVerified(World, w) /\ ViewUser(w, view)
    <3> SUFFICES ASSUME m.verified PROVE Verified(w, m) /\ StayVerified(World, w) /\ ViewUser(w, view)
      OBVIOUS
    <3>1. Verified(w, m) /\ StayVerified(World, w) BY <1>6 DEF Verified
    <3>2. ViewUser(World, view) BY IInvParts DEF ViewOK
    <3> QED BY <1>1, <1>6, <1>7, <1>9, <3>1, <3>2 DEF ViewUser
  <2> QED BY <1>2, <1>3, <1>8, <1>12, <2>1, <2>2, <2>3, SuccessStep
<1> QED BY <1>13, <1>14

LEMMA NewSessionOK ==
    ASSUME NEW uid \in Uids, NEW method \in Methods
    PROVE  NewSession(uid, method) \in Session /\ NewSession(uid, method).uid = uid
<1> DEFINE n == NewSession(uid, method)
<1>1. DOMAIN n = {"uid", "live", "verified", "second", "method", "reason"} BY DEF NewSession
<1>2. n.uid = uid /\ n.live = TRUE /\ n.verified \in BOOLEAN /\ n.second = FALSE BY DEF NewSession
<1>3. n.method \in Methods /\ n.reason \in Reasons BY DEF NewSession, Methods, Reasons
<1>4. n = [uid |-> n.uid, live |-> n.live, verified |-> n.verified, second |-> n.second, method |-> n.method,
           reason |-> n.reason]
  BY DEF NewSession
<1> HIDE DEF n
<1>5. n \in Session BY <1>2, <1>3, <1>4 DEF Session
<1> QED BY <1>2, <1>5 DEF n

\* What the client makes of a session.
LEMMA UpdatedOK ==
    ASSUME NEW w, w.scenario \in Scenarios, w.scenario = scenario, NEW c, AccountOK(c), c.email # "none",
           NEW i \in Nat \ {0}, i \in DOMAIN w.server.sessions, w.server.sessions[i] \in Session,
           w.server.sessions[i].uid = UidOf(c.email)
    PROVE  LET a == UpdatedSessionData(c, i, w.server.sessions[i])
           IN  /\ Good(w, a) /\ a.uid = UidOf(c.email) /\ a.session = i /\ (Syncs(w) => a.keys)
               /\ (a.verified <=> Verified(w, a)) /\ a.email = c.email
<1> DEFINE n == w.server.sessions[i]
           a == UpdatedSessionData(c, i, n)
<1>1. /\ n.uid \in Uids /\ n.verified \in BOOLEAN /\ n.method \in Methods /\ n.reason \in Reasons
      /\ n.uid = UidOf(c.email)
  BY DEF Session
<1>2. scenario.keys \in BOOLEAN /\ (Syncs(w) => scenario.keys) BY ScenarioFacts DEF Syncs
<1> HIDE DEF n
<1> DEFINE sync == scenario.context \in SyncContexts
           keys == scenario.keys \/ c.keys
<1>7. sync \in BOOLEAN /\ keys \in BOOLEAN /\ (scenario.keys => keys) OBVIOUS
<1>8. a = [c EXCEPT !.uid = n.uid, !.session = i, !.sync = sync, !.keys = keys, !.verified = n.verified,
                    !.method = n.method, !.reason = n.reason]
  <2>1. DOMAIN c = {"email", "uid", "session", "sync", "keys", "verified", "method", "reason", "orig"}
    BY DEF AccountOK, AccountType
  <2> QED BY <2>1 DEF UpdatedSessionData
<1> HIDE DEF sync, keys, a
<1>3. /\ a \in AccountType /\ a.uid = n.uid /\ a.session = i /\ a.keys = keys
      /\ a.verified = n.verified /\ a.email = c.email /\ a.orig = c.orig
  BY <1>1, <1>7, <1>8 DEF AccountOK, AccountType, Methods, Reasons
<1> HIDE DEF a
<1>4. AccountOK(a) BY <1>1, <1>3 DEF AccountOK, Uids
<1>5. Good(w, a) BY <1>1, <1>3, <1>4 DEF Good, Holds, n, Uids
<1>6. a.verified <=> Verified(w, a) BY <1>3 DEF Verified, n
<1> QED BY <1>1, <1>2, <1>3, <1>5, <1>6, <1>7 DEF a, n

LEMMA VerificationMethodOK == VerificationMethod \in Methods
  BY DEF VerificationMethod, Methods

LEMMA AppendedOK ==
    ASSUME IInv, NEW new \in Session, server'.sessions = Append(server.sessions, new),
           DOMAIN server' = DOMAIN server, server'.accounts \in [Uids -> Kinds], UNCHANGED <<scenario, asked>>,
           NEW w, w = Meanwhile(broker)
    PROVE  LET i == Len(server.sessions) + 1
           IN  /\ ServerOK(w) /\ Onward(World, w) /\ StayVerified(World, w) /\ Made(w)
               /\ i \in Nat \ {0} /\ i \in DOMAIN server'.sessions /\ server'.sessions[i] = new
<1> DEFINE old == server.sessions
           i == Len(old) + 1
<1>1. /\ w.scenario = scenario /\ w.server = server' /\ w.broker = broker /\ w.relier = relier /\ w.asked = asked
      /\ World.scenario = scenario /\ World.server = server /\ World.broker = broker /\ World.relier = relier
      /\ World.asked = asked
  BY WorldFields
<1>2. old \in Seq(Session) /\ DOMAIN server = {"accounts", "sessions"} /\ (scenario.cached # "none" => Len(old) > 0)
  BY <1>1, IInvParts DEF ServerOK
<1>3. /\ server'.sessions \in Seq(Session) /\ Len(server'.sessions) = i /\ server'.sessions[i] = new
      /\ \A n \in DOMAIN old : n \in DOMAIN server'.sessions /\ server'.sessions[n] = old[n]
      /\ i \in Nat \ {0} /\ i \in DOMAIN server'.sessions
  BY <1>2
<1>4. ServerOK(w) BY <1>1, <1>2, <1>3 DEF ServerOK
<1>5. Made(w) BY <1>1, <1>2, <1>3 DEF Made
<1>6. Onward(World, w) BY <1>1, <1>3, <1>5 DEF Onward, Follows
<1>7. StayVerified(World, w) BY <1>1, <1>3 DEF StayVerified
<1> QED BY <1>3, <1>4, <1>5, <1>6, <1>7

\* What a call that is requested has.
LEMMA RequestOK ==
    ASSUME IInv, NEW s \in Slots, Requested(s, {"signIn", "signUp"})
    PROVE  LET a == calls[s].account
           IN  /\ Good(World, a) /\ AccountOK(a) /\ a.email # "none" /\ UidOf(a.email) \in Uids
               /\ Agreed(World, UidOf(a.email))
               /\ Syncs(World) /\ calls[s].op = "signIn" => a.session = 0
<1> DEFINE c == calls[s]
<1>1. CallOK(World, c) BY IInvParts
<1>2. c.op \in {"signIn", "signUp"} /\ c.step = "request" BY DEF Requested
<1> HIDE DEF c
<1>3. Good(World, c.account) /\ c.account.email # "none" BY <1>1, <1>2 DEF CallOK, CallHas, Typed
<1>4. UidOf(c.account.email) \in Uids BY <1>3 DEF Good, AccountOK, AccountType, UidOf, Emails, Uids
<1>5. Agreed(World, UidOf(c.account.email)) /\ (Syncs(World) /\ c.op = "signIn" => c.account.session = 0)
  BY <1>1, <1>2 DEF CallOK, CallKeys, Asking
<1> QED BY <1>3, <1>4, <1>5 DEF Good, c

LEMMA SignInAcceptedOK ==
    ASSUME IInv, NEW s \in Slots, SignInAccepted(s)
    PROVE  IInv'
<1> DEFINE c == calls[s].account
           new == NewSession(UidOf(c.email), VerificationMethod)
           i == Len(server.sessions) + 1
           a == UpdatedSessionData(c, i, new)
           w == Meanwhile(broker)
<1>1. /\ server' = [server EXCEPT !.sessions = Append(@, new)] /\ SignedIn(s, a)
      /\ UNCHANGED <<scenario, submits, asked>> /\ Requested(s, {"signIn"})
  BY DEF SignInAccepted
<1>2. Requested(s, {"signIn", "signUp"}) /\ calls[s].op \in {"signIn", "cached"} BY <1>1 DEF Requested
<1>3. AccountOK(c) /\ c.email # "none" /\ UidOf(c.email) \in Uids /\ Agreed(World, UidOf(c.email))
  BY <1>2, RequestOK
<1>4. new \in Session /\ new.uid = UidOf(c.email) BY <1>3, NewSessionOK, VerificationMethodOK
<1> HIDE DEF new
<1>5. DOMAIN server = {"accounts", "sessions"} /\ server.accounts \in [Uids -> Kinds]
  BY IInvParts, WorldFields DEF ServerOK
<1>6. server'.sessions = Append(server.sessions, new) /\ DOMAIN server' = DOMAIN server
      /\ server'.accounts = server.accounts
  BY <1>1, <1>5
<1>7. w.scenario = scenario /\ w.server = server' /\ scenario \in Scenarios BY <1>1, IInvParts, WorldFields
<1> HIDE DEF i, w
<1>8. /\ ServerOK(w) /\ Onward(World, w) /\ StayVerified(World, w) /\ Made(w)
      /\ i \in Nat \ {0} /\ i \in DOMAIN w.server.sessions /\ w.server.sessions[i] = new
  BY <1>1, <1>4, <1>5, <1>6, <1>7, AppendedOK DEF w, i
<1>9. /\ Good(w, a) /\ a.uid = UidOf(c.email) /\ a.session = i /\ (Syncs(w) => a.keys)
      /\ (a.verified <=> Verified(w, a))
  BY <1>3, <1>4, <1>7, <1>8, UpdatedOK
<1>10. Agreed(w, a.uid)
  <2>1. Agreed(w, UidOf(c.email)) BY <1>3, <1>8, AccountStays
  <2> QED BY <1>9, <2>1
<1> HIDE DEF a, c
<1> QED BY <1>1, <1>2, <1>8, <1>9, <1>10, SignedStep DEF w

LEMMA SessionReauthOK ==
    ASSUME IInv, NEW s \in Slots, SessionReauth(s)
    PROVE  IInv'
<1> DEFINE c == calls[s].account
           i == c.session
           new == NewSession(UidOf(c.email), VerificationMethod)
           a == UpdatedSessionData(c, i, new)
           w == Meanwhile(broker)
<1>1. /\ server' = [server EXCEPT !.sessions[i] = new] /\ SignedIn(s, a)
      /\ UNCHANGED <<scenario, submits, asked>> /\ Requested(s, {"signIn"}) /\ i # 0
  BY DEF SessionReauth, Live
<1>2. Requested(s, {"signIn", "signUp"}) /\ calls[s].op \in {"signIn", "cached"} /\ calls[s].op = "signIn"
  BY <1>1 DEF Requested
<1>3. /\ Good(World, c) /\ AccountOK(c) /\ c.email # "none" /\ UidOf(c.email) \in Uids
      /\ (Syncs(World) => c.session = 0)
  BY <1>2, RequestOK
<1>4. new \in Session /\ new.uid = UidOf(c.email) BY <1>3, NewSessionOK, VerificationMethodOK
<1> HIDE DEF new
<1>5. /\ DOMAIN server = {"accounts", "sessions"} /\ server.accounts \in [Uids -> Kinds]
      /\ server.sessions \in Seq(Session) /\ (scenario.cached # "none" => Len(server.sessions) > 0)
  BY IInvParts, WorldFields DEF ServerOK
<1>6. /\ w.scenario = scenario /\ w.server = server' /\ w.broker = broker /\ w.relier = relier /\ w.asked = asked
      /\ World.scenario = scenario /\ World.server = server /\ World.broker = broker /\ World.relier = relier
      /\ World.asked = asked
      /\ scenario \in Scenarios
  BY <1>1, IInvParts, WorldFields
<1>7. i \in DOMAIN server.sessions /\ server.sessions[i].uid = UidOf(c.email)
  BY <1>1, <1>3, <1>6 DEF Good, AccountOK, Holds
<1> HIDE DEF i, w
<1>8. i \in Nat \ {0} BY <1>5, <1>7
<1>9. /\ server'.sessions \in Seq(Session) /\ Len(server'.sessions) = Len(server.sessions)
      /\ DOMAIN server'.sessions = DOMAIN server.sessions
      /\ server'.sessions[i] = new /\ server'.accounts = server.accounts /\ DOMAIN server' = DOMAIN server
      /\ \A n \in DOMAIN server.sessions : n # i => server'.sessions[n] = server.sessions[n]
  BY <1>1, <1>4, <1>5, <1>7
<1>10. ServerOK(w) BY <1>5, <1>6, <1>9 DEF ServerOK
<1>11. Onward(World, w) BY <1>4, <1>6, <1>7, <1>9 DEF Onward, Follows, Made
<1>12. /\ Good(w, a) /\ a.uid = UidOf(c.email) /\ a.session = i /\ (a.verified <=> Verified(w, a))
  BY <1>3, <1>4, <1>6, <1>7, <1>8, <1>9, UpdatedOK
<1>13. ~Syncs(w) /\ Agreed(w, a.uid) BY <1>1, <1>3, <1>6 DEF Syncs, Agreed, Linking, i
<1> HIDE DEF a, c
<1>14. a.verified => StayVerified(World, w)
  <2> SUFFICES ASSUME a.verified PROVE StayVerified(World, w) OBVIOUS
  <2>1. new.verified BY <1>6, <1>9, <1>12 DEF Verified
  <2> QED BY <1>6, <1>9, <2>1 DEF StayVerified
<1>15. a.session # 0 BY <1>8, <1>12
<1> QED BY <1>1, <1>2, <1>10, <1>11, <1>12, <1>13, <1>14, <1>15, SignedStep DEF w

LEMMA RecoveryEmailStatusOK ==
    ASSUME IInv, NEW s \in Slots, RecoveryEmailStatus(s)
    PROVE  IInv'
<1> DEFINE c == calls[s].account
           a == Refreshed(c)
           w == Meanwhile(broker)
<1>1. /\ SignedIn(s, a) /\ UNCHANGED <<scenario, server, submits, asked>> /\ Live(c.session)
      /\ calls[s].op = "cached"
  BY DEF RecoveryEmailStatus, Requested
<1>2. Good(World, c) /\ (c.keys => Agreed(World, c.uid)) /\ ~World.scenario.keys
  BY <1>1, IInvParts DEF CallOK, CallHas, CallKeys
<1>3. /\ Good(World, a) /\ a.uid = c.uid /\ a.keys = c.keys /\ a.session = c.session
      /\ a.verified = server.sessions[a.session].verified /\ a.session # 0
  BY <1>1, <1>2, RefreshedOK
<1> HIDE DEF a, c
<1>4. /\ w.scenario = scenario /\ w.server = server /\ w.broker = broker /\ w.relier = relier /\ w.asked = asked
      /\ World.scenario = scenario /\ World.server = server /\ World.broker = broker /\ World.relier = relier
      /\ World.asked = asked
      /\ scenario \in Scenarios
  BY <1>1, IInvParts, WorldFields
<1> HIDE DEF w
<1>5. Onward(World, w) /\ StayVerified(World, w) BY <1>4, OnwardSame
<1>6. ServerOK(w) BY <1>4, IInvParts DEF ServerOK
<1>7. Good(w, a) /\ (a.keys => Agreed(w, a.uid)) BY <1>2, <1>3, <1>5, AccountStays
<1>8. ~Syncs(w) BY <1>2, <1>4, ScenarioFacts DEF Syncs
<1>9. a.verified => Verified(w, a) BY <1>3, <1>4 DEF Verified
<1> QED BY <1>1, <1>3, <1>5, <1>6, <1>7, <1>8, <1>9, SignedStep DEF w

-----------------------------------------------------------------------------
(***************************************************************************)
(* The answers that sign up, and the steps that end a flow.                *)
(***************************************************************************)
LEMMA SignUpAcceptedOK ==
    ASSUME IInv, NEW s \in Slots, SignUpAccepted(s)
    PROVE  IInv'
<1> DEFINE c == calls[s].account
           new == [uid |-> UidOf(c.email), live |-> TRUE, verified |-> FALSE, second |-> FALSE,
                   method |-> "none", reason |-> "none"]
           i == Len(server.sessions) + 1
           a == UpdatedSessionData(c, i, new)
           w == Meanwhile(broker)
           next == ScreenBeforeConfirmation
<1>1. /\ server' = [accounts |-> [server.accounts EXCEPT ![UidOf(c.email)] = "unverified"],
                    sessions |-> Append(server.sessions, new)]
      /\ user' = [user EXCEPT !.stored[new.uid] = [a EXCEPT !.keys = FALSE], !.signedIn = a]
      /\ UNCHANGED <<scenario, relier, submits, asked>> /\ Requested(s, {"signIn", "signUp"})
      /\ prefill' = "none"
      /\ IF next # "none"
         THEN Go([NewView(next, a) EXCEPT !.complete = "afterSignUp"], Over(s)) /\ UNCHANGED broker
         ELSE InvokeBrokerMethod(s, broker, "afterSignUp", a)
  BY DEF SignUpAccepted, Requested
<1>2. AccountOK(c) /\ c.email # "none" /\ UidOf(c.email) \in Uids /\ Agreed(World, UidOf(c.email))
  BY <1>1, RequestOK
<1>3. new \in Session /\ new.uid = UidOf(c.email) /\ new.verified = FALSE BY <1>2 DEF Session, Methods, Reasons
<1> HIDE DEF new
<1>4. DOMAIN server = {"accounts", "sessions"} /\ server.accounts \in [Uids -> Kinds]
  BY IInvParts, WorldFields DEF ServerOK
<1>5. server'.sessions = Append(server.sessions, new) /\ DOMAIN server' = DOMAIN server
      /\ server'.accounts \in [Uids -> Kinds]
  BY <1>1, <1>4 DEF Kinds
<1>6. /\ w.scenario = scenario /\ w.server = server' /\ w.user = user' /\ w.broker = broker /\ w.relier = relier
      /\ w.asked = asked
      /\ World.scenario = scenario /\ World.user = user /\ World.broker = broker /\ World.server = server
      /\ World.relier = relier /\ World.asked = asked
      /\ scenario \in Scenarios
  BY <1>1, IInvParts, WorldFields
<1> HIDE DEF i, w, next
<1>7. /\ ServerOK(w) /\ Onward(World, w) /\ StayVerified(World, w) /\ Made(w)
      /\ i \in Nat \ {0} /\ i \in DOMAIN w.server.sessions /\ w.server.sessions[i] = new
  BY <1>1, <1>3, <1>5, <1>6, AppendedOK DEF w, i
<1>8. /\ Good(w, a) /\ a.uid = UidOf(c.email) /\ a.session = i /\ (Syncs(w) => a.keys)
      /\ (a.verified <=> Verified(w, a))
  BY <1>2, <1>3, <1>6, <1>7, UpdatedOK
<1>9. a.session # 0 /\ a.uid # "none" /\ ~a.verified
  BY <1>3, <1>7, <1>8 DEF Good, Holds, Verified
<1>10. Agreed(w, a.uid)
  <2>1. Agreed(w, UidOf(c.email)) BY <1>2, <1>7, AccountStays
  <2> QED BY <1>8, <2>1
<1>11. user' = StoreSignedIn(user, a) BY <1>1, <1>3, <1>8 DEF StoreSignedIn
<1> HIDE DEF a
<1>12. UserOK(w, user') /\ user'.signedIn = a
  <2>1. UserOK(w, user) BY <1>7, UserStays, IInvParts
  <2> QED BY <1>8, <1>9, <1>11, <2>1, StoredBy
<1>13. BrokerOK(w, broker) /\ Follows(broker, broker) BY <1>6, IInvParts, BrokerStays DEF Follows
<1>14. Syncs(w) => Kept(w, a) BY <1>8 DEF Kept, Carried
<1>15. KeysOK(w)
  <2>1. KeysOK(World) BY IInvParts
  <2>2. Syncs(w) = Syncs(World) BY <1>6 DEF Syncs
  <2> QED BY <1>6, <1>7, <1>10, <1>12, <1>14, <2>1, <2>2 DEF KeysOK
<1>16. WorldOK(w)
  <2>1. asked \subseteq Recorded BY IInvParts
  <2>2. \A n \in DOMAIN server.sessions : n \in DOMAIN server'.sessions
                                            /\ server'.sessions[n].uid = server.sessions[n].uid
    BY <1>6, <1>7 DEF Onward
  <2> QED BY <1>1, <1>7, <1>12, <1>13, <1>15, <2>1, <2>2, MeanwhileOK DEF w
<1>17. RestOK' BY <1>1, IInvParts DEF RestOK
<1>18. CASE next # "none"
  <2> DEFINE n == NewView(next, a)
             v == [n EXCEPT !.complete = "afterSignUp"]
  <2>1. Go(v, Over(s)) /\ UNCHANGED broker BY <1>1, <1>18
  <2>2. World' = w BY <1>1, <2>1, NextWorld DEF w
  <2>3. next \in {"signup_permissions", "choose_what_to_sync"} BY <1>18 DEF next, ScreenBeforeConfirmation
  <2>4. /\ ViewShape(n) /\ n.page = next /\ n.account = a /\ ~n.shown /\ ~n.done /\ n.from = "none"
    BY NewViewFields
  <2> HIDE DEF n
  <2>5. /\ ViewShape(v) /\ v.page = next /\ v.account = a /\ ~v.shown /\ ~v.done /\ v.from = "none"
        /\ v.complete = "afterSignUp"
    BY <2>4 DEF ViewShape
  <2> HIDE DEF v
  <2>6. ViewHas(w, v) BY <1>8, <1>9, <2>3, <2>5 DEF ViewHas
  <2>7. ViewVerified(w, v) BY <1>9, <2>5 DEF ViewVerified
  <2>8. ViewKeys(w, v) BY <1>7, <1>10, <1>14, <2>3, <2>5 DEF ViewKeys, ConfirmPages, SettingsPages
  <2>9. ViewUser(w, v) BY <2>5 DEF ViewUser
  <2>10. ViewOK(w, v) BY <2>5, <2>6, <2>7, <2>8, <2>9 DEF ViewOK
  <2>11. CallsOK(World, view, Over(s)) BY IInvParts, OverOK
  <2> QED BY <1>7, <1>16, <1>17, <2>1, <2>2, <2>5, <2>10, <2>11, GoStep
<1>19. CASE next = "none"
  <2>1. InvokeBrokerMethod(s, broker, "afterSignUp", a) BY <1>1, <1>19
  <2>2. Unconfirmed("afterSignUp", a) BY <1>9 DEF Unconfirmed
  <2>3. MayEnd(w, broker, "afterSignUp", a)
    BY <1>8, <1>9, <1>10, <1>14, <2>2 DEF MayEnd, Ends
  <2>4. "afterSignUp" \in BrokerMethods BY DEF BrokerMethods
  <2> QED BY <1>1, <1>7, <1>16, <1>17, <2>1, <2>2, <2>3, <2>4, InvokeStep DEF w
<1> QED BY <1>18, <1>19

\* The server finds a session verified.
LEMMA VerifiedStep ==
    ASSUME IInv, UNCHANGED <<scenario, user, asked>>, NEW i \in DOMAIN server.sessions, NEW second \in BOOLEAN,
           server' = VerifySession(i, second), NEW w, w = Meanwhile(broker)
    PROVE  WorldOK(w) /\ Onward(World, w) /\ StayVerified(World, w) /\ w.server.sessions[i].verified
<1>1. DOMAIN server = {"accounts", "sessions"} /\ server.accounts \in [Uids -> Kinds] /\ server.sessions \in Seq(Session)
  BY IInvParts, WorldFields DEF ServerOK
<1>2. server.sessions[i] \in Session BY <1>1
<1> DEFINE t == [server.sessions[i] EXCEPT !.verified = TRUE, !.second = @ \/ second]
<1>3. t \in Session /\ t.uid = server.sessions[i].uid /\ t.verified = TRUE BY <1>2 DEF Session
<1>4. /\ server'.sessions = [server.sessions EXCEPT ![i] = t]
      /\ server'.accounts = server.accounts /\ DOMAIN server' = DOMAIN server
  BY <1>1, <1>2 DEF VerifySession, Session
<1> HIDE DEF t
<1>5. server'.sessions \in Seq(Session) /\ DOMAIN server'.sessions = DOMAIN server.sessions
      /\ server'.sessions[i].verified
  BY <1>1, <1>3, <1>4
<1>6. \A j \in DOMAIN server.sessions : /\ server'.sessions[j].uid = server.sessions[j].uid
                                        /\ server.sessions[j].verified => server'.sessions[j].verified
  BY <1>3, <1>4, <1>5
<1>7. UserOK(World, user') /\ user'.signedIn = user.signedIn BY IInvParts
<1>8. w.server = server' BY WorldFields
<1> QED BY <1>1, <1>4, <1>5, <1>6, <1>7, <1>8, SessionsStep

LEMMA CodeAcceptedOK ==
    ASSUME IInv, NEW s \in Slots, CodeAccepted(s)
    PROVE  IInv'
<1> DEFINE c == calls[s]
           a == c.account
           i == a.session
           second == c.page # "signin_token_code"
           w == Meanwhile(broker)
<1>1. /\ c.op = "code" /\ c.step = "request" /\ i # 0 /\ server' = VerifySession(i, second)
      /\ UNCHANGED <<scenario, relier, user, prefill, submits, asked>>
      /\ IF c.password = "last"
         THEN Go([NewView("recovery_codes", NoAccount) EXCEPT !.from = c.page], Over(s)) /\ UNCHANGED broker
         ELSE InvokeBrokerMethod(s, broker, "afterCompleteSignInWithCode", a)
  BY DEF CodeAccepted, Requested, Live
<1>2. CallOK(World, c) /\ ViewOK(World, view) BY IInvParts
<1> HIDE DEF c
<1>3. /\ Good(World, a) /\ (a.keys => Agreed(World, a.uid)) /\ (Syncs(World) => Kept(World, a) /\ Made(World))
      /\ "force_auth" \in {c.page, c.from} => World.relier.email # "none"
  BY <1>1, <1>2 DEF CallOK, CallHas, CallKeys
<1>4. i \in DOMAIN server.sessions /\ second \in BOOLEAN BY <1>1, <1>3, WorldFields DEF Good, Holds
<1> HIDE DEF second, a, w
<1>5. WorldOK(w) /\ Onward(World, w) /\ StayVerified(World, w) /\ w.server.sessions[i].verified
  BY <1>1, <1>4, VerifiedStep DEF w
<1>6. /\ Good(w, a) /\ (a.keys => Agreed(w, a.uid)) /\ (Syncs(w) => Kept(w, a) /\ Made(w)) /\ Verified(w, a)
  BY <1>1, <1>3, <1>5, AccountStays DEF Onward, Verified
<1>7. RestOK' BY <1>1, IInvParts DEF RestOK
<1>8. CASE c.password = "last"
  <2> DEFINE n == NewView("recovery_codes", NoAccount)
             v == [n EXCEPT !.from = c.page]
  <2>1. Go(v, Over(s)) /\ World' = w BY <1>1, <1>8, NextWorld DEF w
  <2>2. /\ ViewShape(n) /\ n.page = "recovery_codes" /\ n.account = NoAccount /\ ~n.shown /\ ~n.done
        /\ n.complete = "none"
    BY NewViewFields
  <2> HIDE DEF n
  <2>3. /\ ViewShape(v) /\ v.page = "recovery_codes" /\ v.account = NoAccount /\ ~v.shown /\ ~v.done /\ v.from = c.page
        /\ v.complete = "none"
    BY <2>2 DEF ViewShape
  <2> HIDE DEF v
  <2>4. "recovery_codes" \notin Waiting \cup CodePages BY DEF Waiting, CodePages, ConfirmPages, PermissionPages
  <2>5. "force_auth" \in {v.page, v.from} => w.relier.email # "none" BY <1>3, <1>5, <2>3 DEF Onward
  <2>6. ViewOK(w, v) BY <1>6, <2>3, <2>4, <2>5, NoAccountOK, EasyView
  <2>7. CallsOK(World, view, Over(s)) BY IInvParts, OverOK
  <2> QED BY <1>5, <1>7, <2>1, <2>3, <2>6, <2>7, GoStep
<1>9. CASE c.password # "last"
  <2>1. InvokeBrokerMethod(s, broker, "afterCompleteSignInWithCode", a) BY <1>1, <1>9
  <2>2. "afterCompleteSignInWithCode" \in BrokerMethods BY DEF BrokerMethods
  <2>3. MayEnd(w, broker, "afterCompleteSignInWithCode", a) BY <1>6 DEF MayEnd, Ends
  <2>4. ViewUser(w, view)
    <3>1. Verified(World, user.signedIn) => Verified(w, user.signedIn) BY <1>5, AccountStays, IInvParts DEF UserOK
    <3>2. Syncs(w) = Syncs(World) BY <1>5, AccountStays
    <3>3. w.user = user /\ World.user = user BY <1>1, WorldFields DEF w
    <3> QED BY <1>2, <3>1, <3>2, <3>3 DEF ViewOK, ViewUser
  <2> QED BY <1>1, <1>5, <1>7, <2>1, <2>2, <2>3, <2>4, InvokeStep DEF w
<1> QED BY <1>8, <1>9

\* What is stored of the account of a screen; the world w is the one after.
LEMMA ViewStored ==
    ASSUME IInv, UNCHANGED <<scenario, server, asked>>, NEW a, Good(World, a), a.uid # "none",
           \/ user' = user
           \/ user' = [user EXCEPT !.stored[a.uid] = [a EXCEPT !.keys = FALSE]],
           NEW w, w = Meanwhile(broker)
    PROVE  /\ WorldOK(w) /\ Onward(World, w) /\ StayVerified(World, w)
           /\ ViewUser(w, view)
<1>1. ViewOK(World, view) /\ UserOK(World, user) /\ KeysOK(World) /\ ServerOK(World) /\ BrokerOK(World, broker)
      /\ RelierOK(World) /\ scenario \in Scenarios /\ asked \subseteq Recorded
  BY IInvParts
<1>2. UserOK(World, user') /\ user'.signedIn = user.signedIn /\ user'.tooYoung = user.tooYoung
  <2>1. CASE user' = user BY <1>1, <2>1
  <2>2. CASE user' = [user EXCEPT !.stored[a.uid] = [a EXCEPT !.keys = FALSE]] BY <1>1, <2>2, StoreOK
  <2> QED BY <2>1, <2>2
<1>3. /\ w.scenario = scenario /\ w.server = server /\ w.user = user' /\ w.broker = broker /\ w.relier = relier
      /\ w.asked = asked
      /\ World.scenario = scenario /\ World.user = user /\ World.broker = broker /\ World.server = server
      /\ World.relier = relier /\ World.asked = asked
  BY WorldFields
<1>4. Onward(World, w) /\ StayVerified(World, w) BY <1>3, OnwardSame
<1>5. ServerOK(w) /\ RelierOK(w) BY <1>1, <1>3 DEF ServerOK, RelierOK
<1>6. UserOK(w, user') BY <1>2, <1>4, UserStays
<1>7. BrokerOK(w, broker) BY <1>1, <1>3, BrokerStays
<1>8. KeysOK(w)
  BY <1>1, <1>2, <1>3 DEF KeysOK, Agreed, Linking, Syncs, Made, Kept, Carried
<1>9. WorldOK(w) BY <1>1, <1>3, <1>5, <1>6, <1>7, <1>8 DEF WorldOK
<1>10. ViewUser(w, view) BY <1>1, <1>2, <1>3 DEF ViewOK, ViewUser, Syncs, Verified
<1> QED BY <1>4, <1>9, <1>10

LEMMA AcceptPermissionsOK ==
    ASSUME IInv, NEW s \in Slots, AcceptPermissions(s)
    PROVE  IInv'
<1> DEFINE a == view.account
           w == Meanwhile(broker)
<1>1. /\ view.page \in PermissionPages /\ UNCHANGED <<scenario, submits, asked, server, prefill>>
      /\ user' = [user EXCEPT !.stored[a.uid] = [a EXCEPT !.keys = FALSE]]
      /\ IF view.page = "signin_permissions"
         THEN OnSignInSuccess(s, a, view.complete, view.redirectTo)
         ELSE InvokeBrokerMethod(s, broker, "afterSignUp", a) /\ UNCHANGED relier
  BY DEF AcceptPermissions, On, PermissionPages
<1>2. ViewOK(World, view) BY IInvParts
<1>3. /\ Good(World, a) /\ a.session # 0 /\ (a.keys => Agreed(World, a.uid))
      /\ (a.verified => Verified(World, a)) /\ view.redirectTo \in Redirects
      /\ Syncs(World) => Made(World)
      /\ view.page = "signin_permissions" => view.complete \in Ends /\ (Syncs(World) => a.keys)
      /\ view.page = "signup_permissions" => (Syncs(World) => Kept(World, a))
  BY <1>1, <1>2 DEF ViewOK, ViewShape, ViewHas, ViewVerified, ViewKeys, Waiting
<1>4. a.uid # "none" BY <1>3 DEF Good, Holds
<1> HIDE DEF a, w
<1>5. WorldOK(w) /\ Onward(World, w) /\ StayVerified(World, w) /\ ViewUser(w, view)
  BY <1>1, <1>3, <1>4, ViewStored DEF w
<1>6. /\ Good(w, a) /\ (a.keys => Agreed(w, a.uid)) /\ (a.verified => Verified(w, a)) /\ Syncs(w) = Syncs(World)
      /\ (Kept(World, a) => Kept(w, a)) /\ (Made(World) => Made(w))
  BY <1>3, <1>5, AccountStays DEF Onward
<1>7. RestOK' BY <1>1, IInvParts DEF RestOK
<1>8. CASE view.page = "signin_permissions"
  <2>1. OnSignInSuccess(s, a, view.complete, view.redirectTo) BY <1>1, <1>8
  <2> QED BY <1>1, <1>3, <1>5, <1>6, <1>7, <1>8, <2>1, SuccessStep DEF w
<1>9. CASE view.page # "signin_permissions"
  <2>1. InvokeBrokerMethod(s, broker, "afterSignUp", a) /\ UNCHANGED relier BY <1>1, <1>9
  <2>2. view.page = "signup_permissions" BY <1>1, <1>9 DEF PermissionPages
  <2>3. "afterSignUp" \in BrokerMethods BY DEF BrokerMethods
  <2>4. MayEnd(w, broker, "afterSignUp", a) BY <1>3, <1>6, <2>2 DEF MayEnd, Ends, Unconfirmed
  <2> QED BY <1>1, <1>5, <1>7, <2>1, <2>3, <2>4, InvokeStep DEF w
<1> QED BY <1>8, <1>9

\* The same account, as the server knows it.
LEMMA VerifiedAs ==
    ASSUME NEW w, NEW a, Good(w, a), NEW verified \in BOOLEAN
    PROVE  LET b == [a EXCEPT !.verified = verified]
           IN  /\ Good(w, b) /\ b.uid = a.uid /\ b.session = a.session /\ b.keys = a.keys /\ b.verified = verified
               /\ [b EXCEPT !.keys = FALSE] = [[a EXCEPT !.verified = verified] EXCEPT !.keys = FALSE]
<1> DEFINE b == [a EXCEPT !.verified = verified]
<1>1. /\ b \in AccountType /\ b.uid = a.uid /\ b.session = a.session /\ b.keys = a.keys /\ b.verified = verified
      /\ b.email = a.email /\ b.orig = a.orig
  BY DEF Good, AccountOK, AccountType
<1> HIDE DEF b
<1>2. Good(w, b) BY <1>1 DEF Good, AccountOK, Holds
<1> QED BY <1>1, <1>2 DEF b

LEMMA ChooseWhatToSyncOK ==
    ASSUME IInv, NEW s \in Slots, ChooseWhatToSync(s)
    PROVE  IInv'
<1> DEFINE v == view.account
           verified == server.sessions[v.session].verified
           a == [v EXCEPT !.verified = verified]
           w == Meanwhile(broker)
<1>1. /\ view.page = "choose_what_to_sync" /\ UNCHANGED <<scenario, submits, asked, relier, server, user, prefill>>
      /\ InvokeBrokerMethod(s, broker, "afterSignUp", a)
  BY DEF ChooseWhatToSync, On
<1>2. ViewOK(World, view) BY IInvParts
<1>3. /\ Good(World, v) /\ v.session # 0 /\ (v.keys => Agreed(World, v.uid)) /\ (Syncs(World) => Kept(World, v))
  BY <1>1, <1>2 DEF ViewOK, ViewHas, ViewKeys, Waiting
<1>4. verified \in BOOLEAN
  <2>1. server.sessions[v.session] \in Session BY <1>3, IInvParts, WorldFields DEF Good, Holds, ServerOK
  <2> QED BY <2>1 DEF Session
<1> HIDE DEF verified, v
<1>5. Good(World, a) /\ a.uid = v.uid /\ a.session = v.session /\ a.keys = v.keys /\ a.verified = verified
  BY <1>3, <1>4, VerifiedAs
<1> HIDE DEF a, w
<1>6. a.uid # "none" BY <1>3, <1>5 DEF Good, Holds
<1>7. WorldOK(w) /\ Onward(World, w) /\ StayVerified(World, w) /\ ViewUser(w, view)
  BY <1>1, <1>5, <1>6, ViewStored DEF w
<1>8. Kept(World, a) = Kept(World, v) /\ Agreed(World, a.uid) = Agreed(World, v.uid) BY <1>5 DEF Kept, Carried
<1>9. /\ Good(w, a) /\ (a.keys => Agreed(w, a.uid)) /\ Syncs(w) = Syncs(World) /\ (Syncs(w) => Kept(w, a))
  BY <1>3, <1>5, <1>7, <1>8, AccountStays
<1>10. a.verified => Verified(w, a)
  <2>1. w.server = server BY <1>1, WorldFields DEF w
  <2> QED BY <1>3, <1>5, <2>1 DEF Verified, verified
<1>11. MayEnd(w, broker, "afterSignUp", a) BY <1>3, <1>5, <1>9, <1>10 DEF MayEnd, Ends, Unconfirmed
<1>12. "afterSignUp" \in BrokerMethods BY DEF BrokerMethods
<1>13. RestOK' BY <1>1, IInvParts DEF RestOK
<1> QED BY <1>1, <1>7, <1>11, <1>12, <1>13, InvokeStep DEF w

LEMMA GotoNextScreenOK ==
    ASSUME IInv, NEW s \in Slots, GotoNextScreen(s)
    PROVE  IInv'
<1> DEFINE v == view.account
           a == [v EXCEPT !.verified = TRUE]
           name == IF view.page = "confirm" THEN "afterSignUpConfirmationPoll" ELSE "afterSignInConfirmationPoll"
           w == Meanwhile(broker)
<1>1. /\ view.page \in ConfirmPages /\ view.shown /\ UNCHANGED <<scenario, submits, asked, relier, server, prefill>>
      /\ user' = [user EXCEPT !.stored[a.uid] = [a EXCEPT !.keys = FALSE]]
      /\ InvokeBrokerMethod(s, broker, name, a) /\ server.sessions[v.session].verified
  BY DEF GotoNextScreen, On, ConfirmPages
<1>2. ViewOK(World, view) BY IInvParts
<1>3. /\ Good(World, v) /\ v.session # 0 /\ (v.keys => Agreed(World, v.uid))
      /\ (Syncs(World) => Kept(World, v) /\ (Has(broker, v.uid) \/ ~v.keys))
  BY <1>1, <1>2, WorldFields DEF ViewOK, ViewHas, ViewKeys, Waiting
<1>4. name \in Polls BY DEF Polls
<1> HIDE DEF v, name
<1>5. Good(World, a) /\ a.uid = v.uid /\ a.session = v.session /\ a.keys = v.keys BY <1>3, VerifiedAs
<1> HIDE DEF a, w
<1>6. a.uid # "none" BY <1>3, <1>5 DEF Good, Holds
<1>7. WorldOK(w) /\ Onward(World, w) /\ StayVerified(World, w) /\ ViewUser(w, view)
  BY <1>1, <1>5, <1>6, ViewStored DEF w
<1>8. Kept(World, a) = Kept(World, v) /\ Agreed(World, a.uid) = Agreed(World, v.uid) BY <1>5 DEF Kept, Carried
<1>9. /\ Good(w, a) /\ (a.keys => Agreed(w, a.uid)) /\ Syncs(w) = Syncs(World) /\ (Syncs(w) => Kept(w, a))
  BY <1>3, <1>5, <1>7, <1>8, AccountStays
<1>10. Verified(w, a)
  <2>1. w.server = server BY <1>1, WorldFields DEF w
  <2> QED BY <1>1, <1>3, <1>5, <2>1 DEF Verified
<1>11. MayEnd(w, broker, name, a) BY <1>3, <1>4, <1>5, <1>9, <1>10 DEF MayEnd, Ends, Polls
<1>12. name \in BrokerMethods BY <1>4 DEF BrokerMethods
<1>13. RestOK' BY <1>1, IInvParts DEF RestOK
<1> QED BY <1>1, <1>7, <1>11, <1>12, <1>13, InvokeStep DEF w

LEMMA ReturnFromRecoveryCodesOK ==
    ASSUME IInv, NEW s \in Slots, ReturnFromRecoveryCodes(s)
    PROVE  IInv'
<1> DEFINE a == user.signedIn
           name == "afterCompleteSignInWithCode"
           w == Meanwhile(broker)
<1>1. /\ view.page = "recovery_codes" /\ view.shown /\ view.from = "signin_recovery_code"
      /\ UNCHANGED <<scenario, submits, asked, relier, server, user, prefill>>
      /\ InvokeBrokerMethod(s, broker, name, a)
  BY DEF ReturnFromRecoveryCodes, On
<1>2. ViewOK(World, view) /\ UserOK(World, user) /\ KeysOK(World) BY IInvParts
<1>3. /\ Good(World, a) /\ (a.keys => Agreed(World, a.uid)) /\ (Syncs(World) => Kept(World, a) /\ Verified(World, a))
  BY <1>1, <1>2, WorldFields DEF ViewOK, ViewKeys, ViewUser, UserOK, KeysOK
<1> HIDE DEF a, w
<1>4. UserOK(World, user') BY <1>1, <1>2
<1>5. /\ BrokerOK(World, broker) /\ Follows(broker, broker) BY IInvParts DEF Follows
<1>6. WorldOK(w) /\ Onward(World, w) /\ StayVerified(World, w)
  BY <1>1, <1>4, <1>5, UserStep DEF w
<1>7. /\ Good(w, a) /\ (a.keys => Agreed(w, a.uid)) /\ Syncs(w) = Syncs(World)
      /\ (Syncs(w) => Kept(w, a) /\ Verified(w, a))
  BY <1>3, <1>6, AccountStays
<1>8. ViewUser(w, view)
  <2>1. w.user = user /\ World.user = user BY <1>1, WorldFields DEF w
  <2>2. view.page \notin {"signup", "signup_password"} BY <1>1
  <2> QED BY <1>7, <2>1, <2>2 DEF ViewUser, a
<1>9. MayEnd(w, broker, name, a) BY <1>7 DEF MayEnd, Ends
<1>10. name \in BrokerMethods BY DEF BrokerMethods
<1>11. RestOK' BY <1>1, IInvParts DEF RestOK
<1> QED BY <1>1, <1>6, <1>8, <1>9, <1>10, <1>11, InvokeStep DEF w

-----------------------------------------------------------------------------
(***************************************************************************)
(* The first state.                                                        *)
(***************************************************************************)
LEMMA NewBrokerOK ==
    ASSUME NEW w, w.scenario.context \in Contexts, w.asked = {}
    PROVE  LET b == NewBroker(w.scenario.context, w.scenario.browser)
           IN  BrokerOK(w, b)
<1> DEFINE c == w.scenario.context
           browser == w.scenario.browser
           b == NewBroker(c, browser)
           fetched == Fetch(c, DefaultCapabilities(c), browser)
           caps == CASE c = "fx_desktop_v3" -> FetchDesktop(fetched, browser)
                     [] c = "fx_ios_v1"     -> InitializeIos(fetched, browser)
                     [] OTHER               -> fetched
           behaviors == FetchFirstrun(c, browser)
<1>1. c \in SyncContexts => "reuseExistingSession" \notin DefaultCapabilities(c)
  BY DEF SyncContexts, DefaultCapabilities, DesktopCapabilities, FennecCapabilities, FirstrunV1Capabilities,
         FirstrunV2Capabilities, IosCapabilities, WebChannelCapabilities, ChannelCapabilities, BaseCapabilities
<1>2. c \in SyncContexts => "reuseExistingSession" \notin fetched BY <1>1 DEF Fetch, OnFxaStatus
<1> HIDE DEF fetched
<1>3. c \in SyncContexts => "reuseExistingSession" \notin caps BY <1>2 DEF FetchDesktop, InitializeIos
<1>4. /\ DOMAIN behaviors \subseteq {"afterSignIn"}
      /\ \A name \in DOMAIN behaviors : behaviors[name] = Halt
  BY DEF FetchFirstrun
<1>5. b = [context |-> c, caps |-> caps, behaviors |-> behaviors, canLink |-> "none", told |-> "none", sent |-> <<>>]
  BY DEF NewBroker, fetched
<1> HIDE DEF caps, behaviors
<1>6. /\ DOMAIN b = {"context", "caps", "behaviors", "canLink", "told", "sent"}
      /\ b.context = c /\ b.caps = caps /\ b.behaviors = behaviors /\ b.canLink = "none" /\ b.told = "none"
      /\ b.sent = <<>>
  BY <1>5
<1>7. b.sent \in Seq(Sent) /\ DOMAIN b.sent = {} BY <1>6
<1> HIDE DEF b
<1>8. \A name \in DOMAIN b.behaviors \cap Ends : Ends0(b.behaviors[name]) BY <1>4, <1>6 DEF Ends0
<1>9. BrokerShape(w, b)
  BY <1>3, <1>4, <1>6, <1>7, <1>8 DEF BrokerShape, Ends
<1>10. LinksAgreed(w, b) BY <1>6, <1>7 DEF LinksAgreed
<1> QED BY <1>6, <1>9, <1>10 DEF BrokerOK, b

LEMMA InitOK == Init => IInv
<1> SUFFICES ASSUME Init PROVE IInv OBVIOUS
<1> DEFINE w == World
           first == [uid |-> "a", live |-> scenario.cached = "live", verified |-> TRUE, second |-> FALSE,
                     method |-> "none", reason |-> "none"]
           account == IF scenario.cached = "none" THEN NoAccount ELSE CachedAccount
<1>1. /\ w.scenario = scenario /\ w.server = server /\ w.user = user /\ w.broker = broker /\ w.relier = relier
      /\ w.asked = asked
  BY WorldFields
<1>2. scenario \in Scenarios BY DEF Init
<1>3. /\ scenario.context \in Contexts /\ scenario.email \in Emails \cup {"none"}
      /\ scenario.uid \in Uids \cup {"none", "stale"} /\ scenario.accounts \in [Uids -> Kinds]
      /\ scenario.redirectTo \in Redirects
      /\ scenario.page \in {"index", "oauth_index", "signin", "signup", "force_auth"}
      /\ scenario.page = "force_auth" => scenario.email # "none"
  BY <1>2, ScenarioFacts
<1>4. /\ relier = [email |-> scenario.email, uid |-> scenario.uid]
      /\ server = [accounts |-> scenario.accounts,
                   sessions |-> IF scenario.cached = "none" THEN <<>> ELSE <<first>>]
      /\ user = [stored |-> [x \in Uids |-> IF x = account.uid THEN account ELSE NoAccount],
                 signedIn |-> account, tooYoung |-> FALSE]
      /\ broker = NewBroker(scenario.context, scenario.browser)
      /\ view = [NewView(scenario.page, NoAccount) EXCEPT !.redirectTo = scenario.redirectTo]
      /\ prefill = "none" /\ calls = [s \in Slots |-> NoCall] /\ submits = 0 /\ asked = {}
  BY DEF Init
<1> HIDE DEF w
<1>5. first \in Session /\ first.uid = "a" /\ first.verified = TRUE
  <2>1. (scenario.cached = "live") \in BOOLEAN OBVIOUS
  <2> QED BY <2>1 DEF Session, Methods, Reasons, Uids
<1> HIDE DEF first
<1>6. /\ server.sessions \in Seq(Session)
      /\ scenario.cached = "none" => Len(server.sessions) = 0
      /\ scenario.cached # "none" => Len(server.sessions) = 1 /\ server.sessions[1] = first
                                       /\ DOMAIN server.sessions = {1}
  BY <1>4, <1>5
<1>7. ServerOK(w) BY <1>1, <1>3, <1>4, <1>6 DEF ServerOK
<1>8. Good(w, account) /\ ~account.keys /\ account.uid \in {"none", "a"}
  <2>1. CASE scenario.cached = "none" BY <2>1, NoAccountOK
  <2>2. CASE scenario.cached # "none"
    <3>1. /\ CachedAccount \in AccountType /\ CachedAccount.uid = "a" /\ CachedAccount.email = "a"
          /\ CachedAccount.session = 1 /\ CachedAccount.orig = "none" /\ ~CachedAccount.keys
      BY DEF CachedAccount, InitAccount, AccountType, Emails, Uids
    <3>2. AccountOK(CachedAccount) BY <3>1 DEF AccountOK, UidOf
    <3>3. Holds(w, CachedAccount) BY <1>1, <1>5, <1>6, <2>2, <3>1 DEF Holds
    <3> QED BY <2>2, <3>1, <3>2, <3>3 DEF Good
  <2> QED BY <2>1, <2>2
<1> HIDE DEF account
<1>9. /\ DOMAIN user = {"stored", "signedIn", "tooYoung"} /\ DOMAIN user.stored = Uids /\ user.tooYoung = FALSE
      /\ user.signedIn = account /\ \A x \in Uids : user.stored[x] \in {account, NoAccount}
      /\ \A x \in Uids : user.stored[x].uid \in {"none", x}
  BY <1>4, NoAccountOK
<1>10. UserOK(w, user) BY <1>8, <1>9, NoAccountOK DEF UserOK
<1>11. DOMAIN relier = {"email", "uid"} /\ relier.email = scenario.email /\ relier.uid = scenario.uid BY <1>4
<1>12. RelierOK(w) BY <1>1, <1>3, <1>11 DEF RelierOK
<1>13. BrokerOK(w, broker) BY <1>1, <1>3, <1>4, NewBrokerOK
<1>14. ~Made(w)
  <2>1. CASE scenario.cached = "none" BY <1>1, <1>6, <2>1 DEF Made
  <2>2. CASE scenario.cached # "none"
    <3>1. Len(w.server.sessions) = 1 BY <1>1, <1>6, <2>2
    <3>2. Made(w) => Len(w.server.sessions) > 1 BY <1>1, <2>2 DEF Made
    <3> QED BY <3>1, <3>2
  <2> QED BY <2>1, <2>2
<1>15. \A i \in DOMAIN server.sessions : server.sessions[i].verified BY <1>5, <1>6
<1>16. KeysOK(w) BY <1>1, <1>8, <1>9, <1>11, <1>14, <1>15 DEF KeysOK
<1>17. WorldOK(w) BY <1>1, <1>2, <1>4, <1>7, <1>10, <1>12, <1>13, <1>16 DEF WorldOK
<1>18. ViewOK(w, view)
  <2> DEFINE n == NewView(scenario.page, NoAccount)
  <2>1. DOMAIN n = {"page", "account", "shown", "ask", "from", "complete", "error", "password", "redirectTo", "done"}
    BY DEF NewView
  <2> HIDE DEF n
  <2>2. /\ DOMAIN view = DOMAIN n /\ view.redirectTo \in Redirects
        /\ \A f \in DOMAIN view \ {"error", "redirectTo"} : view[f] = n[f]
    BY <1>3, <1>4, <2>1 DEF n
  <2>3. scenario.page \notin Waiting \cup CodePages \cup SettingsPages /\ scenario.page # "signin_unblock"
    BY <1>3 DEF Waiting, ConfirmPages, PermissionPages, CodePages, SettingsPages
  <2>4. scenario.page = "force_auth" => w.relier.email # "none" BY <1>1, <1>3, <1>11
  <2> QED BY <2>2, <2>3, <2>4, NoAccountOK, PlainView DEF n
<1>19. CallsOK(w, view, calls) BY <1>4, NoCallOK DEF CallsOK, HereOK
<1>20. RestOK BY <1>4, SignInFlowAssumption DEF RestOK
<1> QED BY <1>17, <1>18, <1>19, <1>20 DEF IInv, w

-----------------------------------------------------------------------------
(***************************************************************************)
(* Every step keeps the invariant.                                         *)
(***************************************************************************)
LEMMA ReplyOK == ASSUME IInv, NEW s \in Slots, Reply(s) PROVE IInv'
  BY SignInAcceptedOK, SessionReauthOK, SessionReauthRefusedOK, OtherCaseStep, SendUnblockEmailOK, SignInRefusedOK,
     RecoveryEmailStatusOK, CachedSessionFailsOK, SignUpAcceptedOK, AccountAlreadyExistsOK, EmailCheckedOK,
     CodeAcceptedOK, FinishOAuthFlowOK
     DEF Reply

LEMMA ShowOK == ASSUME IInv, NEW s \in Slots, Show(s) PROVE IInv'
  BY ShowIndexOK, ShowFormOK, ShowForceAuthOK, ShowConfirmOK, ShowCodeOK, ShowSettingsOK, ShowOtherOK DEF Show

LEMMA UserActsOK == ASSUME IInv, NEW s \in Slots, UserActs(s) PROVE IInv'
  BY SubmitFormOK, SubmitSignInOK, SubmitTooYoungOK, SubmitCodeOK, AcceptPermissionsOK, ChooseWhatToSyncOK,
     FollowLinkOK, GotoNextScreenOK, ContinueOK, ReturnFromRecoveryCodesOK, FollowPageLinkOK,
     UseDifferentAccountOK, CreateAccountOK, SignOutOK
     DEF UserActs

LEMMA NextOK == IInv /\ [Next]_vars => IInv'
<1> SUFFICES ASSUME IInv, [Next]_vars PROVE IInv' OBVIOUS
<1>1. CASE UNCHANGED vars
  <2>1. UNCHANGED <<scenario, relier, server, user, broker, view, prefill, calls, submits, asked>>
    BY <1>1 DEF vars
  <2>2. World' = World BY <2>1 DEF World
  <2> QED BY <2>1, <2>2 DEF IInv, RestOK
<1>2. ASSUME NEW s \in Slots, NEW answer \in Answers, Answer(s, answer) PROVE IInv' BY <1>2, AnswerOK
<1>3. ASSUME NEW s \in Slots, Reply(s) \/ Show(s) \/ UserActs(s) PROVE IInv' BY <1>3, ReplyOK, ShowOK, UserActsOK
<1> QED BY <1>1, <1>2, <1>3 DEF Next

LEMMA Invariance == Spec => []IInv
  BY InitOK, NextOK, PTL DEF Spec

\* What the browser is told it may link was agreed to, or it was asked about in
\* vain after it had agreed to another, for every scenario.
THEOREM LinksAreAgreed == Spec => []LoginIsAgreed
<1>1. IInv => LoginIsAgreed
  <2> SUFFICES ASSUME IInv, scenario.asks, NEW i \in DOMAIN broker.sent, broker.sent[i].command = "LOGIN",
                      broker.sent[i].canLink
               PROVE  \/ \E e \in Emails : UidOf(e) = broker.sent[i].uid /\ <<e, "agreed">> \in asked
                      \/ /\ \E e \in Emails : UidOf(e) = broker.sent[i].uid /\ <<e, "failed">> \in asked
                         /\ \E e \in Emails : <<e, "agreed">> \in asked
    BY DEF LoginIsAgreed
  <2>1. BrokerShape(World, broker) /\ LinksAgreed(World, broker) BY IInvParts DEF BrokerOK
  <2>2. World.scenario = scenario /\ World.asked = asked BY WorldFields
  <2>3. Linking(World) BY <2>1, <2>2 DEF BrokerShape, Linking, Syncs
  <2>4. AgreedOnce(World) /\ \E p \in asked : UidOf(p[1]) = broker.sent[i].uid
    BY <2>1, <2>2, <2>3 DEF LinksAgreed, Agreed
  <2>5. \A p \in asked : p[1] \in Emails /\ p = <<p[1], p[2]>> /\ p[2] \in {"agreed", "failed"}
    BY IInvParts DEF Recorded
  <2> QED BY <2>2, <2>4, <2>5 DEF AgreedOnce
<1> QED BY <1>1, Invariance, PTL

\* Whatever the scenario, a flow ends with a session the server verified, and
\* with the keys in the browser that syncs.
THEOREM EndsAreVerified == Spec => []FlowEndsVerified
<1>1. ASSUME IInv PROVE TypeOK
  <2>1. /\ UserOK(World, user) /\ ViewOK(World, view) /\ asked \subseteq Recorded /\ RestOK
        /\ \A s \in Slots : CallOK(World, calls[s])
    BY <1>1, IInvParts
  <2>2. \A a : Good(World, a) => /\ a \in AccountType
                                 /\ a.session # 0 => a.session \in DOMAIN server.sessions
                                                       /\ server.sessions[a.session].uid = a.uid
    BY WorldFields DEF Good, AccountOK, Holds
  <2>3. \A x \in Uids : user.stored[x] \in AccountType BY <2>1, <2>2 DEF UserOK
  <2>4. Good(World, user.signedIn) /\ user.tooYoung \in BOOLEAN BY <2>1 DEF UserOK
  <2>5. Good(World, view.account) /\ view.shown \in BOOLEAN /\ view.done \in BOOLEAN
    BY <2>1 DEF ViewOK, ViewShape, ViewHas
  <2>6. \A s \in Slots : calls[s].account \in AccountType /\ calls[s].step \in {"none", "ask", "request", "failed"}
    BY <2>1, <2>2 DEF CallOK, CallShape, CallHas
  <2> QED BY <2>1, <2>2, <2>3, <2>4, <2>5, <2>6 DEF TypeOK, RestOK, Recorded
<1>2. ASSUME IInv PROVE VerifiedBeforeTheEnd /\ BrowserHasTheKeys
  <2>1. ViewVerified(World, view) /\ ViewKeys(World, view) BY <1>2, IInvParts DEF ViewOK
  <2>2. World.scenario = scenario /\ World.server = server /\ World.broker = broker BY WorldFields
  <2>3. VerifiedBeforeTheEnd BY <2>1, <2>2 DEF VerifiedBeforeTheEnd, ViewVerified, Verified
  <2>4. BrowserHasTheKeys BY <2>1, <2>2 DEF BrowserHasTheKeys, HasKeysOf, ViewKeys, Syncs, Reported, Has
  <2> QED BY <2>3, <2>4
<1> QED BY <1>1, <1>2, Invariance, PTL DEF FlowEndsVerified

-----------------------------------------------------------------------------
(***************************************************************************)
(* Which step signs up.                                                    *)
(***************************************************************************)
\* No call signs up that did not before.
NoneMore(cs) ==
    DOMAIN cs = Slots /\ \A x \in Slots : "op" \in DOMAIN cs[x] /\ (cs[x].op = "signUp" => calls[x].op = "signUp")

LEMMA SameNone ==
    ASSUME CallsOK(World, view, calls)
    PROVE  /\ NoneMore(calls)
           /\ \A s \in Slots : NoneMore(Over(s))
           /\ \A s \in Slots : \A c : "op" \in DOMAIN c /\ (c.op = "signUp" => calls[s].op = "signUp")
                                          => NoneMore([calls EXCEPT ![s] = c])
<1>1. NoCall.op = "none" /\ "op" \in DOMAIN NoCall BY DEF NoCall
<1>2. \A x \in Slots : "op" \in DOMAIN calls[x] BY DEF CallsOK, CallOK, CallShape
<1> QED BY <1>1, <1>2 DEF CallsOK, NoneMore, Over

LEMMA GoNone == ASSUME NEW v, NEW cs, Go(v, cs), NoneMore(cs) PROVE NoneMore(calls')
<1>1. calls' = [s \in Slots |-> [cs[s] EXCEPT !.here = FALSE]] BY DEF Go, Left
<1>2. ASSUME NEW s \in Slots PROVE calls'[s].op = cs[s].op /\ "op" \in DOMAIN calls'[s]
  <2> DEFINE c == cs[s]
             d == [c EXCEPT !.here = FALSE]
  <2>1. calls'[s] = d BY <1>1
  <2>2. "op" \in DOMAIN c BY DEF NoneMore
  <2> HIDE DEF c
  <2>3. DOMAIN d = DOMAIN c /\ d.op = c.op BY <2>2
  <2> QED BY <2>1, <2>2, <2>3 DEF c
<1> QED BY <1>1, <1>2 DEF NoneMore

LEMMA InvokeNone ==
    ASSUME CallsOK(World, view, calls), NEW s \in Slots, NEW b, NEW name, NEW a, InvokeBrokerMethod(s, b, name, a)
    PROVE  NoneMore(calls')
<1>1. NoneMore(Over(s)) BY SameNone
<1>2. ASSUME NEW e, GoBehavior(e, a, Over(s)) PROVE NoneMore(calls')
  <2>1. \/ calls' = Over(s)
        \/ \E v : Go(v, Over(s))
    BY <1>2 DEF GoBehavior
  <2> QED BY <1>1, <2>1, GoNone
<1>3. CASE b.context \in OAuthContexts
  <2>1. \/ \E e : GoBehavior(e, a, Over(s))
        \/ \E v : Go(v, Over(s))
        \/ \E n : calls' = [calls EXCEPT ![s].op = "finish", ![s].step = "request", ![s].account = a, ![s].complete = n]
    BY <1>3 DEF InvokeBrokerMethod, InvokeOAuth
  <2>2. ASSUME NEW n,
               calls' = [calls EXCEPT ![s].op = "finish", ![s].step = "request", ![s].account = a, ![s].complete = n]
        PROVE  NoneMore(calls')
    <3> DEFINE c == calls[s]
               d == [c EXCEPT !.op = "finish", !.step = "request", !.account = a, !.complete = n]
    <3>1. calls' = [calls EXCEPT ![s] = d] BY <2>2 DEF CallsOK
    <3>2. DOMAIN c = DOMAIN d /\ "op" \in DOMAIN c BY DEF CallsOK, CallOK, CallShape
    <3> HIDE DEF c
    <3>3. d.op = "finish" BY <3>2
    <3> HIDE DEF d
    <3> QED BY <3>1, <3>2, <3>3, SameNone
  <2> QED BY <1>1, <1>2, <2>1, <2>2, GoNone
<1>4. CASE b.context \notin OAuthContexts
  <2>1. GoBehavior(Invoke(b, name, a)[2], a, Over(s)) BY <1>4 DEF InvokeBrokerMethod
  <2> QED BY <1>2, <2>1
<1> QED BY <1>3, <1>4

LEMMA SignedInNone ==
    ASSUME CallsOK(World, view, calls), NEW s \in Slots, NEW a,
           \/ SignedIn(s, a)
           \/ \E name, page : OnSignInSuccess(s, a, name, page)
    PROVE  NoneMore(calls')
<1>1. NoneMore(Over(s)) BY SameNone
<1>2. ASSUME NEW m, NEW name, NEW page, OnSignInSuccess(s, m, name, page) PROVE NoneMore(calls')
  <2>1. \/ \E b : InvokeBrokerMethod(s, b, name, m)
        \/ \E v : Go(v, Over(s))
    BY <1>2 DEF OnSignInSuccess
  <2> QED BY <1>1, <2>1, GoNone, InvokeNone
<1>3. CASE SignedIn(s, a)
  <2>1. \/ \E v : Go(v, Over(s))
        \/ \E m : OnSignInSuccess(s, m, calls[s].complete, calls[s].redirectTo)
    BY <1>3 DEF SignedIn
  <2> QED BY <1>1, <1>2, <2>1, GoNone
<1> QED BY <1>2, <1>3

\* A form that is submitted, or a call that goes on, as what it was.
LEMMA BeforeNone ==
    ASSUME NEW c, DOMAIN c = DOMAIN NoCall
    PROVE  /\ "op" \in DOMAIN BrokerBeforeSignIn(c) /\ BrokerBeforeSignIn(c).op = c.op
           /\ LET d == [Prepared(c) EXCEPT !.step = "request"] IN "op" \in DOMAIN d /\ d.op = c.op
<1>1. DOMAIN c = {"op", "step", "account", "password", "unblock", "age", "page", "from", "complete", "redirectTo", "here"}
  BY DEF NoCall
<1>2. DOMAIN Prepared(c) = DOMAIN c /\ Prepared(c).op = c.op BY <1>1 DEF Prepared
<1> DEFINE p == Prepared(c)
           d == [p EXCEPT !.step = "request"]
           e == [c EXCEPT !.step = "ask"]
<1>3. p.op = c.op /\ DOMAIN p = DOMAIN c BY <1>2
<1> HIDE DEF p
<1>4. DOMAIN d = DOMAIN c /\ d.op = c.op BY <1>1, <1>3
<1>5. DOMAIN e = DOMAIN c /\ e.op = c.op BY <1>1
<1>6. BrokerBeforeSignIn(c) \in {d, e} BY DEF BrokerBeforeSignIn, p
<1> HIDE DEF d, e
<1> QED BY <1>1, <1>4, <1>5, <1>6 DEF d, p

LEMMA StartNone ==
    ASSUME CallsOK(World, view, calls), NEW s \in Slots, NEW c, DOMAIN c = DOMAIN NoCall,
           c.op # "signUp" \/ calls[s].op = "signUp",
           calls' = [calls EXCEPT ![s] = BrokerBeforeSignIn(c)]
    PROVE  NoneMore(calls')
  BY BeforeNone, SameNone

LEMMA NewCallIs ==
    ASSUME NEW op, NEW a, NEW password
    PROVE  /\ DOMAIN NewCall(op, a, password) = DOMAIN NoCall /\ NewCall(op, a, password).op = op
           /\ \A age : LET d == [NewCall(op, a, password) EXCEPT !.age = age]
                       IN  DOMAIN d = DOMAIN NoCall /\ d.op = op
           /\ \A code : LET d == [NewCall(op, a, password) EXCEPT !.unblock = code]
                        IN  DOMAIN d = DOMAIN NoCall /\ d.op = op
<1> DEFINE n == NewCall(op, a, password)
<1>1. DOMAIN NoCall = {"op", "step", "account", "password", "unblock", "age", "page", "from", "complete", "redirectTo", "here"}
  BY DEF NoCall
<1>2. DOMAIN n = DOMAIN NoCall /\ n.op = op BY <1>1 DEF NewCall
<1> HIDE DEF n
<1>3. \A age : LET d == [n EXCEPT !.age = age] IN DOMAIN d = DOMAIN NoCall /\ d.op = op BY <1>1, <1>2
<1>4. \A code : LET d == [n EXCEPT !.unblock = code] IN DOMAIN d = DOMAIN NoCall /\ d.op = op BY <1>1, <1>2
<1> QED BY <1>2, <1>3, <1>4 DEF n

LEMMA SubmitNone ==
    ASSUME CallsOK(World, view, calls), NEW s \in Slots, NEW c, DOMAIN c = DOMAIN NoCall, c.op # "signUp",
           Submit(s, c)
    PROVE  NoneMore(calls')
  BY StartNone DEF Submit, Start

\* The forms.  That of a new account is not shown to who is too young.
LEMMA SubmitsNone ==
    ASSUME CallsOK(World, view, calls), ViewOK(World, view), user.tooYoung, NEW s \in Slots,
           \/ SubmitIndex(s) \/ SubmitSignIn(s) \/ SubmitSignInPassword(s) \/ SubmitForceAuth(s)
           \/ SubmitSignUp(s) \/ SubmitSignUpPassword(s) \/ SubmitUnblock(s) \/ SubmitCode(s)
    PROVE  NoneMore(calls')
<1>1. ~(view.page \in {"signup", "signup_password"} /\ view.shown)
  BY WorldFields DEF ViewOK, ViewUser
<1>2. ASSUME NEW op, NEW a, NEW p, op # "signUp", Submit(s, NewCall(op, a, p)) PROVE NoneMore(calls')
  <2>1. DOMAIN NewCall(op, a, p) = DOMAIN NoCall /\ NewCall(op, a, p).op = op BY NewCallIs
  <2> QED BY <1>2, <2>1, SubmitNone
<1>3. ASSUME NEW a, NEW p, NEW code, Submit(s, [NewCall("signIn", a, p) EXCEPT !.unblock = code])
      PROVE  NoneMore(calls')
  <2> DEFINE d == [NewCall("signIn", a, p) EXCEPT !.unblock = code]
  <2>1. DOMAIN d = DOMAIN NoCall /\ d.op = "signIn" BY NewCallIs
  <2>2. Submit(s, d) BY <1>3
  <2> HIDE DEF d
  <2> QED BY <2>1, <2>2, SubmitNone
<1>4. \A c : Submit(s, c) => view.shown BY DEF Submit
<1>5. CASE SubmitIndex(s) BY <1>2, <1>5 DEF SubmitIndex
<1>6. CASE SubmitSignIn(s)
  <2>1. \/ \E a, p : Submit(s, NewCall("signIn", a, p))
        \/ Submit(s, NewCall("cached", view.account, "none"))
    BY <1>6 DEF SubmitSignIn
  <2> QED BY <1>2, <2>1
<1>7. CASE SubmitSignInPassword(s)
  <2>1. \/ \E a, p : Submit(s, NewCall("signIn", a, p))
        \/ Submit(s, NewCall("cached", view.account, "none"))
    BY <1>7 DEF SubmitSignInPassword
  <2> QED BY <1>2, <2>1
<1>8. CASE SubmitForceAuth(s) BY <1>2, <1>8 DEF SubmitForceAuth
<1>9. CASE SubmitSignUp(s) BY <1>1, <1>4, <1>9 DEF SubmitSignUp
<1>10. CASE SubmitSignUpPassword(s) BY <1>1, <1>4, <1>10 DEF SubmitSignUpPassword
<1>11. CASE SubmitUnblock(s) BY <1>3, <1>11 DEF SubmitUnblock
<1>12. CASE SubmitCode(s)
  <2>1. \E a, p : Submit(s, NewCall("code", a, p)) BY <1>12 DEF SubmitCode
  <2> QED BY <1>2, <2>1
<1> QED BY <1>5, <1>6, <1>7, <1>8, <1>9, <1>10, <1>11, <1>12

\* The answers.
LEMMA AnswerNone ==
    ASSUME CallsOK(World, view, calls), NEW s \in Slots, NEW answer \in Answers, Answer(s, answer)
    PROVE  NoneMore(calls')
<1> DEFINE c == calls[s]
<1>1. DOMAIN c = DOMAIN NoCall /\ "op" \in DOMAIN c /\ "step" \in DOMAIN c
  BY DEF CallsOK, CallOK, CallShape, NoCall
<1>2. \/ calls' = [calls EXCEPT ![s] = [Prepared(c) EXCEPT !.step = "request"]]
      \/ calls' = [calls EXCEPT ![s] = [c EXCEPT !.step = "failed"]]
      \/ calls' = Over(s)
  BY DEF Answer, Over
<1> DEFINE d == [c EXCEPT !.step = "failed"]
           e == [Prepared(c) EXCEPT !.step = "request"]
<1> HIDE DEF c
<1>3. "op" \in DOMAIN d /\ d.op = c.op BY <1>1
<1>4. "op" \in DOMAIN e /\ e.op = c.op BY <1>1, BeforeNone
<1> HIDE DEF d, e
<1>5. CASE calls' = [calls EXCEPT ![s] = e] BY <1>4, <1>5, SameNone DEF c
<1>6. CASE calls' = [calls EXCEPT ![s] = d] BY <1>3, <1>6, SameNone DEF c
<1>7. CASE calls' = Over(s) BY <1>7, SameNone
<1> QED BY <1>2, <1>5, <1>6, <1>7 DEF d, e

LEMMA ReplyNone ==
    ASSUME CallsOK(World, view, calls), NEW s \in Slots, Reply(s)
    PROVE  NoneMore(calls')
<1>1. NoneMore(Over(s)) BY SameNone
<1> DEFINE c == calls[s]
<1>2. DOMAIN c = DOMAIN NoCall /\ "op" \in DOMAIN c /\ "account" \in DOMAIN c
  BY DEF CallsOK, CallOK, CallShape, NoCall
<1>3. ASSUME NEW a PROVE LET d == [c EXCEPT !.account = a] IN "op" \in DOMAIN d /\ d.op = c.op
  <2> HIDE DEF c
  <2> QED BY <1>2
<1>4. CASE SignInAccepted(s)
  <2>1. \E a : SignedIn(s, a) BY <1>4 DEF SignInAccepted
  <2> QED BY <2>1, SignedInNone
<1>5. CASE SessionReauth(s)
  <2>1. \E a : SignedIn(s, a) BY <1>5 DEF SessionReauth
  <2> QED BY <2>1, SignedInNone
<1>6. CASE RecoveryEmailStatus(s)
  <2>1. \E a : SignedIn(s, a) BY <1>6 DEF RecoveryEmailStatus
  <2> QED BY <2>1, SignedInNone
<1>7. CASE SessionReauthRefused(s)
  <2> DEFINE d == DiscardSession(c)
  <2>1. calls' = [calls EXCEPT ![s] = d] BY <1>7 DEF SessionReauthRefused
  <2>2. "op" \in DOMAIN d /\ d.op = c.op
    <3> HIDE DEF c
    <3> QED BY <1>2 DEF DiscardSession
  <2> HIDE DEF d
  <2> QED BY <2>1, <2>2, SameNone
<1>8. CASE IncorrectEmailCase(s)
  <2> DEFINE d == [c EXCEPT !.account = UseCanonicalEmail(c.account)]
  <2>1. calls' = [calls EXCEPT ![s] = d] BY <1>8 DEF IncorrectEmailCase, CallsOK
  <2>2. "op" \in DOMAIN d /\ d.op = c.op BY <1>3
  <2> HIDE DEF d
  <2> QED BY <2>1, <2>2, SameNone
<1>9. CASE OnSignInBlocked(s)
  <2> DEFINE d == [c EXCEPT !.op = "unblock", !.account = RestoredEmail(c.account)]
  <2>1. calls' = [calls EXCEPT ![s] = d] BY <1>9 DEF OnSignInBlocked, CallsOK
  <2>2. "op" \in DOMAIN d /\ d.op = "unblock"
    <3> HIDE DEF c
    <3> QED BY <1>2
  <2> HIDE DEF d
  <2> QED BY <2>1, <2>2, SameNone
<1>10. CASE SendUnblockEmail(s)
  <2>1. (\E v : Go(v, Over(s))) \/ calls' = Over(s) BY <1>10 DEF SendUnblockEmail, OnSignInError
  <2> QED BY <1>1, <2>1, GoNone
<1>11. CASE SignInRefused(s)
  <2>1. PICK error : OnSignInError(s, c, error) BY <1>11 DEF SignInRefused
  <2>2. (\E v : Go(v, Over(s))) \/ calls' = Over(s)
    BY <2>1 DEF OnSignInError, NavigateToForceSignUp, TooYoung
  <2> QED BY <1>1, <2>2, GoNone
<1>12. CASE CachedSessionFails(s)
  <2>1. calls' = Over(s) BY <1>12 DEF CachedSessionFails
  <2> QED BY <1>1, <2>1
<1>13. CASE SignUpAccepted(s)
  <2>1. \/ \E v : Go(v, Over(s))
        \/ \E a : InvokeBrokerMethod(s, broker, "afterSignUp", a)
    BY <1>13 DEF SignUpAccepted
  <2> QED BY <1>1, <2>1, GoNone, InvokeNone
<1>14. CASE AccountAlreadyExists(s)
  <2> DEFINE d == [c EXCEPT !.op = "signIn"]
  <2>1. calls' = Over(s) \/ calls' = [calls EXCEPT ![s] = BrokerBeforeSignIn(d)]
    BY <1>14 DEF AccountAlreadyExists
  <2>2. DOMAIN d = DOMAIN NoCall /\ d.op = "signIn"
    <3> HIDE DEF c
    <3> QED BY <1>2
  <2> HIDE DEF d
  <2> QED BY <1>1, <2>1, <2>2, StartNone
<1>15. CASE EmailChecked(s)
  <2>1. \E v : Go(v, Over(s)) BY <1>15 DEF EmailChecked
  <2> QED BY <1>1, <2>1, GoNone
<1>16. CASE CodeAccepted(s)
  <2>1. \/ \E v : Go(v, Over(s))
        \/ \E a : InvokeBrokerMethod(s, broker, "afterCompleteSignInWithCode", a)
    BY <1>16 DEF CodeAccepted
  <2> QED BY <1>1, <2>1, GoNone, InvokeNone
<1>17. CASE CodeRefused(s)
  <2>1. calls' = Over(s) BY <1>17 DEF CodeRefused
  <2> QED BY <1>1, <2>1
<1>18. CASE FinishOAuthFlow(s)
  <2>1. (\E v : Go(v, Over(s))) \/ calls' = Over(s) BY <1>18 DEF FinishOAuthFlow
  <2> QED BY <1>1, <2>1, GoNone
<1> QED BY <1>4, <1>5, <1>6, <1>7, <1>8, <1>9, <1>10, <1>11, <1>12, <1>13, <1>14, <1>15, <1>16, <1>17, <1>18 DEF Reply

\* The screens.
LEMMA ShowNone ==
    ASSUME CallsOK(World, view, calls), NEW s \in Slots, Show(s)
    PROVE  NoneMore(calls')
<1>1. NoneMore(calls) BY SameNone
<1>2. ASSUME \/ calls' = calls
             \/ \E v : Go(v, calls)
      PROVE  NoneMore(calls')
  BY <1>1, <1>2, GoNone
<1>3. ASSUME ChooseEmailActionPage(s) PROVE NoneMore(calls')
  <2> DEFINE n == NewCall("check", InitAccount(relier.email), "none")
  <2>1. Start(s, n) \/ calls' = Left(calls) \/ calls' = calls BY <1>3 DEF ChooseEmailActionPage
  <2>2. DOMAIN n = DOMAIN NoCall /\ n.op = "check" BY NewCallIs
  <2> HIDE DEF n
  <2>3. CASE Start(s, n) BY <2>2, <2>3, StartNone DEF Start
  <2>4. CASE calls' = Left(calls)
    <3>1. ASSUME NEW x \in Slots
          PROVE  "op" \in DOMAIN calls'[x] /\ calls'[x].op = calls[x].op
      <4> DEFINE c == calls[x]
                 d == [c EXCEPT !.here = FALSE]
      <4>1. calls'[x] = d BY <2>4 DEF Left
      <4>2. "op" \in DOMAIN c BY <1>1 DEF NoneMore
      <4> HIDE DEF c
      <4>3. DOMAIN d = DOMAIN c /\ d.op = c.op BY <4>2
      <4> QED BY <4>1, <4>2, <4>3 DEF c
    <3>2. DOMAIN calls' = Slots BY <2>4 DEF Left
    <3> QED BY <3>1, <3>2 DEF NoneMore
  <2> QED BY <1>2, <2>1, <2>3, <2>4
<1>4. CASE ShowIndex(s)
  <2>1. ChooseEmailActionPage(s) \/ \E page : Replace(page, NoAccount) BY <1>4 DEF ShowIndex
  <2> QED BY <1>2, <1>3, <2>1 DEF Replace
<1>5. CASE ShowOAuthIndex(s)
  <2>1. ChooseEmailActionPage(s) \/ \E page : Replace(page, NoAccount) BY <1>5 DEF ShowOAuthIndex
  <2> QED BY <1>2, <1>3, <2>1 DEF Replace
<1>6. CASE ShowSignIn BY <1>2, <1>6 DEF ShowSignIn, Replace
<1>7. CASE ShowSignUp BY <1>2, <1>7 DEF ShowSignUp, Replace
<1>8. CASE ShowPassword
  <2>1. calls' = calls \/ \E page : Replace(page, NoAccount) BY <1>8 DEF ShowPassword
  <2> QED BY <1>2, <2>1 DEF Replace
<1>9. CASE ShowForceAuth BY <1>2, <1>9 DEF ShowForceAuth, NavigateToForceSignUp
<1>10. CASE ShowConfirm BY <1>2, <1>10 DEF ShowConfirm
<1>11. CASE ShowCode BY <1>2, <1>11 DEF ShowCode, Replace
<1>12. CASE ShowSettings BY <1>2, <1>12 DEF ShowSettings, Replace
<1>13. CASE ShowOther BY <1>2, <1>13 DEF ShowOther
<1> QED BY <1>4, <1>5, <1>6, <1>7, <1>8, <1>9, <1>10, <1>11, <1>12, <1>13 DEF Show

\* What else the user does.
LEMMA ActsNone ==
    ASSUME CallsOK(World, view, calls), ViewOK(World, view), user.tooYoung, NEW s \in Slots, UserActs(s)
    PROVE  NoneMore(calls')
<1>1. NoneMore(calls) BY SameNone
<1>2. ASSUME \/ calls' = calls
             \/ \E v : Go(v, calls)
      PROVE  NoneMore(calls')
  BY <1>1, <1>2, GoNone
<1>3. CASE SubmitTooYoung BY <1>2, <1>3 DEF SubmitTooYoung, TooYoung
<1>4. CASE AcceptPermissions(s)
  <2>1. \/ OnSignInSuccess(s, view.account, view.complete, view.redirectTo)
        \/ InvokeBrokerMethod(s, broker, "afterSignUp", view.account)
    BY <1>4 DEF AcceptPermissions
  <2> QED BY <2>1, SignedInNone, InvokeNone
<1>5. CASE ChooseWhatToSync(s)
  <2>1. \E a : InvokeBrokerMethod(s, broker, "afterSignUp", a) BY <1>5 DEF ChooseWhatToSync
  <2> QED BY <2>1, InvokeNone
<1>6. CASE FollowLink BY <1>2, <1>6 DEF FollowLink
<1>7. CASE GotoNextScreen(s)
  <2>1. \E name, a : InvokeBrokerMethod(s, broker, name, a) BY <1>7 DEF GotoNextScreen
  <2> QED BY <2>1, InvokeNone
<1>8. CASE Continue(s)
  <2> DEFINE n == NewCall("finish", view.account, "none")
             d == [n EXCEPT !.step = "request"]
  <2>1. calls' = [calls EXCEPT ![s] = d] BY <1>8 DEF Continue
  <2>2. DOMAIN n = DOMAIN NoCall /\ n.op = "finish" BY NewCallIs
  <2>3. "op" \in DOMAIN NoCall BY DEF NoCall
  <2> HIDE DEF n
  <2>4. "op" \in DOMAIN d /\ d.op = "finish" BY <2>2, <2>3
  <2> HIDE DEF d
  <2> QED BY <2>1, <2>4, SameNone
<1>9. CASE ReturnFromRecoveryCodes(s)
  <2>1. InvokeBrokerMethod(s, broker, "afterCompleteSignInWithCode", user.signedIn)
    BY <1>9 DEF ReturnFromRecoveryCodes
  <2> QED BY <2>1, InvokeNone
<1>10. CASE FollowPageLink BY <1>2, <1>10 DEF FollowPageLink
<1>11. CASE UseDifferentAccount BY <1>2, <1>11 DEF UseDifferentAccount
<1>12. CASE CreateAccount BY <1>2, <1>12 DEF CreateAccount
<1>13. CASE SignOut BY <1>2, <1>13 DEF SignOut
<1> QED BY <1>3, <1>4, <1>5, <1>6, <1>7, <1>8, <1>9, <1>10, <1>11, <1>12, <1>13, SubmitsNone DEF UserActs

\* Once the cookie says that the user is too young no step makes a call that
\* creates an account, whatever screens and answers are still to come.
THEOREM TooYoungNeverSignsUp == Spec => TooYoungStaysOut
<1>1. ASSUME IInv, user.tooYoung, [Next]_vars PROVE NoneMore(calls')
  <2>1. CallsOK(World, view, calls) /\ ViewOK(World, view) BY <1>1 DEF IInv
  <2>2. CASE UNCHANGED vars BY <2>1, <2>2, SameNone DEF vars
  <2>3. CASE Next BY <1>1, <2>1, <2>3, AnswerNone, ReplyNone, ShowNone, ActsNone DEF Next
  <2> QED BY <1>1, <2>2, <2>3
<1>2. IInv /\ [Next]_vars => [\A s \in Slots : user.tooYoung /\ calls'[s].op = "signUp" => calls[s].op = "signUp"]_vars
  BY <1>1 DEF NoneMore
<1> QED BY <1>2, Invariance, PTL DEF Spec, TooYoungStaysOut

=============================================================================
