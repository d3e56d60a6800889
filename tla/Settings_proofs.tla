--------------------------- MODULE Settings_proofs ---------------------------
(***************************************************************************)
(* Proofs about Settings and the AccountTokens below it, for any number of *)
(* calls under way, of tokens, of failures and of changes.                 *)
(*                                                                         *)
(* A screen that has lost its session must still lead away from the        *)
(* settings: the invariant names the calls that will (Ends), and says that *)
(* there is one whenever the session has ended while nothing failed.  The  *)
(* token of the newsletter has one place: at most one operation renews it  *)
(* (NewsletterOK), and a token the server knows is in that place, in a     *)
(* call that destroys it, or lost.  The password may change the session in *)
(* the panels of the account alone (AccountPanelOK); everywhere else it    *)
(* stays the first, and no request is refused for it (OtherPanelOK).       *)
(***************************************************************************)
EXTENDS Settings, WellFoundedInduction, TLAPS

Steps == {"none", "status", "gate", "assertion", "token", "request", "answered", "rejected"}

OAuthMethods == ProfileMethods \cup OAuthAppMethods \cup MarketingMethods

\* The access tokens an account may hold: those that were issued, or none.
Old(v) == v.issued \cup {0}

ServerOK(v) ==
    /\ DOMAIN v = {"sessions", "verified", "tokens", "issued", "name", "image", "value", "gate", "clients"}
    /\ v.sessions \in {{}, {1}, {2}} /\ v.verified \in BOOLEAN
    /\ v.tokens \subseteq v.issued /\ v.issued \subseteq Tokens /\ v.clients \subseteq Clients

AccountOK(a, old) ==
    /\ DOMAIN a = {"session", "access", "verified", "prefs", "name", "image", "imageId", "hadImage"}
    /\ a.session \in 0 .. 2 /\ a.access \in old /\ a.prefs \in old /\ a.verified \in BOOLEAN

\* A call is of a kind that takes its step; a retry has its first token behind it.
CallOK(c, old) ==
    /\ DOMAIN c = {"op", "arg", "step", "token", "first", "seen", "view"}
    /\ c.op \in Ops /\ c.step \in Steps /\ c.token \in Tokens \cup 0 .. 2 /\ c.first \in Nat
    /\ DOMAIN c.view = {"name", "image", "clients", "value", "gate"} /\ c.view.clients \subseteq Clients
    /\ c.op = "none" => c.step = "none"
    /\ c.step \in {"status", "gate", "assertion", "token"} => c.op \in OAuthMethods
    /\ c.step \in {"status", "gate"} => c.first = 0
    /\ c.op \in OAuthAppMethods => c.token \in old
    /\ c.op \in ProfileMethods /\ c.step = "request" => c.token \in old
    /\ c.op = "destroyToken" => c.token \in old /\ c.token # 0
    /\ c.first # 0 => /\ c.first - 1 \in old
                      /\ c.step = "request" /\ c.op # "destroyOAuthApp" => c.token # c.first - 1

UiOK(u) ==
    /\ DOMAIN u = {"value", "render", "gated", "list", "refreshing", "loads", "name", "avatar", "camera", "ready", "lost"}
    /\ u.list \subseteq Clients /\ u.render \in BOOLEAN /\ u.avatar \in BOOLEAN /\ u.ready \in BOOLEAN

Assertions == {"none", "pending", "made", "INVALID_TOKEN", "error"}
Profiles == {"none", "pending", "fetched", "failed"}

\* A call of a panel that is to lead away from the settings: the session has ended.
Ends(c) ==
    \/ c.op = "deviceDestroy" /\ c.step = "answered" /\ c.arg = "thisDevice"
    \/ c.op = "sessionDestroy" /\ c.step = "answered" /\ c.arg \in {"thisSession", "signout"}
    \/ c.op = "accountDestroy" /\ c.step = "answered"
    \/ c.op = "recoveryEmailStatus" /\ c.step \in {"request", "rejected"}

PasswordOps == {"checkPassword", "passwordChange", "accountDestroy"}

\* Nothing of the profile is shown or waited for.
Quiet(u) == u.loads = {} /\ ~u.avatar /\ u.camera = "off"

\* An operation of the newsletter, which has its token in account.prefs.
Renewing(c) == c.op \in MarketingMethods

NewsletterOK ==
    /\ page = "panel" /\ Quiet(ui)
    /\ \A s \in Slots :
          /\ calls[s].op \in {"none", "fetchPrefs", "optIn", "destroyToken"}
          /\ ui.render => ~ui.ready /\ ~Renewing(calls[s])
          /\ calls[s].op = "fetchPrefs" => ~ui.ready
          /\ calls[s].op = "optIn" => ui.ready
          /\ calls[s].op = "destroyToken" /\ calls[s].step = "answered" => calls[s].token \notin server.tokens
    /\ \A s, t \in Slots : Renewing(calls[s]) /\ Renewing(calls[t]) => s = t
    /\ account.prefs # 0 =>
          \E s \in Slots : /\ Renewing(calls[s]) /\ calls[s].token = account.prefs
                           /\ calls[s].step \in {"request", "answered", "rejected"}
    /\ \A k \in server.tokens :
          \/ k = account.prefs \/ k \in ui.lost
          \/ \E s \in Slots : calls[s].op = "destroyToken" /\ calls[s].token = k

\* The server has changed the password; the account has the old session still.
Changed(c) == c.op = "passwordChange" /\ c.step = "answered"

\* The panels of the account: the password, its end, signing out.
AccountPanelOK ==
    /\ page \in {"panel", "signin", "signup"} /\ Quiet(ui) /\ ~ui.render
    /\ \A s \in Slots :
          /\ calls[s].op \in PasswordOps \cup {"none", "sessionDestroy"}
          /\ calls[s].op = "sessionDestroy" => calls[s].arg = "signout"
          /\ Changed(calls[s]) => 1 \notin server.sessions
    /\ 1 \in server.sessions => account.session # 2
    /\ SignedIn => /\ account.session # 0
                   /\ 2 \in server.sessions => account.session = 2 \/ \E s \in Slots : Changed(calls[s])

\* The panels that leave the session what it was, unless they end it.
OtherPanelOK ==
    /\ 2 \notin server.sessions
    /\ \A s \in Slots : calls[s].op \notin PasswordOps
    /\ trouble = 0 /\ SignedIn /\ server.sessions # {} =>
          /\ account.session = 1 /\ assertion # "INVALID_TOKEN"
          /\ \A s \in Slots : /\ calls[s].seen # "INVALID_TOKEN"
                              /\ calls[s].op \notin WithAccessToken /\ calls[s].step = "request" => calls[s].token = 1

IInv ==
    /\ ServerOK(server) /\ AccountOK(account, Old(server)) /\ UiOK(ui)
    /\ assertion \in Assertions /\ profile \in Profiles
    /\ trouble \in 0 .. MaxTrouble /\ changes \in 0 .. MaxChanges
    /\ DOMAIN calls = Slots /\ \A s \in Slots : CallOK(calls[s], Old(server))
    /\ use = "marketing" => NewsletterOK
    /\ use # "marketing" => \A s \in Slots : calls[s].op \notin MarketingMethods \cup {"destroyToken"}
    /\ use = "account" => AccountPanelOK
    /\ use # "account" => OtherPanelOK
    /\ trouble = 0 /\ SignedIn /\ server.sessions = {} => \E s \in Slots : Ends(calls[s])

-----------------------------------------------------------------------------
LEMMA LeastToken == ASSUME NEW T \in SUBSET Nat, T # {} PROVE \E x \in T : \A y \in T : x <= y
<1> DEFINE R == {ss \in Nat \X Nat : ss[1] < ss[2]}
<1>1. \A x, y \in Nat : <<x, y>> \in R <=> x < y OBVIOUS
<1>2. OpToRel(<, Nat) = R BY Zenon DEF OpToRel
<1>3. IsWellFoundedOn(R, Nat) BY Zenon, NatLessThanWellFounded, <1>2
<1> HIDE DEF R
<1>4. PICK x \in T : \A y \in T : ~(<<y, x>> \in R) BY <1>3, WFMin
<1>5. \A y \in T : x <= y
  <2> TAKE y \in T
  <2>1. x \in Nat /\ y \in Nat OBVIOUS
  <2>2. ~(y < x) BY <1>1, <1>4, <2>1
  <2> QED BY <2>1, <2>2
<1> QED BY <1>4, <1>5

\* The server issues a token it has not issued before.
LEMMA NewTokenIsNew ==
    ASSUME ServerOK(server), server.issued # Tokens PROVE NewToken \in Tokens /\ NewToken \notin server.issued
<1> DEFINE T == Tokens \ server.issued
<1>1. T \subseteq Nat /\ T # {}
  <2>1. Tokens \subseteq Nat BY TokenAssumption DEF Tokens
  <2>2. server.issued \subseteq Tokens BY DEF ServerOK
  <2> QED BY <2>1, <2>2
<1>2. \E t \in T : \A u \in T : t <= u BY <1>1, LeastToken
<1>3. \E t \in Tokens : t \notin server.issued /\ \A u \in Tokens \ server.issued : t <= u BY <1>2
<1> QED BY <1>3 DEF NewToken

LEMMA OldTokens == ASSUME ServerOK(server) PROVE Old(server) \subseteq Tokens \cup {0} /\ 0 \in Old(server)
  BY DEF ServerOK, Old

\* What was true of a call when fewer tokens were issued still is.
LEMMA OlderCallOK ==
    ASSUME NEW c, NEW old, NEW more, old \subseteq more, CallOK(c, old) PROVE CallOK(c, more)
  BY DEF CallOK

LEMMA OlderAccountOK ==
    ASSUME NEW a, NEW old, NEW more, old \subseteq more, AccountOK(a, old) PROVE AccountOK(a, more)
  BY DEF AccountOK

-----------------------------------------------------------------------------
(***************************************************************************)
(* Calls that begin, or are over.                                          *)
(***************************************************************************)
LEMMA NoCallOK ==
    ASSUME NEW old
    PROVE  CallOK(NoCall, old) /\ ~Ends(NoCall) /\ ~Changed(NoCall) /\ NoCall.op = "none" /\ NoCall.seen = "none"
           /\ NoCall.step = "none"
<1>1. /\ NoCall.op = "none" /\ NoCall.step = "none" /\ NoCall.token = 0 /\ NoCall.first = 0 /\ NoCall.seen = "none"
      /\ NoCall.view = NoView
  BY DEF NoCall
<1>2. DOMAIN NoCall = {"op", "arg", "step", "token", "first", "seen", "view"} BY DEF NoCall
<1>3. DOMAIN NoView = {"name", "image", "clients", "value", "gate"} /\ NoView.clients = {} BY DEF NoView
<1>4. "none" \in Ops /\ "none" \in Steps BY DEF Ops, Steps
<1>5. "none" \notin ProfileMethods \cup OAuthAppMethods BY DEF ProfileMethods, OAuthAppMethods
<1>6. CallOK(NoCall, old) BY <1>1, <1>2, <1>3, <1>4, <1>5 DEF CallOK
<1> QED BY <1>1, <1>6 DEF Ends, Changed

LEMMA NewCallOK ==
    ASSUME NEW old, 0 \in old, old \subseteq Tokens \cup {0}, AccountOK(account, old),
           NEW op \in Ops \ {"none", "destroyToken"}, NEW arg
    PROVE  /\ CallOK(NewCall(op, arg), old)
           /\ NewCall(op, arg).op = op /\ NewCall(op, arg).arg = arg /\ NewCall(op, arg).seen = "none"
           /\ NewCall(op, arg).step \in {"status", "gate", "assertion", "request"}
           /\ op = "recoveryEmailStatus" => NewCall(op, arg).step = "request"
           /\ op \notin WithAccessToken => NewCall(op, arg).token = account.session
           /\ op \in MarketingMethods => NewCall(op, arg).step = "assertion"
<1> DEFINE c == NewCall(op, arg)
<1>1. /\ c.op = op /\ c.arg = arg /\ c.step = FirstStep(op) /\ c.token = Credential(op) /\ c.first = 0
      /\ c.seen = "none" /\ c.view = NoView
      /\ DOMAIN c = {"op", "arg", "step", "token", "first", "seen", "view"}
  BY DEF NewCall
<1>2. DOMAIN NoView = {"name", "image", "clients", "value", "gate"} /\ NoView.clients = {} BY DEF NoView
<1>3. /\ FirstStep(op) \in {"status", "gate", "assertion", "request"}
      /\ FirstStep(op) \in {"status", "gate"} => op \in ProfileMethods
      /\ FirstStep(op) = "assertion" => op \in MarketingMethods
      /\ op \in MarketingMethods => FirstStep(op) = "assertion"
      /\ op \in ProfileMethods => FirstStep(op) # "request"
      /\ op = "recoveryEmailStatus" => FirstStep(op) = "request"
  BY DEF FirstStep, ProfileMethods, MarketingMethods
<1>4. /\ Credential(op) \in old \cup 0 .. 2
      /\ op \in OAuthAppMethods => Credential(op) \in old
      /\ op \notin WithAccessToken => Credential(op) = account.session
  BY DEF Credential, AccountOK, WithAccessToken
<1>5. op \in OAuthAppMethods => op \notin ProfileMethods /\ FirstStep(op) = "request"
  BY DEF FirstStep, OAuthAppMethods, ProfileMethods, MarketingMethods
<1> HIDE DEF c
<1>6. CallOK(c, old)
  <2>1. c.op \in Ops /\ c.op # "none" /\ c.op # "destroyToken" BY <1>1
  <2>2. c.step \in Steps /\ c.token \in Tokens \cup 0 .. 2 /\ c.first \in Nat BY <1>1, <1>3, <1>4 DEF Steps
  <2>3. DOMAIN c.view = {"name", "image", "clients", "value", "gate"} /\ c.view.clients \subseteq Clients BY <1>1, <1>2
  <2>4. c.step \in {"status", "gate", "assertion", "token"} => c.op \in OAuthMethods BY <1>1, <1>3 DEF OAuthMethods
  <2>5. /\ c.op \in OAuthAppMethods => c.token \in old
        /\ c.op \in ProfileMethods => c.step # "request"
    BY <1>1, <1>3, <1>4
  <2> QED BY <1>1, <2>1, <2>2, <2>3, <2>4, <2>5 DEF CallOK
<1> QED BY <1>1, <1>3, <1>4, <1>6 DEF c

-----------------------------------------------------------------------------
(***************************************************************************)
(* The panels that are neither the newsletter nor the account.             *)
(***************************************************************************)
PanelOps == Ops \ (PasswordOps \cup MarketingMethods \cup {"none", "destroyToken"})

NextCall(c) == c = NoCall \/ \E op \in PanelOps : \E arg : c = NewCall(op, arg)

Elsewhere == use \notin {"marketing", "account"}

\* A step of such a panel: calls begin or are over, and one that is to lead away is followed.
PanelStep ==
    /\ UNCHANGED <<server, assertion, trouble, use>>
    /\ AccountOK(account', Old(server)) /\ UiOK(ui') /\ profile' \in Profiles /\ changes' \in 0 .. MaxChanges
    /\ DOMAIN calls' = Slots /\ \A t \in Slots : calls'[t] = calls[t] \/ NextCall(calls'[t])
    /\ SignedIn' => /\ SignedIn
                    /\ trouble = 0 /\ server.sessions # {} => account'.session = account.session
                    /\ \A t \in Slots : Ends(calls[t]) => Ends(calls'[t])

LEMMA NextCallOK ==
    ASSUME ServerOK(server), AccountOK(account, Old(server)), NEW c, NextCall(c)
    PROVE  /\ CallOK(c, Old(server)) /\ c.op \notin PasswordOps \cup MarketingMethods \cup {"destroyToken"}
           /\ c.seen = "none"
           /\ c.op \notin WithAccessToken /\ c.step = "request" => c.token = account.session
<1>1. Old(server) \subseteq Tokens \cup {0} /\ 0 \in Old(server) BY OldTokens
<1>2. CASE c = NoCall
  <2>1. CallOK(c, Old(server)) /\ c.op = "none" /\ c.seen = "none" /\ c.step = "none" BY <1>2, NoCallOK
  <2> QED BY <2>1 DEF PasswordOps, MarketingMethods
<1>3. CASE \E op \in PanelOps : \E arg : c = NewCall(op, arg)
  <2>1. PICK op \in PanelOps : \E arg : c = NewCall(op, arg) BY <1>3
  <2>2. PICK arg : c = NewCall(op, arg) BY <2>1
  <2>3. op \in Ops \ {"none", "destroyToken"} /\ op \notin PasswordOps \cup MarketingMethods \cup {"destroyToken"}
    BY DEF PanelOps
  <2>4. CallOK(c, Old(server)) /\ c.op = op /\ c.seen = "none" /\ (op \notin WithAccessToken => c.token = account.session)
    BY <1>1, <2>2, <2>3, NewCallOK
  <2> QED BY <2>3, <2>4
<1> QED BY <1>2, <1>3 DEF NextCall

LEMMA PanelKeeps == ASSUME IInv, Elsewhere, PanelStep PROVE IInv'
<1> USE DEF IInv
<1>1. Old(server)' = Old(server) /\ server' = server /\ use' = use BY DEF PanelStep, Old
<1>2. \A t \in Slots : CallOK(calls'[t], Old(server)) BY NextCallOK DEF PanelStep
<1>3. \A t \in Slots : calls'[t].op \notin PasswordOps \cup MarketingMethods \cup {"destroyToken"}
  BY NextCallOK DEF PanelStep, OtherPanelOK, Elsewhere
<1>4. OtherPanelOK'
  <2>1. ASSUME trouble = 0, SignedIn', server.sessions # {}
        PROVE  /\ account'.session = 1 /\ assertion' # "INVALID_TOKEN"
               /\ \A s \in Slots : /\ calls'[s].seen # "INVALID_TOKEN"
                                   /\ calls'[s].op \notin WithAccessToken /\ calls'[s].step = "request" => calls'[s].token = 1
    <3>1. /\ SignedIn /\ account'.session = account.session /\ assertion' = assertion
          /\ \A t \in Slots : calls'[t] = calls[t] \/ NextCall(calls'[t])
      BY <2>1 DEF PanelStep
    <3>2. /\ account.session = 1 /\ assertion # "INVALID_TOKEN"
          /\ \A s \in Slots : /\ calls[s].seen # "INVALID_TOKEN"
                              /\ calls[s].op \notin WithAccessToken /\ calls[s].step = "request" => calls[s].token = 1
      BY <2>1, <3>1 DEF OtherPanelOK, Elsewhere
    <3>3. ASSUME NEW s \in Slots
          PROVE  /\ calls'[s].seen # "INVALID_TOKEN"
                 /\ calls'[s].op \notin WithAccessToken /\ calls'[s].step = "request" => calls'[s].token = 1
      <4>1. CASE calls'[s] = calls[s] BY <3>2, <4>1
      <4>2. CASE NextCall(calls'[s])
        <5>1. ServerOK(server) /\ AccountOK(account, Old(server)) OBVIOUS
        <5>2. /\ calls'[s].seen = "none"
              /\ calls'[s].op \notin WithAccessToken /\ calls'[s].step = "request" => calls'[s].token = account.session
          BY <4>2, <5>1, NextCallOK
        <5> QED BY <3>2, <5>2
      <4> QED BY <3>1, <4>1, <4>2
    <3> QED BY <3>1, <3>2, <3>3
  <2> QED BY <1>3, <2>1 DEF OtherPanelOK, PanelStep, Elsewhere
<1>5. (trouble = 0 /\ SignedIn /\ server.sessions = {} => \E s \in Slots : Ends(calls[s]))'
  BY DEF PanelStep
<1>6. /\ ServerOK(server)' /\ AccountOK(account, Old(server))' /\ UiOK(ui)' /\ assertion' \in Assertions
      /\ profile' \in Profiles /\ trouble' \in 0 .. MaxTrouble /\ changes' \in 0 .. MaxChanges /\ DOMAIN calls' = Slots
  BY <1>1 DEF PanelStep, ServerOK, AccountOK, UiOK
<1>7. (\A s \in Slots : CallOK(calls[s], Old(server)))' BY <1>1, <1>2
<1> QED BY <1>1, <1>3, <1>4, <1>5, <1>6, <1>7 DEF Elsewhere

LEMMA PanelOpsAre ==
    {"getProfile", "getAvatar", "deleteAvatar", "uploadAvatar", "postDisplayName", "fetchOAuthApps", "destroyOAuthApp",
     "deviceDestroy", "sessionDestroy", "createRecoveryBundle", "deleteRecoveryKey", "recoveryKeyExists",
     "createTotpToken", "verifyTotpCode", "deleteTotpToken", "checkTotpTokenExists", "replaceRecoveryCodes",
     "recoveryEmails", "recoveryEmailCreate", "recoveryEmailDestroy", "sessions", "recoveryEmailStatus",
     "sessionVerificationStatus"} \subseteq PanelOps
  BY DEF PanelOps, Ops, ProfileMethods, OAuthAppMethods, MarketingMethods, PasswordOps

LEMMA BoundsKept == ASSUME IInv PROVE (Change \/ UNCHANGED changes) => changes' \in 0 .. MaxChanges
  BY SettingsAssumption DEF IInv, Change

LEMMA SetAccountOK == ASSUME IInv, NEW a, SetAccount(a) PROVE account' = a /\ profile' \in Profiles
  BY DEF SetAccount, IInv, Profiles

\* A call begins in a free slot.
LEMMA AskKeeps ==
    ASSUME IInv, Elsewhere, NEW s \in Slots, NEW op \in PanelOps, NEW arg, Ask(s, op, arg), UNCHANGED account,
           profile' \in Profiles, UiOK(ui'), Change \/ UNCHANGED changes
    PROVE  IInv'
<1>1. /\ SignedIn /\ calls[s].op = "none" /\ calls' = [calls EXCEPT ![s] = NewCall(op, arg)]
      /\ UNCHANGED <<server, assertion, trouble, use>>
  BY DEF Ask, Call, Free
<1>2. ~Ends(calls[s]) BY <1>1 DEF Ends
<1>3. DOMAIN calls = Slots /\ AccountOK(account, Old(server)) BY DEF IInv
<1>4. NextCall(NewCall(op, arg)) BY DEF NextCall
<1>5. PanelStep BY <1>1, <1>2, <1>3, <1>4, BoundsKept DEF PanelStep
<1> QED BY <1>5, PanelKeeps

\* A call is over, or the next one takes its place.
LEMMA DoneKeeps ==
    ASSUME IInv, Elsewhere, NEW s \in Slots, NEW c, NextCall(c), calls' = [calls EXCEPT ![s] = c],
           UNCHANGED <<server, assertion, trouble, use, changes>>, SignedIn,
           AccountOK(account', Old(server)), profile' \in Profiles, UiOK(ui'),
           trouble = 0 /\ server.sessions # {} /\ SignedIn' => account'.session = account.session,
           Ends(calls[s]) /\ SignedIn' => Ends(c)
    PROVE  IInv'
<1>1. DOMAIN calls = Slots BY DEF IInv
<1>2. PanelStep BY <1>1, BoundsKept DEF PanelStep
<1> QED BY <1>2, PanelKeeps

LEMMA NoNextCall == NextCall(NoCall) BY DEF NextCall

LEMMA ThenNextCall == ASSUME NEW op \in PanelOps, NEW arg PROVE NextCall(NewCall(op, arg)) BY DEF NextCall

\* Nothing but what is shown changes.
LEMMA ShownKeeps ==
    ASSUME IInv, Elsewhere, UNCHANGED <<tokenVars, use>>, UiOK(ui'), Change \/ UNCHANGED changes, SignedIn' => SignedIn
    PROVE  IInv'
<1>1. UNCHANGED <<server, account, assertion, profile, calls, trouble>> BY DEF tokenVars
<1>2. AccountOK(account', Old(server)) /\ profile' \in Profiles /\ DOMAIN calls' = Slots BY <1>1 DEF IInv
<1>3. PanelStep BY <1>1, <1>2, BoundsKept DEF PanelStep
<1> QED BY <1>3, PanelKeeps

\* The name, the picture and their requests (views/settings.js, display_name.js, avatar*.js).
LEMMA ProfileKeeps == ASSUME IInv, Elsewhere, Profile PROVE IInv'
<1>1. UiOK(ui) /\ AccountOK(account, Old(server)) /\ profile \in Profiles BY DEF IInv
<1>2. UiOK(ProfileChange(ui)) /\ UiOK(StopAndDestroyStream(ui)) /\ UiOK(ProfileChange(StopAndDestroyStream(ui)))
  BY <1>1 DEF UiOK, ProfileChange, StopAndDestroyStream
<1>3. ASSUME NEW s \in Slots, FetchProfile(s) PROVE IInv'
  <2>1. profile' \in Profiles BY <1>3 DEF FetchProfile, Profiles
  <2> QED BY <1>1, <1>3, <2>1, PanelOpsAre, AskKeeps DEF FetchProfile
<1>4. ASSUME NEW s \in Slots, NEW n, SubmitName(s, n) PROVE IInv'
  BY <1>1, <1>4, PanelOpsAre, AskKeeps DEF SubmitName
<1>5. ASSUME NEW s \in Slots, DisplayImage(s) PROVE IInv'
  <2>1. UiOK(ui') BY <1>1, <1>5 DEF DisplayImage, UiOK
  <2> QED BY <1>1, <1>5, <2>1, PanelOpsAre, AskKeeps DEF DisplayImage
<1>6. ASSUME NEW s \in Slots, RemoveAvatar(s) PROVE IInv'
  BY <1>1, <1>6, PanelOpsAre, AskKeeps DEF RemoveAvatar
<1>7. ASSUME NEW s \in Slots, SubmitPicture(s) PROVE IInv'
  BY <1>1, <1>7, PanelOpsAre, AskKeeps DEF SubmitPicture
<1>8. ASSUME NEW s \in Slots, ProfileArrives(s) \/ ProfileFails(s) PROVE IInv'
  <2>1. /\ SignedIn /\ calls[s].op = "getProfile" /\ calls' = [calls EXCEPT ![s] = NoCall] /\ profile' \in Profiles
        /\ UNCHANGED <<server, assertion, trouble, use, changes, page, ui>>
    BY <1>8 DEF ProfileArrives, ProfileFails, Answered, Rejected, Finish, Profiles
  <2>2. AccountOK(account', Old(server)) /\ account'.session = account.session
    BY <1>1, <1>8 DEF ProfileArrives, ProfileFails, SetProfileImage, AccountOK
  <2>3. ~Ends(calls[s]) BY <2>1 DEF Ends
  <2> QED BY <1>1, <2>1, <2>2, <2>3, NoNextCall, DoneKeeps
<1>9. ASSUME NEW s \in Slots, NamePosted(s) PROVE IInv'
  <2>1. /\ SignedIn /\ calls[s].op = "postDisplayName" /\ calls' = [calls EXCEPT ![s] = NoCall] /\ ui' = ProfileChange(ui)
        /\ UNCHANGED <<server, assertion, trouble, use, changes, page>>
    BY <1>9 DEF NamePosted, Answered, Finish
  <2>2. account' = [account EXCEPT !.name = calls[s].arg] /\ profile' \in Profiles BY <1>9, SetAccountOK DEF NamePosted
  <2>3. AccountOK(account', Old(server)) /\ account'.session = account.session BY <1>1, <2>2 DEF AccountOK
  <2>4. ~Ends(calls[s]) BY <2>1 DEF Ends
  <2> QED BY <1>2, <2>1, <2>2, <2>3, <2>4, NoNextCall, DoneKeeps
<1>10. ASSUME NEW s \in Slots, ImageArrives(s) PROVE IInv'
  <2>1. /\ SignedIn /\ calls[s].op = "getAvatar" /\ UNCHANGED <<server, assertion, trouble, use, changes, page, ui>>
        /\ \/ calls' = [calls EXCEPT ![s] = NoCall]
           \/ calls' = [calls EXCEPT ![s] = NewCall("deleteAvatar", "none")]
    BY <1>10 DEF ImageArrives, Answered, Finish, Then
  <2>2. account' = FetchCurrentProfileImage(account, calls[s].view.image) /\ profile' \in Profiles
    BY <1>10, SetAccountOK DEF ImageArrives
  <2>3. AccountOK(account', Old(server)) /\ account'.session = account.session
    BY <1>1, <2>2 DEF FetchCurrentProfileImage, SetProfileImage, AccountOK
  <2>4. ~Ends(calls[s]) BY <2>1 DEF Ends
  <2>5. NextCall(NewCall("deleteAvatar", "none")) BY PanelOpsAre, ThenNextCall
  <2> QED BY <1>1, <2>1, <2>2, <2>3, <2>4, <2>5, NoNextCall, DoneKeeps
<1>11. ASSUME NEW s \in Slots, AvatarRemoved(s) \/ PictureUploaded(s) PROVE IInv'
  <2>1. /\ SignedIn /\ calls[s].op \in {"deleteAvatar", "uploadAvatar"} /\ calls' = [calls EXCEPT ![s] = NoCall]
        /\ UNCHANGED <<server, assertion, trouble, use, changes>>
        /\ ui' \in {ProfileChange(ui), ProfileChange(StopAndDestroyStream(ui))}
    BY <1>11 DEF AvatarRemoved, PictureUploaded, Answered, Finish
  <2>2. PICK image : /\ account' = [SetProfileImage(account, image) EXCEPT !.imageId = (image = "picture")]
                     /\ profile' \in Profiles
    BY <1>11, SetAccountOK DEF AvatarRemoved, PictureUploaded
  <2>3. AccountOK(account', Old(server)) /\ account'.session = account.session
    BY <1>1, <2>2 DEF SetProfileImage, AccountOK
  <2>4. ~Ends(calls[s]) BY <2>1 DEF Ends
  <2> QED BY <1>2, <2>1, <2>2, <2>3, <2>4, NoNextCall, DoneKeeps
<1>12. CASE ProfileLoaded
  <2>1. UiOK(ui') BY <1>1, <1>12 DEF ProfileLoaded, UiOK
  <2> QED BY <1>12, <2>1, ShownKeeps DEF ProfileLoaded
<1>13. CASE GotoAvatar \/ OpenCamera \/ StreamArrives \/ LeaveCamera
  <2>1. UiOK(ui') BY <1>1, <1>2, <1>13 DEF GotoAvatar, OpenCamera, StreamArrives, LeaveCamera, UiOK
  <2>2. SignedIn' => SignedIn BY <1>13 DEF GotoAvatar, OpenCamera, StreamArrives, LeaveCamera, SignedIn
  <2> QED BY <1>13, <2>1, <2>2, ShownKeeps DEF GotoAvatar, OpenCamera, StreamArrives, LeaveCamera
<1> QED BY <1>3, <1>4, <1>5, <1>6, <1>7, <1>8, <1>9, <1>10, <1>11, <1>12, <1>13 DEF Profile

\* The list of clients (views/settings/clients.js, client_disconnect.js).
LEMMA ClientsKeep == ASSUME IInv, Elsewhere, ClientsPanel PROVE IInv'
<1>1. UiOK(ui) /\ AccountOK(account, Old(server)) /\ profile \in Profiles /\ DOMAIN calls = Slots BY DEF IInv
<1>2. NextCall(NoCall) /\ ~Ends(NoCall) BY NoNextCall, NoCallOK
<1>3. ASSUME NEW s \in Slots, NEW t \in Slots, FetchClients(s, t) PROVE IInv'
  <2>1. /\ s # t /\ calls[s].op = "none" /\ calls[t].op = "none" /\ (Change \/ UNCHANGED changes)
        /\ calls' = [calls EXCEPT ![s] = NewCall("fetchOAuthApps", "none"), ![t] = NewCall("sessions", "none")]
        /\ ui' = [ui EXCEPT !.refreshing = TRUE] /\ UNCHANGED <<server, assertion, trouble, use, account, profile, page>>
    BY <1>3 DEF FetchClients, Free
  <2>2. NextCall(NewCall("fetchOAuthApps", "none")) /\ NextCall(NewCall("sessions", "none")) BY PanelOpsAre, ThenNextCall
  <2>3. UiOK(ui') BY <1>1, <2>1 DEF UiOK
  <2>4. ~Ends(calls[s]) /\ ~Ends(calls[t]) BY <2>1 DEF Ends
  <2>5. SignedIn' => SignedIn BY <2>1 DEF SignedIn
  <2>6. PanelStep BY <1>1, <2>1, <2>2, <2>3, <2>4, <2>5, BoundsKept DEF PanelStep
  <2> QED BY <2>6, PanelKeeps
<1>4. ASSUME NEW s \in Slots, NEW t \in Slots, ListArrives(s, t) PROVE IInv'
  <2>1. /\ calls[s].op = "fetchOAuthApps" /\ calls[t].op = "sessions"
        /\ calls' = [calls EXCEPT ![s] = NoCall, ![t] = NoCall]
        /\ ui' = [ui EXCEPT !.refreshing = FALSE, !.list = Apps(calls[s].view.clients)
                                                            \cup (calls[t].view.clients \ {"app"})]
        /\ UNCHANGED <<server, assertion, trouble, use, changes, account, profile, page>>
    BY <1>4 DEF ListArrives, Answered
  <2>2. calls[t].view.clients \subseteq Clients BY DEF IInv, CallOK
  <2>3. UiOK(ui') BY <1>1, <2>1, <2>2 DEF UiOK, Apps, Clients
  <2>4. ~Ends(calls[s]) /\ ~Ends(calls[t]) BY <2>1 DEF Ends
  <2>5. SignedIn' => SignedIn BY <2>1 DEF SignedIn
  <2>6. PanelStep BY <1>1, <1>2, <2>1, <2>3, <2>4, <2>5, BoundsKept DEF PanelStep
  <2> QED BY <2>6, PanelKeeps
<1>5. ASSUME NEW s \in Slots, ListFails(s) PROVE IInv'
  <2>1. /\ calls' = [t \in Slots |-> IF calls[t].op \in {"fetchOAuthApps", "sessions"} THEN NoCall ELSE calls[t]]
        /\ ui' = [ui EXCEPT !.refreshing = FALSE]
        /\ UNCHANGED <<server, assertion, trouble, use, changes, account, profile, page>>
    BY <1>5 DEF ListFails
  <2>2. UiOK(ui') BY <1>1, <2>1 DEF UiOK
  <2>3. \A t \in Slots : calls'[t] = calls[t] \/ (calls'[t] = NoCall /\ ~Ends(calls[t])) BY <2>1 DEF Ends
  <2>4. SignedIn' => SignedIn BY <2>1 DEF SignedIn
  <2>5. DOMAIN calls' = Slots BY <2>1
  <2>6. PanelStep BY <1>1, <1>2, <2>1, <2>2, <2>3, <2>4, <2>5, BoundsKept DEF PanelStep
  <2> QED BY <2>6, PanelKeeps
<1>6. ASSUME NEW s \in Slots, NEW c, DestroyAccountClient(s, c), UNCHANGED <<account, profile, page, ui, changes>> PROVE IInv'
  <2>1. PICK op \in {"destroyOAuthApp", "deviceDestroy", "sessionDestroy"} : Ask(s, op, c)
    BY <1>6 DEF DestroyAccountClient
  <2>2. op \in PanelOps BY PanelOpsAre
  <2> QED BY <1>1, <1>6, <2>1, <2>2, AskKeeps
<1>7. ASSUME NEW s \in Slots, NEW c, DisconnectClient(s, c) PROVE IInv'
  <2>1. CASE c \in {"device", "thisDevice"}
    <3>1. /\ UNCHANGED <<server, assertion, trouble, calls, use, account, profile, changes>>
          /\ ui' = [ui EXCEPT !.name = c] /\ page = "panel"
      BY <1>7, <2>1 DEF DisconnectClient
    <3>2. UiOK(ui') BY <1>1, <3>1 DEF UiOK
    <3>3. SignedIn BY <3>1 DEF SignedIn
    <3> QED BY <3>1, <3>2, <3>3, ShownKeeps DEF tokenVars
  <2>2. CASE c \notin {"device", "thisDevice"} BY <1>6, <1>7, <2>2 DEF DisconnectClient
  <2> QED BY <2>1, <2>2
<1>8. ASSUME NEW s \in Slots, ConfirmDisconnect(s) PROVE IInv'
  BY <1>6, <1>8 DEF ConfirmDisconnect
<1>9. ASSUME NEW s \in Slots, DeviceDestroyed(s) \/ AppDestroyed(s) PROVE IInv'
  <2>1. /\ SignedIn /\ calls[s].step = "answered" /\ calls' = [calls EXCEPT ![s] = NoCall]
        /\ ui' = [ui EXCEPT !.list = @ \ {calls[s].arg}]
        /\ UNCHANGED <<server, assertion, trouble, use, changes, account, profile>>
    BY <1>9 DEF DeviceDestroyed, AppDestroyed, Answered, Finish, RemoveFromList
  <2>2. UiOK(ui') BY <1>1, <2>1 DEF UiOK
  <2>3. Ends(calls[s]) => ~SignedIn'
    BY <1>9, <2>1 DEF Ends, DeviceDestroyed, AppDestroyed, Answered, SignedIn
  <2> QED BY <1>1, <1>2, <2>1, <2>2, <2>3, DoneKeeps
<1>10. ASSUME NEW s \in Slots, SessionDestroyed(s) PROVE IInv'
  <2> DEFINE c == NewCall("recoveryEmailStatus", "none")
  <2>1. /\ SignedIn /\ calls' = [calls EXCEPT ![s] = c] /\ ui' = [ui EXCEPT !.list = @ \ {calls[s].arg}]
        /\ UNCHANGED <<server, assertion, trouble, use, changes, account, profile, page>>
    BY <1>10 DEF SessionDestroyed, Answered, Then, RemoveFromList
  <2>2. UiOK(ui') BY <1>1, <2>1 DEF UiOK
  <2>3. NextCall(c) BY PanelOpsAre, ThenNextCall
  <2>4. Ends(c)
    <3>1. "recoveryEmailStatus" \in Ops \ {"none", "destroyToken"} BY DEF Ops
    <3>2. Old(server) \subseteq Tokens \cup {0} /\ 0 \in Old(server) BY OldTokens DEF IInv
    <3>3. c.op = "recoveryEmailStatus" /\ c.step = "request" BY <1>1, <3>1, <3>2, NewCallOK
    <3> QED BY <3>3 DEF Ends
  <2> HIDE DEF c
  <2> QED BY <1>1, <2>1, <2>2, <2>3, <2>4, DoneKeeps
<1>11. ASSUME NEW s \in Slots, SessionStillThere(s) PROVE IInv'
  <2>1. /\ SignedIn /\ calls[s].op = "recoveryEmailStatus" /\ calls[s].step = "answered"
        /\ calls' = [calls EXCEPT ![s] = NoCall] /\ UNCHANGED <<server, assertion, trouble, use, changes, page, ui>>
    BY <1>11 DEF SessionStillThere, Answered, Finish
  <2>2. account' = [account EXCEPT !.verified = TRUE] /\ profile' \in Profiles
    BY <1>11, SetAccountOK DEF SessionStillThere
  <2>3. AccountOK(account', Old(server)) /\ account'.session = account.session BY <1>1, <2>2 DEF AccountOK
  <2>4. ~Ends(calls[s]) BY <2>1 DEF Ends
  <2> QED BY <1>1, <1>2, <2>1, <2>2, <2>3, <2>4, DoneKeeps
<1>12. ASSUME NEW s \in Slots, SessionIsGone(s) PROVE IInv'
  <2>1. /\ SignedIn /\ calls' = [calls EXCEPT ![s] = NoCall] /\ UNCHANGED <<server, assertion, trouble, use, changes, ui>>
        /\ page' = "signin"
    BY <1>12 DEF SessionIsGone, Rejected, Finish
  <2>2. account' \in {account, UnsetSessionToken} /\ profile' \in Profiles BY <1>12, SetAccountOK DEF SessionIsGone
  <2>3. AccountOK(account', Old(server)) BY <1>1, <2>2 DEF AccountOK, UnsetSessionToken
  <2>4. ~SignedIn' BY <2>1 DEF SignedIn
  <2> QED BY <1>1, <1>2, <2>1, <2>2, <2>3, <2>4, DoneKeeps
<1>13. CASE ReturnToClientList
  BY <1>1, <1>13, ShownKeeps DEF ReturnToClientList, SignedIn
<1> QED BY <1>3, <1>4, <1>5, <1>7, <1>8, <1>9, <1>10, <1>11, <1>12, <1>13 DEF ClientsPanel

\* What the gate and what is behind it show leaves the list of clients alone.
LEMMA ShowValueOK == ASSUME IInv, NEW v, ShowValue(v) PROVE UiOK(ui')
  BY DEF ShowValue, IInv, UiOK

\* The gate of the session, and what it lets through (upgrade-session-mixin.js).
LEMMA GateKeeps ==
    ASSUME IInv, Elsewhere, NEW s \in Slots, Render(s) \/ GateArrives(s) \/ GateFails(s) \/ CheckArrives(s)
    PROVE  IInv'
<1>1. UiOK(ui) /\ AccountOK(account, Old(server)) /\ profile \in Profiles BY DEF IInv
<1>2. CASE Render(s)
  <2>1. UiOK(ui') BY <1>1, <1>2 DEF Render, UiOK
  <2> QED BY <1>1, <1>2, <2>1, PanelOpsAre, AskKeeps DEF Render
<1>3. CASE GateArrives(s)
  <2>1. /\ SignedIn /\ calls[s].op = "sessionVerificationStatus" /\ UNCHANGED <<server, assertion, trouble, use, changes>>
        /\ calls' = [calls EXCEPT ![s] = NewCall(Check, "panel")] \/ calls' = [calls EXCEPT ![s] = NoCall]
        /\ ui' = [ui EXCEPT !.gated = ~calls[s].view.gate] /\ UNCHANGED <<account, profile, page>>
    BY <1>3 DEF GateArrives, Answered, Then, Finish
  <2>2. UiOK(ui') BY <1>1, <2>1 DEF UiOK
  <2>3. Check \in PanelOps BY PanelOpsAre DEF Check
  <2>4. NextCall(NewCall(Check, "panel")) BY <2>3, ThenNextCall
  <2>5. ~Ends(calls[s]) BY <2>1 DEF Ends
  <2> QED BY <1>1, <2>1, <2>2, <2>4, <2>5, NoNextCall, DoneKeeps
<1>4. CASE GateFails(s)
  <2>1. /\ SignedIn /\ calls[s].op = "sessionVerificationStatus" /\ calls' = [calls EXCEPT ![s] = NoCall]
        /\ UNCHANGED <<server, assertion, trouble, use, changes, page, ui>>
    BY <1>4 DEF GateFails, Rejected, Finish
  <2>2. /\ account' = IF calls[s].seen = "INVALID_TOKEN" THEN UnsetSessionToken ELSE account
        /\ profile' \in Profiles
    BY <1>4, SetAccountOK DEF GateFails
  <2>3. AccountOK(account', Old(server)) BY <1>1, <2>2 DEF AccountOK, UnsetSessionToken
  <2>4. trouble = 0 /\ server.sessions # {} => account'.session = account.session
    <3>1. trouble = 0 /\ server.sessions # {} => calls[s].seen # "INVALID_TOKEN"
      BY <2>1 DEF IInv, OtherPanelOK, Elsewhere
    <3> QED BY <2>2, <3>1
  <2>5. ~Ends(calls[s]) BY <2>1 DEF Ends
  <2> QED BY <1>1, <2>1, <2>2, <2>3, <2>4, <2>5, NoNextCall, DoneKeeps
<1>5. CASE CheckArrives(s)
  <2>1. /\ SignedIn /\ calls[s].step = "answered"
        /\ calls[s].op \in {"recoveryKeyExists", "checkTotpTokenExists", "recoveryEmails"}
        /\ calls' = [calls EXCEPT ![s] = NoCall]
        /\ UNCHANGED <<server, assertion, trouble, use, changes, account, profile>>
    BY <1>5 DEF CheckArrives, Answered, Finish
  <2>2. UiOK(ui') BY <1>1, <1>5, ShowValueOK DEF CheckArrives
  <2>3. ~Ends(calls[s]) BY <2>1 DEF Ends
  <2> QED BY <1>1, <2>1, <2>2, <2>3, NoNextCall, DoneKeeps
<1> QED BY <1>2, <1>3, <1>4, <1>5

\* A panel that is shown again.
LEMMA RefreshKeeps == ASSUME IInv, Elsewhere, Refresh PROVE IInv'
<1>1. UiOK(ui') BY DEF Refresh, IInv, UiOK
<1> QED BY <1>1, ShownKeeps DEF Refresh, SignedIn

\* A call of a panel is over, and what the account holds stays.
LEMMA AnswerKeeps ==
    ASSUME IInv, Elsewhere, NEW s \in Slots, SignedIn, calls[s].step = "answered",
           calls[s].op \notin {"deviceDestroy", "sessionDestroy", "accountDestroy"},
           NEW c, NextCall(c), calls' = [calls EXCEPT ![s] = c], UiOK(ui'),
           UNCHANGED <<server, assertion, trouble, use, changes, account, profile>>
    PROVE  IInv'
<1>1. ~Ends(calls[s]) BY DEF Ends
<1>2. AccountOK(account', Old(server)) /\ profile' \in Profiles /\ account'.session = account.session BY DEF IInv
<1> QED BY <1>1, <1>2, DoneKeeps

\* The recovery key (views/settings/account_recovery).
LEMMA RecoveryKeeps == ASSUME IInv, Elsewhere, RecoveryPanel PROVE IInv'
<1>1. UiOK(ui) /\ profile \in Profiles BY DEF IInv
<1>2. ASSUME NEW s \in Slots, CreateRecoveryBundle(s) \/ OpenConfirmRevoke(s) \/ DeleteRecoveryKey(s) PROVE IInv'
  BY <1>1, <1>2, PanelOpsAre, AskKeeps DEF CreateRecoveryBundle, OpenConfirmRevoke, DeleteRecoveryKey
<1>3. ASSUME NEW s \in Slots, RecoveryKeyCreated(s) PROVE IInv'
  <2>1. NextCall(NewCall("recoveryKeyExists", "recovery_key")) BY PanelOpsAre, ThenNextCall
  <2> QED BY <1>1, <1>3, <2>1, AnswerKeeps DEF RecoveryKeyCreated, Answered, Then
<1>4. ASSUME NEW s \in Slots, RecoveryKeyDeleted(s) PROVE IInv'
  <2>1. UiOK(ui') BY <1>4, ShowValueOK DEF RecoveryKeyDeleted
  <2> QED BY <1>4, <2>1, NoNextCall, AnswerKeeps DEF RecoveryKeyDeleted, Answered, Finish
<1>5. CASE ReturnToAccountRecovery
  <2>1. UiOK(ui') BY <1>5, ShowValueOK DEF ReturnToAccountRecovery
  <2> QED BY <1>5, <2>1, ShownKeeps DEF ReturnToAccountRecovery, SignedIn
<1> QED BY <1>2, <1>3, <1>4, <1>5 DEF RecoveryPanel

\* Two-step authentication (views/settings/two_step_authentication.js, recovery_codes.js).
LEMMA TotpKeeps == ASSUME IInv, Elsewhere, TotpPanel PROVE IInv'
<1>1. UiOK(ui) /\ profile \in Profiles BY DEF IInv
<1>2. ASSUME NEW s \in Slots, CreateToken(s) \/ SubmitTotpCode(s) \/ DeleteToken(s) \/ ReplaceRecoveryCodes(s) PROVE IInv'
  BY <1>1, <1>2, PanelOpsAre, AskKeeps DEF CreateToken, SubmitTotpCode, DeleteToken, ReplaceRecoveryCodes
<1>3. ASSUME NEW s \in Slots, TokenCreated(s) \/ CodesReplaced(s) PROVE IInv'
  BY <1>1, <1>3, NoNextCall, AnswerKeeps DEF TokenCreated, CodesReplaced, Answered, Finish
<1>4. ASSUME NEW s \in Slots, TotpEnabled(s) PROVE IInv'
  <2>1. NextCall(NewCall("checkTotpTokenExists", "recovery_codes")) BY PanelOpsAre, ThenNextCall
  <2>2. UiOK(ui') BY <1>1, <1>4 DEF TotpEnabled, UiOK
  <2> QED BY <1>4, <2>1, <2>2, AnswerKeeps DEF TotpEnabled, Answered, Then
<1>5. CASE ReturnToTwoStepAuthentication
  BY <1>1, <1>5, ShownKeeps DEF ReturnToTwoStepAuthentication, SignedIn
<1> QED BY <1>2, <1>3, <1>4, <1>5 DEF TotpPanel

\* The second e-mail, and what changes in the panels behind the gate (views/settings/emails.js).
LEMMA EmailsKeep ==
    ASSUME IInv, Elsewhere, NEW s \in Slots, SubmitEmail(s) \/ DisconnectEmail(s) \/ PanelChanged(s) PROVE IInv'
<1>1. UiOK(ui) /\ profile \in Profiles BY DEF IInv
<1>2. CASE SubmitEmail(s) \/ DisconnectEmail(s)
  BY <1>1, <1>2, PanelOpsAre, AskKeeps DEF SubmitEmail, DisconnectEmail
<1>3. CASE PanelChanged(s)
  <2>1. UiOK(ui') BY <1>1, <1>3 DEF PanelChanged, UiOK
  <2> QED BY <1>3, <2>1, NoNextCall, AnswerKeeps DEF PanelChanged, Answered, Finish
<1> QED BY <1>2, <1>3

-----------------------------------------------------------------------------
(***************************************************************************)
(* The newsletter and the account are by themselves.                       *)
(***************************************************************************)
LEMMA OnlyElsewhere ==
    ASSUME IInv, ~Elsewhere
    PROVE  /\ ~Profile /\ ~ClientsPanel /\ ~RecoveryPanel /\ ~TotpPanel /\ ~Refresh /\ ~SessionIsVerified
           /\ \A s \in Slots : /\ ~Render(s) /\ ~GateArrives(s) /\ ~GateFails(s) /\ ~CheckArrives(s)
                               /\ ~SubmitEmail(s) /\ ~DisconnectEmail(s) /\ ~PanelChanged(s)
<1> DEFINE Here == {"none", "fetchPrefs", "optIn", "destroyToken", "checkPassword", "passwordChange", "accountDestroy",
                    "sessionDestroy"}
<1>1. /\ use \in {"marketing", "account"} /\ page \in {"panel", "signin", "signup"} /\ ui.loads = {} /\ ~ui.avatar
      /\ ui.camera = "off" /\ \A s \in Slots : calls[s].op \in Here
      /\ \A s \in Slots : calls[s].op = "sessionDestroy" => calls[s].arg = "signout"
  BY DEF IInv, Elsewhere, NewsletterOK, AccountPanelOK, Quiet, PasswordOps
<1> HIDE DEF IInv, Elsewhere
<1>2. ~Profile
  <2>1. /\ \A s \in Slots : /\ ~FetchProfile(s) /\ ~ProfileArrives(s) /\ ~ProfileFails(s) /\ ~NamePosted(s)
                            /\ ~DisplayImage(s) /\ ~ImageArrives(s) /\ ~RemoveAvatar(s) /\ ~AvatarRemoved(s)
                            /\ ~SubmitPicture(s) /\ ~PictureUploaded(s) /\ \A n : ~SubmitName(s, n)
    BY <1>1 DEF FetchProfile, ProfileArrives, ProfileFails, NamePosted, DisplayImage, ImageArrives, RemoveAvatar,
                AvatarRemoved, SubmitPicture, PictureUploaded, SubmitName, Answered, Rejected
  <2>2. ~ProfileLoaded /\ ~GotoAvatar /\ ~OpenCamera /\ ~StreamArrives /\ ~LeaveCamera
    BY <1>1 DEF ProfileLoaded, GotoAvatar, OpenCamera, StreamArrives, LeaveCamera
  <2> QED BY <2>1, <2>2 DEF Profile
<1>3. ~ClientsPanel
  <2>1. \A s \in Slots : /\ ~ListFails(s) /\ ~ConfirmDisconnect(s) /\ ~DeviceDestroyed(s) /\ ~AppDestroyed(s)
                         /\ ~SessionDestroyed(s) /\ ~SessionStillThere(s) /\ ~SessionIsGone(s)
                         /\ \A t \in Slots : ~FetchClients(s, t) /\ ~ListArrives(s, t)
                         /\ \A c : ~DisconnectClient(s, c)
    BY <1>1 DEF ListFails, ConfirmDisconnect, DeviceDestroyed, AppDestroyed, SessionDestroyed, SessionStillThere,
                SessionIsGone, FetchClients, ListArrives, DisconnectClient, Answered, Rejected
  <2>2. ~ReturnToClientList BY <1>1 DEF ReturnToClientList
  <2> QED BY <2>1, <2>2 DEF ClientsPanel
<1>4. ~RecoveryPanel
  BY <1>1 DEF RecoveryPanel, CreateRecoveryBundle, RecoveryKeyCreated, OpenConfirmRevoke, DeleteRecoveryKey,
              RecoveryKeyDeleted, ReturnToAccountRecovery, Answered
<1>5. ~TotpPanel
  BY <1>1 DEF TotpPanel, CreateToken, TokenCreated, SubmitTotpCode, TotpEnabled, DeleteToken, ReplaceRecoveryCodes,
              CodesReplaced, ReturnToTwoStepAuthentication, Answered
<1>6. ~Refresh /\ ~SessionIsVerified BY <1>1 DEF Refresh, SessionIsVerified, Gated
<1>7. \A s \in Slots : /\ ~Render(s) /\ ~GateArrives(s) /\ ~GateFails(s) /\ ~CheckArrives(s)
                       /\ ~SubmitEmail(s) /\ ~DisconnectEmail(s) /\ ~PanelChanged(s)
  BY <1>1 DEF Render, GateArrives, GateFails, CheckArrives, SubmitEmail, DisconnectEmail, PanelChanged, Gated,
              Answered, Rejected
<1> QED BY <1>2, <1>3, <1>4, <1>5, <1>6, <1>7

\* A step of the newsletter.
LEMMA NewsletterStepKeeps ==
    ASSUME IInv, use = "marketing", NEW s \in Slots, NEW c, CallOK(c, Old(server)), calls' = [calls EXCEPT ![s] = c],
           c.op \in {"none", "fetchPrefs", "optIn", "destroyToken"}, c.seen = "none",
           UNCHANGED <<server, assertion, trouble, use, page, profile>>, Change \/ UNCHANGED changes,
           AccountOK(account', Old(server)), account'.session = account.session, UiOK(ui'), NewsletterOK'
    PROVE  IInv'
<1>1. /\ OtherPanelOK /\ NewsletterOK /\ DOMAIN calls = Slots /\ \A t \in Slots : CallOK(calls[t], Old(server)) BY DEF IInv
<1>2. Old(server)' = Old(server) /\ SignedIn' = SignedIn BY DEF Old, SignedIn
<1>3. (\A t \in Slots : CallOK(calls[t], Old(server)))' BY <1>1, <1>2
<1>4. c.op \notin PasswordOps BY DEF PasswordOps
<1>5. c.op \notin WithAccessToken => c.step # "request"
  BY DEF WithAccessToken, MarketingMethods, CallOK
<1>6. OtherPanelOK' BY <1>1, <1>2, <1>4, <1>5 DEF OtherPanelOK
<1>7. ~Ends(calls[s]) BY <1>1 DEF NewsletterOK, Ends
<1>8. (trouble = 0 /\ SignedIn /\ server.sessions = {} => \E t \in Slots : Ends(calls[t]))'
  <2>1. trouble = 0 /\ SignedIn /\ server.sessions = {} => \E t \in Slots : Ends(calls[t]) BY DEF IInv
  <2> QED BY <1>1, <1>2, <1>7, <2>1
<1>9. /\ ServerOK(server)' /\ AccountOK(account, Old(server))' /\ UiOK(ui)' /\ assertion' \in Assertions
      /\ profile' \in Profiles /\ trouble' \in 0 .. MaxTrouble /\ changes' \in 0 .. MaxChanges /\ DOMAIN calls' = Slots
  BY <1>1, <1>2, BoundsKept DEF IInv, ServerOK, AccountOK, UiOK
<1> QED BY <1>3, <1>6, <1>8, <1>9 DEF IInv

\* The newsletter and its one token (communication_preferences.js, models/marketing-email-prefs.js).
LEMMA NewsletterKeeps == ASSUME IInv, Newsletter PROVE IInv'
<1> DEFINE old == Old(server)
<1>1. /\ UiOK(ui) /\ AccountOK(account, old) /\ old \subseteq Tokens \cup {0} /\ 0 \in old /\ DOMAIN calls = Slots
      /\ use = "marketing" => NewsletterOK
      /\ use # "marketing" => \A s \in Slots : calls[s].op \notin MarketingMethods \cup {"destroyToken"}
      /\ \A s \in Slots : CallOK(calls[s], old)
  BY OldTokens DEF IInv
<1>2. ASSUME NEW s \in Slots, FetchPrefs(s) \/ OptIn(s) PROVE IInv'
  <2>1. PICK op \in MarketingMethods :
          /\ use = "marketing" /\ calls[s].op = "none" /\ calls' = [calls EXCEPT ![s] = NewCall(op, "none")]
          /\ UNCHANGED <<server, assertion, trouble, use, page, profile, account>> /\ (Change \/ UNCHANGED changes)
          /\ \/ op = "fetchPrefs" /\ ui.render /\ ui' = [ui EXCEPT !.render = FALSE]
             \/ op = "optIn" /\ ui.ready /\ ~UnderWay("optIn") /\ ui' = ui
    BY <1>2 DEF FetchPrefs, OptIn, Ask, Call, Free, IsBasketReady, MarketingMethods
  <2> DEFINE c == NewCall(op, "none")
  <2>2. op \in Ops \ {"none", "destroyToken"} BY DEF Ops, MarketingMethods
  <2>3. CallOK(c, old) /\ c.op = op /\ c.seen = "none" /\ c.step = "assertion" BY <1>1, <2>2, NewCallOK
  <2>4. UiOK(ui') /\ Quiet(ui') /\ ui'.ready = ui.ready /\ ui'.lost = ui.lost /\ (op = "fetchPrefs" => ~ui'.render)
        /\ (op = "optIn" => ui'.render = ui.render)
    BY <1>1, <2>1 DEF UiOK, Quiet, NewsletterOK
  <2> HIDE DEF c
  <2>5. NewsletterOK BY <1>1, <2>1
  <2>6. \A t \in Slots : ~Renewing(calls[t])
    BY <2>1, <2>5 DEF NewsletterOK, Renewing, UnderWay, MarketingMethods
  <2>7. account.prefs = 0 BY <2>5, <2>6 DEF NewsletterOK
  <2>8. \A t \in Slots : calls'[t] = IF t = s THEN c ELSE calls[t] BY <1>1, <2>1 DEF c
  <2>9. \A t \in Slots : calls[t].op = "destroyToken" => t # s BY <2>1
  <2>10. NewsletterOK'
    <3>1. \A t \in Slots :
            /\ calls'[t].op \in {"none", "fetchPrefs", "optIn", "destroyToken"}
            /\ ui'.render => ~ui'.ready /\ ~Renewing(calls'[t])
            /\ calls'[t].op = "fetchPrefs" => ~ui'.ready
            /\ calls'[t].op = "optIn" => ui'.ready
            /\ calls'[t].op = "destroyToken" /\ calls'[t].step = "answered" => calls'[t].token \notin server.tokens
      BY <2>1, <2>3, <2>4, <2>5, <2>6, <2>8 DEF NewsletterOK, MarketingMethods, Renewing
    <3>2. \A t, u \in Slots : Renewing(calls'[t]) /\ Renewing(calls'[u]) => t = u BY <2>6, <2>8
    <3>3. \A k \in server.tokens :
            k = account.prefs \/ k \in ui.lost \/ \E t \in Slots : calls'[t].op = "destroyToken" /\ calls'[t].token = k
      BY <2>5, <2>8, <2>9 DEF NewsletterOK
    <3> QED BY <2>1, <2>4, <2>5, <2>7, <3>1, <3>2, <3>3 DEF NewsletterOK
  <2> QED BY <1>1, <2>1, <2>3, <2>4, <2>10, NewsletterStepKeeps DEF c, MarketingMethods
<1>3. ASSUME NEW s \in Slots, WithMarketingEmailClient(s) PROVE IInv'
  <2> DEFINE d == [NewCall("destroyToken", "none") EXCEPT !.token = account.prefs]
  <2>1. /\ calls[s].op \in MarketingMethods /\ calls[s].step \in {"answered", "rejected"}
        /\ ui' = [ui EXCEPT !.ready = TRUE,
                            !.value = IF calls[s].step = "answered" THEN calls[s].view.value ELSE @]
        /\ account' = [account EXCEPT !.prefs = 0]
        /\ calls' = [calls EXCEPT ![s] = IF account.prefs = 0 THEN NoCall ELSE d]
        /\ UNCHANGED <<server, assertion, trouble, use, changes, profile, page>>
    BY <1>3 DEF WithMarketingEmailClient
  <2>2. use = "marketing" /\ NewsletterOK BY <1>1, <2>1
  <2> DEFINE c == IF account.prefs = 0 THEN NoCall ELSE d
  <2>3. account.prefs # 0 => /\ CallOK(d, old) /\ d.op = "destroyToken" /\ d.token = account.prefs /\ d.seen = "none"
                             /\ d.step = "request"
    <3> DEFINE n == NewCall("destroyToken", "none")
    <3>1. /\ n.op = "destroyToken" /\ n.step = "request" /\ n.first = 0 /\ n.seen = "none" /\ n.view = NoView
          /\ DOMAIN n = {"op", "arg", "step", "token", "first", "seen", "view"}
      BY DEF NewCall, FirstStep, ProfileMethods, MarketingMethods
    <3>2. DOMAIN NoView = {"name", "image", "clients", "value", "gate"} /\ NoView.clients = {} BY DEF NoView
    <3>3. "destroyToken" \in Ops /\ "destroyToken" \notin OAuthAppMethods \cup ProfileMethods /\ "request" \in Steps
      BY DEF Ops, OAuthAppMethods, ProfileMethods, Steps
    <3>4. account.prefs \in old BY <1>1 DEF AccountOK
    <3>5. d = [n EXCEPT !.token = account.prefs] OBVIOUS
    <3> HIDE DEF n, d
    <3>6. /\ DOMAIN d = DOMAIN n /\ d.op = n.op /\ d.step = n.step /\ d.first = n.first /\ d.seen = n.seen
          /\ d.view = n.view /\ d.token = account.prefs
      BY <3>1, <3>5
    <3> QED BY <1>1, <3>1, <3>2, <3>3, <3>4, <3>6 DEF CallOK
  <2> HIDE DEF d
  <2>4. /\ CallOK(c, old) /\ c.seen = "none" /\ c.op \in {"none", "destroyToken"} /\ c.step # "answered"
        /\ account.prefs # 0 => c.op = "destroyToken" /\ c.token = account.prefs
    BY <2>3, NoCallOK
  <2>5. calls' = [calls EXCEPT ![s] = c] BY <2>1
  <2> HIDE DEF c
  <2>6. UiOK(ui') /\ Quiet(ui') /\ ui'.ready /\ ui'.lost = ui.lost /\ ui'.render = ui.render
    BY <1>1, <2>1, <2>2 DEF UiOK, Quiet, NewsletterOK
  <2>7. \A t \in Slots : calls'[t] = IF t = s THEN c ELSE calls[t] BY <1>1, <2>5
  <2>8. Renewing(calls[s]) /\ \A t \in Slots : t # s => ~Renewing(calls[t])
    BY <2>1, <2>2 DEF NewsletterOK, Renewing
  <2>9. ~Renewing(c) BY <2>4 DEF Renewing, MarketingMethods
  <2>10. AccountOK(account', old) /\ account'.session = account.session /\ account'.prefs = 0
    BY <1>1, <2>1 DEF AccountOK
  <2>11. NewsletterOK'
    <3>1. \A t \in Slots : ~Renewing(calls'[t]) BY <2>7, <2>8, <2>9
    <3>2. \A t \in Slots :
            /\ calls'[t].op \in {"none", "destroyToken"}
            /\ calls'[t].op = "destroyToken" /\ calls'[t].step = "answered" => calls'[t].token \notin server.tokens
      BY <2>2, <2>4, <2>7, <3>1 DEF NewsletterOK, Renewing, MarketingMethods
    <3>3. ~ui.render BY <2>2, <2>8 DEF NewsletterOK
    <3>4. ASSUME NEW k \in server.tokens
          PROVE  k \in ui.lost \/ \E t \in Slots : calls'[t].op = "destroyToken" /\ calls'[t].token = k
      <4>1. k # 0 BY TokenAssumption DEF IInv, ServerOK, Tokens
      <4>2. CASE k = account.prefs BY <2>4, <2>7, <4>1, <4>2
      <4>3. CASE k \in ui.lost BY <4>3
      <4>4. CASE \E t \in Slots : calls[t].op = "destroyToken" /\ calls[t].token = k
        <5>1. PICK t \in Slots : calls[t].op = "destroyToken" /\ calls[t].token = k BY <4>4
        <5>2. t # s BY <2>1, <5>1 DEF MarketingMethods
        <5> QED BY <2>7, <5>1, <5>2
      <4> QED BY <2>2, <4>2, <4>3, <4>4 DEF NewsletterOK
    <3> QED BY <2>1, <2>2, <2>6, <2>10, <3>1, <3>2, <3>3, <3>4 DEF NewsletterOK
  <2> QED BY <2>1, <2>2, <2>4, <2>5, <2>6, <2>10, <2>11, NewsletterStepKeeps
<1>4. ASSUME NEW s \in Slots, TokenDestroyed(s) PROVE IInv'
  <2>1. /\ calls[s].op = "destroyToken" /\ calls[s].step \in {"answered", "rejected"}
        /\ ui' = [ui EXCEPT !.lost = IF calls[s].step = "rejected" THEN @ \cup {calls[s].token} ELSE @]
        /\ calls' = [calls EXCEPT ![s] = NoCall]
        /\ UNCHANGED <<server, assertion, trouble, use, changes, profile, page, account>>
    BY <1>4 DEF TokenDestroyed, Finish
  <2>2. use = "marketing" /\ NewsletterOK BY <1>1, <2>1
  <2>3. CallOK(NoCall, old) /\ NoCall.seen = "none" /\ NoCall.op = "none" BY NoCallOK
  <2>4. UiOK(ui') /\ Quiet(ui') /\ ui'.ready = ui.ready /\ ui'.render = ui.render /\ ui.lost \subseteq ui'.lost
        /\ (calls[s].step = "rejected" => calls[s].token \in ui'.lost)
    BY <1>1, <2>1, <2>2 DEF UiOK, Quiet, NewsletterOK
  <2>5. \A t \in Slots : calls'[t] = IF t = s THEN NoCall ELSE calls[t] BY <1>1, <2>1
  <2>6. ~Renewing(calls[s]) /\ ~Renewing(NoCall) BY <2>1, <2>3 DEF Renewing, MarketingMethods
  <2>7. NewsletterOK'
    <3>1. \A t \in Slots :
            /\ calls'[t].op \in {"none", "fetchPrefs", "optIn", "destroyToken"}
            /\ ui'.render => ~ui'.ready /\ ~Renewing(calls'[t])
            /\ calls'[t].op = "fetchPrefs" => ~ui'.ready
            /\ calls'[t].op = "optIn" => ui'.ready
            /\ calls'[t].op = "destroyToken" /\ calls'[t].step = "answered" => calls'[t].token \notin server.tokens
      BY <2>2, <2>3, <2>4, <2>5, <2>6 DEF NewsletterOK
    <3>2. \A t, u \in Slots : Renewing(calls'[t]) /\ Renewing(calls'[u]) => t = u BY <2>2, <2>5, <2>6 DEF NewsletterOK
    <3>3. account.prefs # 0 =>
            \E t \in Slots : /\ Renewing(calls'[t]) /\ calls'[t].token = account.prefs
                             /\ calls'[t].step \in {"request", "answered", "rejected"}
      BY <2>2, <2>5, <2>6 DEF NewsletterOK
    <3>4. ASSUME NEW k \in server.tokens
          PROVE  k = account.prefs \/ k \in ui'.lost \/ \E t \in Slots : calls'[t].op = "destroyToken" /\ calls'[t].token = k
      <4>1. CASE k = account.prefs \/ k \in ui.lost BY <2>4, <4>1
      <4>2. CASE \E t \in Slots : calls[t].op = "destroyToken" /\ calls[t].token = k
        <5>1. PICK t \in Slots : calls[t].op = "destroyToken" /\ calls[t].token = k BY <4>2
        <5>2. CASE t = s BY <2>1, <2>2, <2>4, <5>1, <5>2 DEF NewsletterOK
        <5>3. CASE t # s BY <2>5, <5>1, <5>3
        <5> QED BY <5>2, <5>3
      <4> QED BY <2>2, <4>1, <4>2 DEF NewsletterOK
    <3> QED BY <2>1, <2>2, <2>4, <3>1, <3>2, <3>3, <3>4 DEF NewsletterOK
  <2>8. AccountOK(account', old) /\ account'.session = account.session BY <1>1, <2>1
  <2> QED BY <2>1, <2>2, <2>3, <2>4, <2>7, <2>8, NewsletterStepKeeps
<1> QED BY <1>2, <1>3, <1>4 DEF Newsletter

\* A step of the panels of the account: one call begins, changes or is over.
LEMMA AccountStepKeeps ==
    ASSUME IInv, use = "account", NEW s \in Slots, NEW c, CallOK(c, Old(server)), calls' = [calls EXCEPT ![s] = c],
           c.op \in PasswordOps \cup {"none", "sessionDestroy"}, c.op = "sessionDestroy" => c.arg = "signout", ~Changed(c),
           UNCHANGED <<server, trouble, use, ui>>, Change \/ UNCHANGED changes,
           assertion' \in Assertions, profile' \in Profiles, AccountOK(account', Old(server)),
           page' \in {"panel", "signin", "signup"}, 1 \in server.sessions => account'.session # 2,
           SignedIn' => /\ SignedIn /\ (Ends(calls[s]) => Ends(c)) /\ account'.session # 0
                        /\ account'.session = 2 \/ (account'.session = account.session /\ ~Changed(calls[s]))
    PROVE  IInv'
<1>1. /\ AccountPanelOK /\ DOMAIN calls = Slots /\ \A t \in Slots : CallOK(calls[t], Old(server)) BY DEF IInv
<1>2. Old(server)' = Old(server) BY DEF Old
<1>3. \A t \in Slots : calls'[t] = IF t = s THEN c ELSE calls[t] BY <1>1
<1>4. (\A t \in Slots : CallOK(calls[t], Old(server)))' BY <1>1, <1>2, <1>3
<1>5. c.op \notin MarketingMethods \cup {"destroyToken"} BY DEF PasswordOps, MarketingMethods
<1>6. use # "marketing" /\ \A t \in Slots : calls'[t].op \notin MarketingMethods \cup {"destroyToken"}
  BY <1>3, <1>5 DEF IInv
<1>7. AccountPanelOK'
  <2>1. \A t \in Slots :
          /\ calls'[t].op \in PasswordOps \cup {"none", "sessionDestroy"}
          /\ calls'[t].op = "sessionDestroy" => calls'[t].arg = "signout"
          /\ Changed(calls'[t]) => 1 \notin server.sessions
    BY <1>1, <1>3 DEF AccountPanelOK
  <2>2. SignedIn' => /\ account'.session # 0
                     /\ 2 \in server.sessions => account'.session = 2 \/ \E t \in Slots : Changed(calls'[t])
    BY <1>1, <1>3 DEF AccountPanelOK
  <2> QED BY <1>1, <2>1, <2>2 DEF AccountPanelOK
<1>8. (trouble = 0 /\ SignedIn /\ server.sessions = {} => \E t \in Slots : Ends(calls[t]))'
  <2>1. trouble = 0 /\ SignedIn /\ server.sessions = {} => \E t \in Slots : Ends(calls[t]) BY DEF IInv
  <2> QED BY <1>3, <2>1
<1>9. /\ ServerOK(server)' /\ AccountOK(account, Old(server))' /\ UiOK(ui)' /\ assertion' \in Assertions
      /\ profile' \in Profiles /\ trouble' \in 0 .. MaxTrouble /\ changes' \in 0 .. MaxChanges /\ DOMAIN calls' = Slots
  BY <1>1, <1>2, BoundsKept DEF IInv, ServerOK, AccountOK, UiOK
<1> QED BY <1>4, <1>6, <1>7, <1>8, <1>9 DEF IInv

\* The password, the end of the account, and signing out (change_password.js, delete_account.js, settings.js).
LEMMA AccountKeeps == ASSUME IInv, AccountPanels PROVE IInv'
<1> DEFINE old == Old(server)
<1>1. /\ AccountOK(account, old) /\ old \subseteq Tokens \cup {0} /\ 0 \in old /\ DOMAIN calls = Slots
      /\ use = "account" => AccountPanelOK
      /\ use = "marketing" => NewsletterOK
      /\ use # "account" => OtherPanelOK
      /\ UiOK(ui) /\ assertion \in Assertions /\ profile \in Profiles
  BY OldTokens DEF IInv
<1>2. /\ CallOK(NoCall, old) /\ ~Changed(NoCall) /\ NoCall.op \in PasswordOps \cup {"none", "sessionDestroy"}
      /\ NoCall.op = "none" /\ NoCall.op # "sessionDestroy"
  BY NoCallOK
<1>3. "none" \in Assertions BY DEF Assertions
<1>4. PasswordOps \cup {"sessionDestroy"} \subseteq Ops \ {"none", "destroyToken"} BY DEF PasswordOps, Ops
<1>5. ASSUME NEW op \in PasswordOps \cup {"sessionDestroy"}, NEW arg
      PROVE  CallOK(NewCall(op, arg), old) /\ NewCall(op, arg).op = op /\ NewCall(op, arg).arg = arg
             /\ ~Changed(NewCall(op, arg))
  <2> DEFINE c == NewCall(op, arg)
  <2>1. CallOK(c, old) /\ c.op = op /\ c.arg = arg /\ c.step # "answered" BY <1>1, <1>4, NewCallOK
  <2> HIDE DEF c
  <2> QED BY <2>1 DEF Changed, c
<1>6. ASSUME NEW s \in Slots, NEW op \in {"checkPassword", "accountDestroy"}, NEW arg, use = "account", page = "panel",
             Ask(s, op, arg), Change, UNCHANGED <<account, profile, page, ui>>
      PROVE  IInv'
  <2> DEFINE c == NewCall(op, arg)
  <2>1. /\ calls[s].op = "none" /\ calls' = [calls EXCEPT ![s] = c] /\ UNCHANGED <<server, assertion, trouble, use>>
    BY <1>6 DEF Ask, Call, Free
  <2>2. ~Ends(calls[s]) /\ ~Changed(calls[s]) BY <2>1 DEF Ends, Changed
  <2>3. CallOK(c, old) /\ c.op = op /\ ~Changed(c) BY <1>5 DEF PasswordOps
  <2> HIDE DEF c
  <2>4. SignedIn /\ account.session # 0 /\ (1 \in server.sessions => account.session # 2)
    BY <1>1, <1>6 DEF AccountPanelOK, SignedIn
  <2> QED BY <1>1, <1>6, <2>1, <2>2, <2>3, <2>4, AccountStepKeeps DEF PasswordOps
<1>7. ASSUME NEW s \in Slots, NEW what, CheckPassword(s, what) PROVE IInv'
  BY <1>6, <1>7 DEF CheckPassword
<1>8. ASSUME NEW s \in Slots, PasswordChecked(s) PROVE IInv'
  <2>1. /\ SignedIn /\ calls[s].op = "checkPassword"
        /\ UNCHANGED <<server, assertion, trouble, use, changes, account, profile, page, ui>>
    BY <1>8 DEF PasswordChecked, Answered, Then, Finish
  <2>2. PICK c : /\ calls' = [calls EXCEPT ![s] = c] /\ CallOK(c, old) /\ ~Changed(c)
                 /\ c.op \in {"none", "passwordChange"}
    <3>1. CASE Then(s, "passwordChange", "password") BY <1>5, <3>1 DEF Then, PasswordOps
    <3>2. CASE Finish(s) BY <1>2, <3>2 DEF Finish
    <3> QED BY <1>8, <3>1, <3>2 DEF PasswordChecked
  <2>3. use = "account" BY <1>1, <2>1 DEF OtherPanelOK, PasswordOps
  <2>4. ~Ends(calls[s]) /\ ~Changed(calls[s]) BY <2>1 DEF Ends, Changed
  <2>5. page \in {"panel", "signin", "signup"} /\ account.session # 0 /\ (1 \in server.sessions => account.session # 2)
    BY <1>1, <2>1, <2>3 DEF AccountPanelOK
  <2> QED BY <1>1, <2>1, <2>2, <2>3, <2>4, <2>5, AccountStepKeeps DEF PasswordOps
<1>9. ASSUME NEW s \in Slots, PasswordChanged(s) PROVE IInv'
  <2>1. /\ SignedIn /\ Changed(calls[s]) /\ calls' = [calls EXCEPT ![s] = NoCall] /\ assertion' = "none"
        /\ UNCHANGED <<server, trouble, use, page, ui, changes>>
    BY <1>9 DEF PasswordChanged, Answered, Changed
  <2>2. account' = [account EXCEPT !.session = 2] /\ profile' \in Profiles BY <1>9, SetAccountOK DEF PasswordChanged
  <2>3. AccountOK(account', old) /\ account'.session = 2 BY <1>1, <2>2 DEF AccountOK
  <2>4. use = "account" BY <1>1, <2>1 DEF OtherPanelOK, PasswordOps, Changed
  <2>5. ~Ends(calls[s]) BY <2>1 DEF Ends, Changed
  <2>6. page \in {"panel", "signin", "signup"} /\ 1 \notin server.sessions BY <1>1, <2>1, <2>4 DEF AccountPanelOK
  <2>7. /\ assertion' \in Assertions /\ page' \in {"panel", "signin", "signup"} /\ account'.session # 0
        /\ UNCHANGED changes /\ UNCHANGED <<server, trouble, use, ui>> /\ SignedIn
    BY <1>3, <2>1, <2>3, <2>6
  <2> QED BY <1>2, <2>1, <2>2, <2>3, <2>4, <2>5, <2>6, <2>7, AccountStepKeeps
<1>10. ASSUME NEW s \in Slots, AccountDeleted(s) \/ SignedOut(s) PROVE IInv'
  <2>1. /\ SignedIn /\ calls' = [calls EXCEPT ![s] = NoCall] /\ UNCHANGED <<server, assertion, trouble, use, changes, ui>>
        /\ page' \in {"signin", "signup"} /\ calls[s].op \in {"accountDestroy", "sessionDestroy"}
    BY <1>10 DEF AccountDeleted, SignedOut, Answered, Finish
  <2>2. account' = DiscardSessionToken /\ profile' \in Profiles BY <1>10, SetAccountOK DEF AccountDeleted, SignedOut
  <2>3. AccountOK(account', old) /\ account'.session = 0 BY <1>1, <2>2 DEF AccountOK, DiscardSessionToken
  <2>4. ~SignedIn' BY <2>1 DEF SignedIn
  <2>5. CASE use = "account"
    <3>1. assertion' \in Assertions /\ page' \in {"panel", "signin", "signup"} /\ account'.session # 2 BY <1>1, <2>1, <2>3
    <3> QED BY <1>2, <2>1, <2>2, <2>3, <2>4, <2>5, <3>1, AccountStepKeeps
  <2>6. CASE Elsewhere BY <1>1, <2>1, <2>2, <2>3, <2>4, <2>6, NoNextCall, DoneKeeps
  <2>7. use # "marketing" BY <1>1, <2>1 DEF NewsletterOK
  <2> QED BY <2>5, <2>6, <2>7 DEF Elsewhere
<1>11. ASSUME NEW s \in Slots, SignOut(s) PROVE IInv'
  <2> DEFINE c == NewCall("sessionDestroy", "signout")
  <2>1. /\ use = "account" /\ page = "panel" /\ calls[s].op = "none" /\ calls' = [calls EXCEPT ![s] = c]
        /\ UNCHANGED <<server, assertion, trouble, use, account, profile, page, ui, changes>>
    BY <1>11 DEF SignOut, Ask, Call, Free
  <2>2. ~Ends(calls[s]) /\ ~Changed(calls[s]) BY <2>1 DEF Ends, Changed
  <2>3. CallOK(c, old) /\ c.op = "sessionDestroy" /\ c.arg = "signout" /\ ~Changed(c) BY <1>5
  <2> HIDE DEF c
  <2>4. SignedIn /\ account.session # 0 /\ (1 \in server.sessions => account.session # 2)
    BY <1>1, <2>1 DEF AccountPanelOK, SignedIn
  <2> QED BY <1>1, <2>1, <2>2, <2>3, <2>4, AccountStepKeeps
<1> QED BY <1>7, <1>8, <1>9, <1>10, <1>11 DEF AccountPanels

\* An error that a panel shows.
LEMMA ShowErrorKeeps == ASSUME IInv, NEW s \in Slots, ShowError(s) PROVE IInv'
<1>1. /\ SignedIn /\ calls[s].step = "rejected" /\ calls[s].op \notin Handled /\ calls[s].arg # "signout"
      /\ calls' = [calls EXCEPT ![s] = NoCall]
      /\ UNCHANGED <<server, assertion, trouble, use, changes, account, profile, page, ui>>
  BY DEF ShowError, Rejected, Finish
<1>2. /\ AccountOK(account, Old(server)) /\ UiOK(ui) /\ assertion \in Assertions /\ profile \in Profiles
      /\ CallOK(calls[s], Old(server))
  BY DEF IInv
<1>3. ~Ends(calls[s]) /\ ~Changed(calls[s]) BY <1>1 DEF Ends, Changed, Handled
<1>4. CallOK(NoCall, Old(server)) /\ ~Changed(NoCall) /\ NoCall.op = "none" BY NoCallOK
<1>5. CASE Elsewhere BY <1>1, <1>2, <1>3, <1>5, NoNextCall, DoneKeeps
<1>6. CASE use = "account"
  <2>1. AccountPanelOK BY <1>6 DEF IInv
  <2> QED BY <1>1, <1>2, <1>3, <1>4, <1>6, <2>1, AccountStepKeeps DEF AccountPanelOK
<1>7. use # "marketing"
  <2>1. calls[s].op # "none" BY <1>1, <1>2 DEF CallOK
  <2> QED BY <1>1, <2>1 DEF IInv, NewsletterOK, Handled, MarketingMethods
<1> QED BY <1>5, <1>6, <1>7 DEF Elsewhere

-----------------------------------------------------------------------------
(***************************************************************************)
(* The servers.                                                            *)
(***************************************************************************)
LEMMA EffectOK ==
    ASSUME ServerOK(server), NEW op, NEW arg, NEW token
    PROVE  LET v == Effect(op, arg, token) IN
           /\ ServerOK(v) /\ v.issued = server.issued
           /\ v.tokens = IF op = "destroyToken" THEN server.tokens \ {token} ELSE server.tokens
           /\ op = "passwordChange" => v.sessions = {2}
           /\ op # "passwordChange" => v.sessions \subseteq server.sessions
           /\ op # "passwordChange" /\ v.sessions # server.sessions =>
                 \/ op = "deviceDestroy" /\ arg = "thisDevice"
                 \/ op = "sessionDestroy" /\ arg \in {"thisSession", "signout"}
                 \/ op = "accountDestroy"
<1> DEFINE v == Effect(op, arg, token)
<1>1. /\ DOMAIN server = {"sessions", "verified", "tokens", "issued", "name", "image", "value", "gate", "clients"}
      /\ server.sessions \in {{}, {1}, {2}} /\ server.verified \in BOOLEAN
      /\ server.tokens \subseteq server.issued /\ server.issued \subseteq Tokens /\ server.clients \subseteq Clients
  BY DEF ServerOK
<1>2. /\ DOMAIN v = DOMAIN server /\ v.verified = server.verified /\ v.issued = server.issued
      /\ v.tokens = IF op = "destroyToken" THEN server.tokens \ {token} ELSE server.tokens
      /\ v.clients \subseteq server.clients
      /\ \/ op = "passwordChange" /\ v.sessions = {2}
         \/ op # "passwordChange" /\ v.sessions = server.sessions
         \/ /\ v.sessions = {}
            /\ \/ op = "deviceDestroy" /\ arg = "thisDevice"
               \/ op = "sessionDestroy" /\ arg \in {"thisSession", "signout"}
               \/ op = "accountDestroy"
  <2>1. CASE op \in {"postDisplayName", "uploadAvatar", "deleteAvatar"}
    BY <1>1, <2>1 DEF Effect, PostDisplayName, UploadAvatar, DeleteAvatar
  <2>2. CASE op = "deviceDestroy" BY <1>1, <2>2 DEF Effect, DestroyDevice
  <2>3. CASE op = "sessionDestroy" BY <1>1, <2>3 DEF Effect, DestroySession
  <2>4. CASE op \in {"destroyOAuthApp", "destroyToken"} BY <1>1, <2>4 DEF Effect, DestroyOAuthApp, DestroyToken
  <2>5. CASE op \in {"passwordChange", "accountDestroy"} BY <1>1, <2>5 DEF Effect, ChangePassword, DeleteAccount
  <2>6. CASE op \notin {"postDisplayName", "uploadAvatar", "deleteAvatar", "deviceDestroy", "sessionDestroy",
                        "destroyOAuthApp", "destroyToken", "passwordChange", "accountDestroy"}
    <3>1. v = SetValue(NewValue(op)) BY <2>6 DEF Effect
    <3> HIDE DEF v
    <3> QED BY <1>1, <2>6, <3>1 DEF SetValue
  <2> QED BY <2>1, <2>2, <2>3, <2>4, <2>5, <2>6
<1> HIDE DEF v
<1>3. v.sessions \in {{}, {1}, {2}} BY <1>1, <1>2
<1>4. v.tokens \subseteq server.tokens BY <1>2
<1>5. ServerOK(v) BY <1>1, <1>2, <1>3, <1>4 DEF ServerOK
<1> QED BY <1>2, <1>5 DEF v

\* A request is accepted.
LEMMA ServeKeeps == ASSUME IInv, NEW s \in Slots, Serve(s) PROVE IInv'
<1> DEFINE old == Old(server)
           op == calls[s].op
           v == Effect(op, calls[s].arg, calls[s].token)
           view == [f \in DOMAIN NoView |-> v[f]]
           c == [calls[s] EXCEPT !.step = "answered", !.view = view]
<1>1. /\ calls[s].step = "request"
      /\ calls[s].token \in IF op \in WithAccessToken THEN server.tokens ELSE server.sessions
      /\ server' = v /\ calls' = [calls EXCEPT ![s].step = "answered", ![s].view = view]
      /\ UNCHANGED <<account, assertion, profile, trouble, use, page, ui, changes>>
  BY DEF Serve, Accept
<1>2. ServerOK(server) /\ DOMAIN calls = Slots /\ \A t \in Slots : CallOK(calls[t], old) BY DEF IInv
<1>3. /\ ServerOK(v) /\ v.issued = server.issued
      /\ v.tokens = IF op = "destroyToken" THEN server.tokens \ {calls[s].token} ELSE server.tokens
      /\ op = "passwordChange" => v.sessions = {2}
      /\ op # "passwordChange" => v.sessions \subseteq server.sessions
      /\ op # "passwordChange" /\ v.sessions # server.sessions =>
            \/ op = "deviceDestroy" /\ calls[s].arg = "thisDevice"
            \/ op = "sessionDestroy" /\ calls[s].arg \in {"thisSession", "signout"}
            \/ op = "accountDestroy"
  BY <1>2, EffectOK
<1> HIDE DEF v
<1>4. /\ DOMAIN view = {"name", "image", "clients", "value", "gate"} /\ view.clients \subseteq Clients
  BY <1>3 DEF NoView, ServerOK
<1> HIDE DEF view
<1>5. /\ DOMAIN c = DOMAIN calls[s] /\ c.op = op /\ c.arg = calls[s].arg /\ c.step = "answered" /\ c.token = calls[s].token
      /\ c.first = calls[s].first /\ c.seen = calls[s].seen /\ c.view = view
  BY <1>2 DEF CallOK
<1>6. calls' = [calls EXCEPT ![s] = c] BY <1>1, <1>2
<1> HIDE DEF c
<1>7. \A t \in Slots : calls'[t] = IF t = s THEN c ELSE calls[t] BY <1>2, <1>6
<1>8. CallOK(c, old)
  <2>1. CallOK(calls[s], old) BY <1>2
  <2> QED BY <1>1, <1>4, <1>5, <2>1 DEF CallOK, Steps
<1>9. Old(server)' = old BY <1>1, <1>3 DEF Old
<1>10. (\A t \in Slots : CallOK(calls[t], Old(server)))' BY <1>2, <1>7, <1>8, <1>9
<1>11. SignedIn' = SignedIn BY <1>1 DEF SignedIn
<1>12. use = "marketing" => NewsletterOK'
  <2> SUFFICES ASSUME use = "marketing" PROVE NewsletterOK' OBVIOUS
  <2>1. NewsletterOK BY DEF IInv
  <2>2. \A t \in Slots : Renewing(calls'[t]) <=> Renewing(calls[t]) BY <1>5, <1>7 DEF Renewing
  <2>3. v.tokens \subseteq server.tokens BY <1>3
  <2>4. \A t \in Slots : /\ calls'[t].op = calls[t].op /\ calls'[t].token = calls[t].token
                         /\ calls'[t].step = calls[t].step \/ calls'[t].step = "answered"
    BY <1>5, <1>7
  <2>5. \A t \in Slots : calls'[t].op = "destroyToken" /\ calls'[t].step = "answered" => calls'[t].token \notin v.tokens
    BY <1>3, <1>5, <1>7, <2>1, <2>3 DEF NewsletterOK
  <2>6. \A t \in Slots :
          /\ calls'[t].op \in {"none", "fetchPrefs", "optIn", "destroyToken"}
          /\ ui.render => ~ui.ready /\ ~Renewing(calls'[t])
          /\ calls'[t].op = "fetchPrefs" => ~ui.ready
          /\ calls'[t].op = "optIn" => ui.ready
    BY <2>1, <2>2, <2>4 DEF NewsletterOK
  <2>7. \A t, u \in Slots : Renewing(calls'[t]) /\ Renewing(calls'[u]) => t = u BY <2>1, <2>2 DEF NewsletterOK
  <2>8. account.prefs # 0 =>
          \E t \in Slots : /\ Renewing(calls'[t]) /\ calls'[t].token = account.prefs
                           /\ calls'[t].step \in {"request", "answered", "rejected"}
    BY <2>1, <2>2, <2>4 DEF NewsletterOK
  <2>9. \A k \in v.tokens :
          \/ k = account.prefs \/ k \in ui.lost
          \/ \E t \in Slots : calls'[t].op = "destroyToken" /\ calls'[t].token = k
    BY <2>1, <2>3, <2>4 DEF NewsletterOK
  <2>10. page = "panel" /\ Quiet(ui) BY <2>1 DEF NewsletterOK
  <2> QED BY <1>1, <2>5, <2>6, <2>7, <2>8, <2>9, <2>10 DEF NewsletterOK
<1>13. use = "account" => AccountPanelOK'
  <2> SUFFICES ASSUME use = "account" PROVE AccountPanelOK' OBVIOUS
  <2>1. AccountPanelOK BY DEF IInv
  <2>2. \A t \in Slots : /\ calls'[t].op \in PasswordOps \cup {"none", "sessionDestroy"}
                         /\ calls'[t].op = "sessionDestroy" => calls'[t].arg = "signout"
    BY <1>5, <1>7, <2>1 DEF AccountPanelOK
  <2>3. Changed(c) <=> op = "passwordChange" BY <1>5 DEF Changed
  <2>4. ~Changed(calls[s]) BY <1>1 DEF Changed
  <2>5. \A t \in Slots : Changed(calls[t]) => Changed(calls'[t]) BY <1>7, <2>4
  <2>6. \A t \in Slots : Changed(calls'[t]) => 1 \notin v.sessions BY <1>3, <1>7, <2>1, <2>3 DEF AccountPanelOK
  <2>7. 1 \in v.sessions => 1 \in server.sessions BY <1>3
  <2>8. 2 \in v.sessions => 2 \in server.sessions \/ \E t \in Slots : Changed(calls'[t]) BY <1>3, <1>7, <2>3
  <2> QED BY <1>1, <1>11, <2>1, <2>2, <2>5, <2>6, <2>7, <2>8 DEF AccountPanelOK
<1>14. use # "account" => OtherPanelOK'
  <2> SUFFICES ASSUME use # "account" PROVE OtherPanelOK' OBVIOUS
  <2>1. OtherPanelOK BY DEF IInv
  <2>2. op \notin PasswordOps /\ op # "passwordChange" BY <2>1 DEF OtherPanelOK, PasswordOps
  <2>3. v.sessions \subseteq server.sessions BY <1>3, <2>2
  <2>4. \A t \in Slots : /\ calls'[t].op = calls[t].op /\ calls'[t].seen = calls[t].seen
                         /\ calls'[t].token = calls[t].token
                         /\ calls'[t].step = "request" => calls[t].step = "request"
    BY <1>5, <1>7
  <2>5. v.sessions # {} => server.sessions # {} BY <2>3
  <2> QED BY <1>1, <1>11, <2>1, <2>3, <2>4, <2>5 DEF OtherPanelOK
<1>15. use # "marketing" => \A t \in Slots : calls'[t].op \notin MarketingMethods \cup {"destroyToken"}
  BY <1>5, <1>7 DEF IInv
<1>16. trouble = 0 /\ SignedIn /\ v.sessions = {} => \E t \in Slots : Ends(calls'[t])
  <2> SUFFICES ASSUME trouble = 0, SignedIn, v.sessions = {} PROVE \E t \in Slots : Ends(calls'[t]) OBVIOUS
  <2>1. CASE server.sessions = {}
    <3>1. PICK t \in Slots : Ends(calls[t]) BY <2>1 DEF IInv
    <3>2. t # s BY <1>1, <2>1, <3>1 DEF Ends, WithAccessToken, ProfileMethods, OAuthAppMethods, MarketingMethods
    <3> QED BY <1>7, <3>1, <3>2
  <2>2. CASE server.sessions # {}
    <3>1. Ends(c) BY <1>3, <1>5, <2>2 DEF Ends
    <3> QED BY <1>7, <3>1
  <2> QED BY <2>1, <2>2
<1>17. /\ ServerOK(server)' /\ AccountOK(account, Old(server))' /\ UiOK(ui)' /\ assertion' \in Assertions
       /\ profile' \in Profiles /\ trouble' \in 0 .. MaxTrouble /\ changes' \in 0 .. MaxChanges /\ DOMAIN calls' = Slots
  BY <1>1, <1>2, <1>3, <1>6, <1>9 DEF IInv, ServerOK, AccountOK, UiOK
<1> QED BY <1>1, <1>10, <1>11, <1>12, <1>13, <1>14, <1>15, <1>16, <1>17 DEF IInv

\* The user confirms his session, or his second e-mail, in another window.
LEMMA VerifiedKeeps == ASSUME IInv, SessionIsVerified \/ EmailIsVerified PROVE IInv'
<1>1. /\ server' = [server EXCEPT !.gate = TRUE] \/ server' = [server EXCEPT !.value = "verified"]
      /\ UNCHANGED <<account, assertion, profile, calls, trouble, use, page, ui, changes>>
  BY DEF SessionIsVerified, EmailIsVerified
<1>2. /\ ServerOK(server') /\ server'.sessions = server.sessions /\ server'.tokens = server.tokens
      /\ server'.issued = server.issued
  BY <1>1 DEF IInv, ServerOK
<1>3. Old(server)' = Old(server) /\ SignedIn' = SignedIn BY <1>1, <1>2 DEF Old, SignedIn
<1>4. /\ NewsletterOK' = NewsletterOK
  BY <1>1, <1>2 DEF NewsletterOK
<1>5. AccountPanelOK' = AccountPanelOK BY <1>1, <1>2, <1>3 DEF AccountPanelOK
<1>6. OtherPanelOK' = OtherPanelOK BY <1>1, <1>2, <1>3 DEF OtherPanelOK
<1> QED BY <1>1, <1>2, <1>3, <1>4, <1>5, <1>6 DEF IInv

-----------------------------------------------------------------------------
(***************************************************************************)
(* The steps of a call that are not those of a panel.                      *)
(***************************************************************************)
\* A call goes a step further; nothing but the servers answers it.
Goes(c, d) ==
    \/ d = c
    \/ /\ d.op = c.op /\ d.arg = c.arg
       /\ c.step \in {"status", "gate", "assertion", "token", "request"} /\ d.step \notin {"none", "answered"}
       /\ c.step = "request" => /\ d.token = c.token
                                /\ d.step = "rejected" \/ c.op \in ProfileMethods \cup OAuthAppMethods

TokenStep ==
    /\ UNCHANGED <<server, use, page, ui, changes>>
    /\ DOMAIN calls' = Slots
    /\ \A t \in Slots : CallOK(calls'[t], Old(server)) /\ Goes(calls[t], calls'[t])
    /\ AccountOK(account', Old(server)) /\ account'.prefs = account.prefs
    /\ assertion' \in Assertions /\ profile' \in Profiles /\ trouble' \in 0 .. MaxTrouble
    /\ trouble' = 0 => trouble = 0
    /\ use = "account" => account'.session = account.session
    /\ use # "account" /\ trouble' = 0 /\ SignedIn /\ server.sessions # {} =>
          /\ account'.session = account.session /\ assertion' # "INVALID_TOKEN"
          /\ \A t \in Slots : calls'[t].seen # "INVALID_TOKEN"

LEMMA GoesOn ==
    ASSUME NEW old, NEW c, CallOK(c, old), NEW d, Goes(c, d)
    PROVE  /\ d.op = c.op /\ d.arg = c.arg /\ (Renewing(d) <=> Renewing(c)) /\ (Changed(d) <=> Changed(c))
           /\ Ends(c) => Ends(d)
           /\ d.step = "answered" => d = c
           /\ c.op = "destroyToken" => d.token = c.token
           /\ c.op \notin OAuthMethods /\ d.step = "request" => d = c
           /\ Renewing(c) /\ c.step \in {"request", "answered", "rejected"} =>
                 d.token = c.token /\ d.step \in {"request", "answered", "rejected"}
<1>1. CASE d = c BY <1>1
<1>2. CASE d # c
  <2>1. /\ d.op = c.op /\ d.arg = c.arg
        /\ c.step \in {"status", "gate", "assertion", "token", "request"} /\ d.step \notin {"none", "answered"}
        /\ c.step = "request" => /\ d.token = c.token
                                 /\ d.step = "rejected" \/ c.op \in ProfileMethods \cup OAuthAppMethods
    BY <1>2 DEF Goes
  <2>2. c.op \notin OAuthMethods => c.step = "request" /\ d.step = "rejected" /\ d.token = c.token
    BY <2>1 DEF CallOK, OAuthMethods
  <2>3. "destroyToken" \notin OAuthMethods /\ "recoveryEmailStatus" \notin OAuthMethods
    BY DEF OAuthMethods, ProfileMethods, OAuthAppMethods, MarketingMethods
  <2>4. MarketingMethods \cap (ProfileMethods \cup OAuthAppMethods) = {}
    BY DEF ProfileMethods, OAuthAppMethods, MarketingMethods
  <2>5. Renewing(d) <=> Renewing(c) BY <2>1 DEF Renewing
  <2>6. ~Changed(c) /\ ~Changed(d) BY <2>1 DEF Changed
  <2>7. Ends(c) => Ends(d) BY <2>1, <2>2, <2>3 DEF Ends
  <2>8. Renewing(c) /\ c.step \in {"request", "answered", "rejected"} => d.token = c.token /\ d.step = "rejected"
    BY <2>1, <2>4 DEF Renewing
  <2> QED BY <2>1, <2>2, <2>3, <2>5, <2>6, <2>7, <2>8
<1> QED BY <1>1, <1>2

LEMMA TokenKeeps == ASSUME IInv, TokenStep PROVE IInv'
<1>1. /\ UNCHANGED <<server, use, page, ui, changes>> /\ DOMAIN calls' = Slots /\ account'.prefs = account.prefs
      /\ trouble' = 0 => trouble = 0
  BY DEF TokenStep
<1>2. Old(server)' = Old(server) /\ SignedIn' = SignedIn BY <1>1 DEF Old, SignedIn
<1>3. \A t \in Slots : CallOK(calls[t], Old(server)) BY DEF IInv
<1>4. \A t \in Slots :
        LET c == calls[t]
            d == calls'[t]
        IN  /\ d.op = c.op /\ d.arg = c.arg /\ (Renewing(d) <=> Renewing(c)) /\ (Changed(d) <=> Changed(c))
            /\ Ends(c) => Ends(d)
            /\ d.step = "answered" => d = c
            /\ c.op = "destroyToken" => d.token = c.token
            /\ c.op \notin OAuthMethods /\ d.step = "request" => d = c
            /\ Renewing(c) /\ c.step \in {"request", "answered", "rejected"} =>
                  d.token = c.token /\ d.step \in {"request", "answered", "rejected"}
  BY <1>3, GoesOn DEF TokenStep
<1>5. (\A t \in Slots : CallOK(calls[t], Old(server)))' BY <1>2 DEF TokenStep
<1>6. use = "marketing" => NewsletterOK'
  <2> SUFFICES ASSUME use = "marketing" PROVE NewsletterOK' OBVIOUS
  <2>1. NewsletterOK BY DEF IInv
  <2>2. \A t \in Slots :
          /\ calls'[t].op \in {"none", "fetchPrefs", "optIn", "destroyToken"}
          /\ ui.render => ~ui.ready /\ ~Renewing(calls'[t])
          /\ calls'[t].op = "fetchPrefs" => ~ui.ready
          /\ calls'[t].op = "optIn" => ui.ready
          /\ calls'[t].op = "destroyToken" /\ calls'[t].step = "answered" => calls'[t].token \notin server.tokens
    BY <1>4, <2>1 DEF NewsletterOK
  <2>3. \A t, u \in Slots : Renewing(calls'[t]) /\ Renewing(calls'[u]) => t = u BY <1>4, <2>1 DEF NewsletterOK
  <2>4. account.prefs # 0 =>
          \E t \in Slots : /\ Renewing(calls'[t]) /\ calls'[t].token = account.prefs
                           /\ calls'[t].step \in {"request", "answered", "rejected"}
    BY <1>4, <2>1 DEF NewsletterOK
  <2>5. \A k \in server.tokens :
          \/ k = account.prefs \/ k \in ui.lost
          \/ \E t \in Slots : calls'[t].op = "destroyToken" /\ calls'[t].token = k
    BY <1>4, <2>1 DEF NewsletterOK
  <2> QED BY <1>1, <2>1, <2>2, <2>3, <2>4, <2>5 DEF NewsletterOK
<1>7. use = "account" => AccountPanelOK'
  <2> SUFFICES ASSUME use = "account" PROVE AccountPanelOK' OBVIOUS
  <2>1. AccountPanelOK BY DEF IInv
  <2>2. account'.session = account.session BY DEF TokenStep
  <2> QED BY <1>1, <1>2, <1>4, <2>1, <2>2 DEF AccountPanelOK
<1>8. use # "account" => OtherPanelOK'
  <2> SUFFICES ASSUME use # "account" PROVE OtherPanelOK' OBVIOUS
  <2>1. OtherPanelOK BY DEF IInv
  <2>2. ASSUME trouble' = 0, SignedIn, server.sessions # {}
        PROVE  /\ account'.session = 1 /\ assertion' # "INVALID_TOKEN"
               /\ \A t \in Slots : /\ calls'[t].seen # "INVALID_TOKEN"
                                   /\ calls'[t].op \notin WithAccessToken /\ calls'[t].step = "request" => calls'[t].token = 1
    <3>1. /\ account.session = 1
          /\ \A t \in Slots : calls[t].op \notin WithAccessToken /\ calls[t].step = "request" => calls[t].token = 1
      BY <1>1, <2>1, <2>2 DEF OtherPanelOK
    <3>2. OAuthMethods \subseteq WithAccessToken BY DEF OAuthMethods, WithAccessToken
    <3> QED BY <1>4, <2>2, <3>1, <3>2 DEF TokenStep
  <2> QED BY <1>1, <1>2, <1>4, <2>1, <2>2 DEF OtherPanelOK
<1>9. use # "marketing" => \A t \in Slots : calls'[t].op \notin MarketingMethods \cup {"destroyToken"} BY <1>4 DEF IInv
<1>10. (trouble = 0 /\ SignedIn /\ server.sessions = {} => \E t \in Slots : Ends(calls[t]))'
  <2>1. trouble = 0 /\ SignedIn /\ server.sessions = {} => \E t \in Slots : Ends(calls[t]) BY DEF IInv
  <2> QED BY <1>1, <1>2, <1>4, <2>1
<1>11. /\ ServerOK(server)' /\ AccountOK(account, Old(server))' /\ UiOK(ui)' /\ assertion' \in Assertions
       /\ profile' \in Profiles /\ trouble' \in 0 .. MaxTrouble /\ changes' \in 0 .. MaxChanges /\ DOMAIN calls' = Slots
  BY <1>1, <1>2 DEF IInv, TokenStep, ServerOK, AccountOK, UiOK
<1> QED BY <1>1, <1>5, <1>6, <1>7, <1>8, <1>9, <1>10, <1>11 DEF IInv

LEMMA OneGoes ==
    ASSUME IInv, NEW s \in Slots, NEW d, calls' = [calls EXCEPT ![s] = d], CallOK(d, Old(server)), Goes(calls[s], d),
           UNCHANGED <<server, use, page, ui, changes>>, AccountOK(account', Old(server)), account'.prefs = account.prefs,
           assertion' \in Assertions, profile' \in Profiles, trouble' \in 0 .. MaxTrouble, trouble' = 0 => trouble = 0,
           use = "account" => account'.session = account.session,
           use # "account" /\ trouble' = 0 /\ SignedIn /\ server.sessions # {} =>
              /\ account'.session = account.session /\ assertion' # "INVALID_TOKEN" /\ d.seen # "INVALID_TOKEN"
    PROVE  IInv'
<1>1. DOMAIN calls = Slots /\ \A t \in Slots : CallOK(calls[t], Old(server)) BY DEF IInv
<1>2. \A t \in Slots : calls'[t] = IF t = s THEN d ELSE calls[t] BY <1>1
<1>3. \A t \in Slots : CallOK(calls'[t], Old(server)) /\ Goes(calls[t], calls'[t]) BY <1>1, <1>2 DEF Goes
<1>4. ASSUME use # "account", trouble' = 0, SignedIn, server.sessions # {}
      PROVE  \A t \in Slots : calls'[t].seen # "INVALID_TOKEN"
  BY <1>2, <1>4 DEF IInv, OtherPanelOK
<1>5. TokenStep BY <1>1, <1>3, <1>4 DEF TokenStep
<1> QED BY <1>5, TokenKeeps

\* While nothing failed, the session of the account is one the server knows.
LEMMA AllIsWell ==
    ASSUME IInv, use # "account", trouble = 0, SignedIn, server.sessions # {}
    PROVE  /\ account.session # 0 /\ account.session \in server.sessions /\ assertion # "INVALID_TOKEN"
           /\ \A s \in Slots : /\ calls[s].seen # "INVALID_TOKEN"
                               /\ calls[s].op \notin WithAccessToken /\ calls[s].step = "request" =>
                                     calls[s].token \in server.sessions
<1>1. server.sessions = {1} BY DEF IInv, OtherPanelOK, ServerOK
<1> QED BY <1>1 DEF IInv, OtherPanelOK

\* The panels of the account need no access token.
LEMMA NoAccessToken == ASSUME IInv, use = "account", NEW s \in Slots PROVE calls[s].op \notin OAuthMethods
<1>1. calls[s].op \in PasswordOps \cup {"none", "sessionDestroy"} BY DEF IInv, AccountPanelOK
<1> QED BY <1>1 DEF PasswordOps, OAuthMethods, ProfileMethods, OAuthAppMethods, MarketingMethods

\* What these steps leave alone.
Rest == UNCHANGED <<use, page, ui, changes>>

LEMMA MoreTrouble ==
  ASSUME IInv, trouble < MaxTrouble, trouble' = trouble + 1
  PROVE  trouble' \in 0 .. MaxTrouble /\ trouble' # 0
  BY TokenAssumption DEF IInv

LEMMA StatusKeeps == ASSUME IInv, NEW s \in Slots, StatusArrives(s), Rest PROVE IInv'
<1> DEFINE old == Old(server)
           d == [calls[s] EXCEPT !.step = "gate"]
<1>1. /\ DOMAIN calls = Slots /\ CallOK(calls[s], old) /\ AccountOK(account, old) /\ server.verified \in BOOLEAN
      /\ assertion \in Assertions /\ profile \in Profiles /\ trouble \in 0 .. MaxTrouble /\ 0 \in old
  BY OldTokens DEF IInv, ServerOK
<1>2. calls[s].step = "status" /\ calls' = [calls EXCEPT ![s].step = "gate"] /\ UNCHANGED <<server, assertion>>
  BY DEF StatusArrives, Goto
<1>3. /\ DOMAIN d = DOMAIN calls[s] /\ d.op = calls[s].op /\ d.arg = calls[s].arg /\ d.step = "gate"
      /\ d.token = calls[s].token /\ d.first = calls[s].first /\ d.seen = calls[s].seen /\ d.view = calls[s].view
  BY <1>1 DEF CallOK
<1>4. calls' = [calls EXCEPT ![s] = d] BY <1>1, <1>2
<1> HIDE DEF d
<1>5. CallOK(d, old) /\ Goes(calls[s], d) BY <1>1, <1>2, <1>3 DEF CallOK, Goes, Steps
<1>6. /\ AccountOK(account', old) /\ account'.prefs = account.prefs /\ profile' \in Profiles
      /\ \/ account'.session = account.session /\ trouble' = trouble
         \/ account.session \notin server.sessions /\ trouble' = trouble
         \/ account'.session = account.session /\ trouble' \in 0 .. MaxTrouble /\ trouble' # 0
  <2>1. CASE SetAccount([account EXCEPT !.verified = server.verified]) /\ UNCHANGED trouble
    <3>1. account' = [account EXCEPT !.verified = server.verified] /\ profile' \in Profiles BY <2>1, SetAccountOK
    <3> QED BY <1>1, <2>1, <3>1 DEF AccountOK
  <2>2. CASE account.session \notin server.sessions /\ SetAccount(DiscardSessionToken) /\ UNCHANGED trouble
    <3>1. account' = DiscardSessionToken /\ profile' \in Profiles BY <2>2, SetAccountOK
    <3> QED BY <1>1, <2>2, <3>1 DEF AccountOK, DiscardSessionToken
  <2>3. CASE trouble < MaxTrouble /\ trouble' = trouble + 1 /\ UNCHANGED <<account, profile>>
    BY <1>1, <2>3, MoreTrouble
  <2> QED BY <2>1, <2>2, <2>3 DEF StatusArrives
<1>7. use # "account" BY <1>1, <1>2, NoAccessToken DEF CallOK
<1>8. ASSUME trouble' = 0, SignedIn, server.sessions # {}
      PROVE  account'.session = account.session /\ assertion' # "INVALID_TOKEN" /\ d.seen # "INVALID_TOKEN"
  BY <1>2, <1>3, <1>6, <1>7, <1>8, AllIsWell
<1> QED BY <1>1, <1>2, <1>4, <1>5, <1>6, <1>7, <1>8, OneGoes DEF Rest

LEMMA ClientKeeps == ASSUME IInv, NEW s \in Slots, ProfileClient(s), Rest PROVE IInv'
<1> DEFINE old == Old(server)
<1>1. /\ DOMAIN calls = Slots /\ CallOK(calls[s], old) /\ AccountOK(account, old) /\ old \subseteq Tokens \cup {0}
      /\ assertion \in Assertions /\ profile \in Profiles /\ trouble \in 0 .. MaxTrouble
  BY OldTokens DEF IInv
<1>2. calls[s].step = "gate" /\ UNCHANGED <<server, account, assertion, profile, trouble>> BY DEF ProfileClient
<1>3. PICK d : /\ calls' = [calls EXCEPT ![s] = d] /\ DOMAIN d = DOMAIN calls[s] /\ d.op = calls[s].op /\ d.arg = calls[s].arg
               /\ d.first = calls[s].first /\ d.view = calls[s].view
               /\ d.step \in {"rejected", "assertion", "request"} /\ d.token \in {calls[s].token, account.access}
               /\ d.seen \in {calls[s].seen, "UNVERIFIED_ACCOUNT"} /\ (d.step = "request" => d.token = account.access)
  <2>1. CASE Reject(s, "UNVERIFIED_ACCOUNT")
    <3> DEFINE d == [calls[s] EXCEPT !.step = "rejected", !.seen = "UNVERIFIED_ACCOUNT"]
    <3>1. calls' = [calls EXCEPT ![s] = d] BY <1>1, <2>1 DEF Reject
    <3>2. /\ DOMAIN d = DOMAIN calls[s] /\ d.op = calls[s].op /\ d.arg = calls[s].arg /\ d.first = calls[s].first
          /\ d.view = calls[s].view /\ d.step = "rejected" /\ d.token = calls[s].token /\ d.seen = "UNVERIFIED_ACCOUNT"
      BY <1>1 DEF CallOK
    <3> HIDE DEF d
    <3> QED BY <3>1, <3>2
  <2>2. CASE Goto(s, "assertion")
    <3> DEFINE d == [calls[s] EXCEPT !.step = "assertion"]
    <3>1. calls' = [calls EXCEPT ![s] = d] BY <1>1, <2>2 DEF Goto
    <3>2. /\ DOMAIN d = DOMAIN calls[s] /\ d.op = calls[s].op /\ d.arg = calls[s].arg /\ d.first = calls[s].first
          /\ d.view = calls[s].view /\ d.step = "assertion" /\ d.token = calls[s].token /\ d.seen = calls[s].seen
      BY <1>1 DEF CallOK
    <3> HIDE DEF d
    <3> QED BY <3>1, <3>2
  <2>3. CASE Send(s)
    <3> DEFINE d == [calls[s] EXCEPT !.step = "request", !.token = account.access]
    <3>1. calls' = [calls EXCEPT ![s] = d] BY <1>1, <2>3 DEF Send
    <3>2. /\ DOMAIN d = DOMAIN calls[s] /\ d.op = calls[s].op /\ d.arg = calls[s].arg /\ d.first = calls[s].first
          /\ d.view = calls[s].view /\ d.step = "request" /\ d.token = account.access /\ d.seen = calls[s].seen
      BY <1>1 DEF CallOK
    <3> HIDE DEF d
    <3> QED BY <3>1, <3>2
  <2> QED BY <2>1, <2>2, <2>3 DEF ProfileClient
<1>4. calls[s].op \in OAuthMethods /\ calls[s].first = 0 /\ account.access \in old BY <1>1, <1>2 DEF CallOK, AccountOK
<1>5. calls[s].op # "none" /\ calls[s].op # "destroyToken"
  BY <1>4 DEF OAuthMethods, ProfileMethods, OAuthAppMethods, MarketingMethods
<1>6. CallOK(d, old) BY <1>1, <1>3, <1>4, <1>5 DEF CallOK, Steps
<1>7. Goes(calls[s], d) BY <1>2, <1>3 DEF Goes
<1>8. use # "account" BY <1>4, NoAccessToken
<1>9. ASSUME trouble' = 0, SignedIn, server.sessions # {} PROVE assertion' # "INVALID_TOKEN" /\ d.seen # "INVALID_TOKEN"
  BY <1>2, <1>3, <1>8, <1>9, AllIsWell
<1> QED BY <1>1, <1>2, <1>3, <1>6, <1>7, <1>8, <1>9, OneGoes DEF Rest

LEMMA Rejects ==
    ASSUME IInv, NEW s \in Slots, NEW why, calls[s].step \in {"gate", "assertion", "request"}, Reject(s, why)
    PROVE  \E d : /\ calls' = [calls EXCEPT ![s] = d] /\ CallOK(d, Old(server)) /\ Goes(calls[s], d) /\ d.seen = why
<1> DEFINE d == [calls[s] EXCEPT !.step = "rejected", !.seen = why]
<1>1. DOMAIN calls = Slots /\ CallOK(calls[s], Old(server)) BY DEF IInv
<1>2. /\ DOMAIN d = DOMAIN calls[s] /\ d.op = calls[s].op /\ d.arg = calls[s].arg /\ d.step = "rejected"
      /\ d.token = calls[s].token /\ d.first = calls[s].first /\ d.seen = why /\ d.view = calls[s].view
  BY <1>1 DEF CallOK
<1>3. calls' = [calls EXCEPT ![s] = d] BY <1>1 DEF Reject
<1> HIDE DEF d
<1>4. CallOK(d, Old(server)) /\ Goes(calls[s], d) BY <1>1, <1>2 DEF CallOK, Goes, Steps
<1> QED BY <1>2, <1>3, <1>4

LEMMA AssertionKeeps == ASSUME IInv, NEW s \in Slots, GenerateAssertion(s), Rest PROVE IInv'
<1> DEFINE old == Old(server)
<1>1. /\ DOMAIN calls = Slots /\ CallOK(calls[s], old) /\ AccountOK(account, old) /\ 0 \in old
      /\ assertion \in Assertions /\ profile \in Profiles /\ trouble \in 0 .. MaxTrouble
  BY OldTokens DEF IInv
<1>2. calls[s].step = "assertion" /\ UNCHANGED <<server, trouble>> BY DEF GenerateAssertion
<1>3. use # "account" BY <1>1, <1>2, NoAccessToken DEF CallOK
<1>4. ASSUME NEW why, RejectAssertion(s, why), UNCHANGED assertion,
             why = "INVALID_TOKEN" => account.session = 0 \/ assertion = "INVALID_TOKEN"
      PROVE  IInv'
  <2>1. PICK d : calls' = [calls EXCEPT ![s] = d] /\ CallOK(d, old) /\ Goes(calls[s], d) /\ d.seen = why
    BY <1>2, <1>4, Rejects DEF RejectAssertion
  <2>2. /\ profile' \in Profiles
        /\ account' = account \/ (why = "INVALID_TOKEN" /\ account' = DiscardSessionToken)
    BY <1>4, SetAccountOK DEF RejectAssertion
  <2>3. AccountOK(account', old) /\ account'.prefs = account.prefs
    <3>1. CASE account' = DiscardSessionToken BY <1>1, <3>1 DEF AccountOK, DiscardSessionToken
    <3>2. CASE account' = account BY <1>1, <3>2
    <3> QED BY <2>2, <3>1, <3>2
  <2>4. ASSUME trouble' = 0, SignedIn, server.sessions # {}
        PROVE  account'.session = account.session /\ assertion' # "INVALID_TOKEN" /\ d.seen # "INVALID_TOKEN"
    BY <1>2, <1>3, <1>4, <2>1, <2>2, <2>4, AllIsWell
  <2> QED BY <1>1, <1>2, <1>3, <1>4, <2>1, <2>2, <2>3, <2>4, OneGoes DEF Rest
<1>5. CASE account.session # 0 /\ assertion = "none" /\ assertion' = "pending" /\ UNCHANGED <<account, profile, calls>>
  <2>1. \A t \in Slots : CallOK(calls'[t], old) /\ Goes(calls[t], calls'[t]) BY <1>5 DEF IInv, Goes
  <2>2. ASSUME trouble' = 0, SignedIn, server.sessions # {}
        PROVE  \A t \in Slots : calls'[t].seen # "INVALID_TOKEN"
    BY <1>2, <1>3, <1>5, <2>2, AllIsWell
  <2> QED BY <1>1, <1>2, <1>3, <1>5, <2>1, <2>2, TokenKeeps DEF TokenStep, Assertions, Rest
<1>6. CASE account.session # 0 /\ assertion = "made" /\ Goto(s, "token") /\ UNCHANGED <<account, profile, assertion>>
  <2> DEFINE d == [calls[s] EXCEPT !.step = "token"]
  <2>1. calls' = [calls EXCEPT ![s] = d] BY <1>1, <1>6 DEF Goto
  <2>2. /\ DOMAIN d = DOMAIN calls[s] /\ d.op = calls[s].op /\ d.arg = calls[s].arg /\ d.step = "token"
        /\ d.token = calls[s].token /\ d.first = calls[s].first /\ d.seen = calls[s].seen /\ d.view = calls[s].view
    BY <1>1 DEF CallOK
  <2> HIDE DEF d
  <2>3. CallOK(d, old) /\ Goes(calls[s], d) BY <1>1, <1>2, <2>2 DEF CallOK, Goes, Steps
  <2>4. ASSUME trouble' = 0, SignedIn, server.sessions # {}
        PROVE  assertion' # "INVALID_TOKEN" /\ d.seen # "INVALID_TOKEN"
    BY <1>2, <1>3, <1>6, <2>2, <2>4, AllIsWell
  <2> QED BY <1>1, <1>2, <1>3, <1>6, <2>1, <2>3, <2>4, OneGoes DEF Rest
<1> QED BY <1>2, <1>4, <1>5, <1>6 DEF GenerateAssertion

\* What happens to the assertion while it is made, and later.
LEMMA CertificateKeeps == ASSUME IInv, CertificateSigned \/ AssertionExpires, Rest PROVE IInv'
<1>1. /\ DOMAIN calls = Slots /\ AccountOK(account, Old(server)) /\ profile \in Profiles /\ trouble \in 0 .. MaxTrouble
  BY DEF IInv
<1>2. UNCHANGED <<server, account, profile, calls>> BY DEF CertificateSigned, AssertionExpires
<1>3. /\ assertion' \in Assertions
      /\ \/ trouble' = trouble /\ (account.session \in server.sessions => assertion' = "made")
         \/ trouble' \in 0 .. MaxTrouble /\ trouble' # 0
  BY MoreTrouble DEF CertificateSigned, AssertionExpires, Assertions
<1>4. \A t \in Slots : CallOK(calls'[t], Old(server)) /\ Goes(calls[t], calls'[t]) BY <1>2 DEF IInv, Goes
<1>5. ASSUME use # "account", trouble' = 0, SignedIn, server.sessions # {}
      PROVE  assertion' # "INVALID_TOKEN" /\ \A t \in Slots : calls'[t].seen # "INVALID_TOKEN"
  BY <1>2, <1>3, <1>5, AllIsWell
<1>6. TokenStep BY <1>1, <1>2, <1>3, <1>4, <1>5 DEF TokenStep, Rest
<1> QED BY <1>6, TokenKeeps

\* A refused access token is remembered, and renewed.
LEMMA RenewKeeps == ASSUME IInv, NEW s \in Slots, FetchProfileOAuthToken(s), Rest PROVE IInv'
<1> DEFINE old == Old(server)
           d == [calls[s] EXCEPT !.first = calls[s].token + 1, !.step = "assertion"]
<1>1. /\ DOMAIN calls = Slots /\ CallOK(calls[s], old) /\ AccountOK(account, old) /\ old \subseteq Tokens \cup {0}
      /\ assertion \in Assertions /\ profile \in Profiles /\ trouble \in 0 .. MaxTrouble
  BY OldTokens DEF IInv
<1>2. /\ calls[s].step = "request" /\ calls[s].op \in ProfileMethods \cup OAuthAppMethods
      /\ calls' = [calls EXCEPT ![s].first = calls[s].token + 1, ![s].step = "assertion"]
      /\ UNCHANGED <<server, account, assertion, profile, trouble>>
  BY DEF FetchProfileOAuthToken, Refused
<1>3. calls' = [calls EXCEPT ![s] = d] BY <1>1, <1>2
<1>4. /\ DOMAIN d = DOMAIN calls[s] /\ d.op = calls[s].op /\ d.arg = calls[s].arg /\ d.step = "assertion"
      /\ d.token = calls[s].token /\ d.first = calls[s].token + 1 /\ d.seen = calls[s].seen /\ d.view = calls[s].view
  BY <1>1 DEF CallOK
<1> HIDE DEF d
<1>5. calls[s].token \in old /\ calls[s].token \in Nat
  <2>1. calls[s].token \in old BY <1>1, <1>2 DEF CallOK
  <2> QED BY <1>1, <2>1, TokenAssumption DEF Tokens
<1>6. d.first \in Nat /\ d.first - 1 = calls[s].token BY <1>4, <1>5
<1>7. "none" \notin ProfileMethods \cup OAuthAppMethods /\ calls[s].op \in OAuthMethods
  BY <1>2 DEF ProfileMethods, OAuthAppMethods, OAuthMethods
<1>8. CallOK(d, old) BY <1>1, <1>2, <1>4, <1>5, <1>6, <1>7 DEF CallOK, Steps
<1>9. Goes(calls[s], d) BY <1>2, <1>4 DEF Goes
<1>10. use # "account" BY <1>7, NoAccessToken
<1>11. ASSUME trouble' = 0, SignedIn, server.sessions # {} PROVE assertion' # "INVALID_TOKEN" /\ d.seen # "INVALID_TOKEN"
  BY <1>2, <1>4, <1>10, <1>11, AllIsWell
<1> QED BY <1>1, <1>2, <1>3, <1>8, <1>9, <1>10, <1>11, OneGoes DEF Rest

\* Requests that are refused, or fail.
LEMMA RefusalKeeps ==
    ASSUME IInv, NEW s \in Slots, RefusedAgain(s) \/ InvalidToken(s) \/ ServerFails(s), Rest
    PROVE  IInv'
<1> DEFINE old == Old(server)
<1>1. /\ DOMAIN calls = Slots /\ CallOK(calls[s], old) /\ AccountOK(account, old) /\ 0 \in old
      /\ assertion \in Assertions /\ profile \in Profiles /\ trouble \in 0 .. MaxTrouble
  BY OldTokens DEF IInv
<1>2. /\ calls[s].step = "request" /\ UNCHANGED <<server, assertion>>
      /\ trouble' \in 0 .. MaxTrouble /\ (trouble' = 0 => trouble = 0)
  BY <1>1, MoreTrouble DEF RefusedAgain, InvalidToken, ServerFails, Refused
<1>3. PICK why : /\ Reject(s, why)
                 /\ why = "INVALID_TOKEN" =>
                       calls[s].op \notin WithAccessToken /\ calls[s].token \notin server.sessions
                 /\ trouble' = trouble \/ trouble' # 0
  BY MoreTrouble DEF RefusedAgain, InvalidToken, ServerFails
<1>4. PICK d : calls' = [calls EXCEPT ![s] = d] /\ CallOK(d, old) /\ Goes(calls[s], d) /\ d.seen = why
  BY <1>2, <1>3, Rejects
<1>5. AccountOK(account', old) /\ account'.prefs = account.prefs /\ account'.session = account.session /\ profile' \in Profiles
  <2>1. CASE RefusedAgain(s)
    <3>1. account' \in {account, [account EXCEPT !.access = 0]} /\ profile' \in Profiles
      BY <2>1, SetAccountOK DEF RefusedAgain
    <3> QED BY <1>1, <3>1 DEF AccountOK
  <2>2. CASE InvalidToken(s) \/ ServerFails(s) BY <1>1, <2>2 DEF InvalidToken, ServerFails
  <2> QED BY <2>1, <2>2
<1>6. ASSUME use # "account", trouble' = 0, SignedIn, server.sessions # {}
      PROVE  assertion' # "INVALID_TOKEN" /\ d.seen # "INVALID_TOKEN"
  BY <1>2, <1>3, <1>4, <1>6, AllIsWell
<1> QED BY <1>1, <1>2, <1>4, <1>5, <1>6, OneGoes DEF Rest

\* A new access token, for the account or for the newsletter.
LEMMA CreateKeeps == ASSUME IInv, NEW s \in Slots, CreateOAuthToken(s), Rest PROVE IInv'
<1> DEFINE old == Old(server)
           more == Old(server')
           d == [calls[s] EXCEPT !.step = "request",
                                 !.token = IF calls[s].op = "destroyOAuthApp" THEN calls[s].token ELSE NewToken]
<1>1. /\ DOMAIN calls = Slots /\ AccountOK(account, old) /\ old \subseteq Tokens \cup {0} /\ 0 \in old /\ ServerOK(server)
      /\ \A t \in Slots : CallOK(calls[t], old)
      /\ assertion \in Assertions /\ profile \in Profiles /\ UiOK(ui)
      /\ trouble \in 0 .. MaxTrouble /\ changes \in 0 .. MaxChanges
  BY OldTokens DEF IInv
<1>2. /\ calls[s].step = "token" /\ server.issued # Tokens
      /\ server' = [server EXCEPT !.issued = @ \cup {NewToken}, !.tokens = @ \cup {NewToken}]
      /\ calls' = [calls EXCEPT ![s].step = "request",
                                ![s].token = IF calls[s].op = "destroyOAuthApp" THEN @ ELSE NewToken]
      /\ UNCHANGED <<assertion, trouble, use, page, ui, changes>>
  BY DEF CreateOAuthToken, Rest
<1>3. NewToken \in Tokens /\ NewToken \notin server.issued /\ NewToken # 0 /\ NewToken \notin old
  <2>1. NewToken \in Tokens /\ NewToken \notin server.issued BY <1>1, <1>2, NewTokenIsNew
  <2>2. NewToken # 0 BY <2>1, TokenAssumption DEF Tokens
  <2> QED BY <2>1, <2>2 DEF Old
<1>4. calls' = [calls EXCEPT ![s] = d] BY <1>1, <1>2
<1>5. /\ DOMAIN d = DOMAIN calls[s] /\ d.op = calls[s].op /\ d.arg = calls[s].arg /\ d.step = "request"
      /\ d.token = (IF calls[s].op = "destroyOAuthApp" THEN calls[s].token ELSE NewToken)
      /\ d.first = calls[s].first /\ d.seen = calls[s].seen /\ d.view = calls[s].view
  BY <1>1 DEF CallOK
<1> HIDE DEF d
<1>6. \A t \in Slots : calls'[t] = IF t = s THEN d ELSE calls[t] BY <1>1, <1>4
<1>7. /\ DOMAIN server' = DOMAIN server /\ server'.sessions = server.sessions /\ server'.verified = server.verified
      /\ server'.clients = server.clients /\ server'.issued = server.issued \cup {NewToken}
      /\ server'.tokens = server.tokens \cup {NewToken}
  BY <1>1, <1>2 DEF ServerOK
<1>8. ServerOK(server') BY <1>1, <1>3, <1>7 DEF ServerOK
<1>9. old \subseteq more /\ NewToken \in more BY <1>7 DEF Old
<1>10. calls[s].op \in OAuthMethods /\ calls[s].op \notin {"none", "destroyToken"} BY <1>1, <1>2
  DEF CallOK, OAuthMethods, ProfileMethods, OAuthAppMethods, MarketingMethods
<1>11. use # "account" BY <1>10, NoAccessToken
<1> HIDE DEF more
<1>12. CallOK(d, more)
  <2>1. /\ CallOK(calls[s], more) /\ CallOK(calls[s], old) BY <1>1, <1>9, OlderCallOK
  <2>2. d.token \in Tokens \cup 0 .. 2 /\ (d.op \in OAuthAppMethods => d.token \in more) BY <1>3, <1>5, <1>9, <2>1 DEF CallOK
  <2>3. d.op \in ProfileMethods => d.token \in more BY <1>5, <1>9 DEF ProfileMethods
  <2>4. d.first # 0 => d.first - 1 \in old BY <1>5, <2>1 DEF CallOK
  <2>5. d.first # 0 /\ d.op # "destroyOAuthApp" => d.token # d.first - 1 BY <1>3, <1>5, <2>4
  <2> QED BY <1>5, <1>9, <1>10, <2>1, <2>2, <2>3, <2>4, <2>5 DEF CallOK, Steps
<1>13. \A t \in Slots : CallOK(calls'[t], more) BY <1>1, <1>6, <1>9, <1>12, OlderCallOK
<1>14. /\ AccountOK(account', more) /\ profile' \in Profiles /\ account'.session = account.session
       /\ IF calls[s].op \in MarketingMethods THEN account'.prefs = NewToken ELSE account'.prefs = account.prefs
  <2>1. AccountOK(account, more) BY <1>1, <1>9, OlderAccountOK
  <2>2. CASE calls[s].op \in MarketingMethods
    BY <1>1, <1>9, <2>1, <2>2 DEF CreateOAuthToken, AccountOK
  <2>3. CASE calls[s].op \notin MarketingMethods
    <3>1. account' = [account EXCEPT !.access = NewToken] /\ profile' \in Profiles
      BY <2>3, SetAccountOK DEF CreateOAuthToken
    <3> QED BY <1>9, <2>1, <2>3, <3>1 DEF AccountOK
  <2> QED BY <2>2, <2>3
<1>15. SignedIn' = SignedIn BY <1>2 DEF SignedIn
<1>16. use = "marketing" => NewsletterOK'
  <2> SUFFICES ASSUME use = "marketing" PROVE NewsletterOK' OBVIOUS
  <2>1. NewsletterOK BY DEF IInv
  <2>2. calls[s].op \in MarketingMethods /\ Renewing(calls[s]) /\ Renewing(d)
    BY <1>5, <1>10, <2>1 DEF NewsletterOK, Renewing, MarketingMethods
  <2>3. \A t \in Slots : Renewing(calls'[t]) <=> Renewing(calls[t]) BY <1>6, <2>2
  <2>4. account.prefs = 0 BY <1>2, <2>1, <2>2 DEF NewsletterOK
  <2>5. account'.prefs = NewToken /\ d.token = NewToken BY <1>5, <1>14, <2>2 DEF MarketingMethods
  <2>6. \A t \in Slots :
          /\ calls'[t].op \in {"none", "fetchPrefs", "optIn", "destroyToken"}
          /\ ui.render => ~ui.ready /\ ~Renewing(calls'[t])
          /\ calls'[t].op = "fetchPrefs" => ~ui.ready
          /\ calls'[t].op = "optIn" => ui.ready
    BY <1>5, <1>6, <2>1, <2>3 DEF NewsletterOK
  <2>7. ASSUME NEW t \in Slots, calls'[t].op = "destroyToken", calls'[t].step = "answered"
        PROVE  calls'[t].token \notin server'.tokens
    <3>1. t # s /\ calls'[t] = calls[t] BY <1>5, <1>6, <2>7
    <3>2. calls[t].token \in old /\ calls[t].token \notin server.tokens BY <1>1, <2>1, <2>7, <3>1 DEF CallOK, NewsletterOK
    <3> QED BY <1>3, <1>7, <3>1, <3>2
  <2>8. \A t, u \in Slots : Renewing(calls'[t]) /\ Renewing(calls'[u]) => t = u BY <2>1, <2>3 DEF NewsletterOK
  <2>9. \E t \in Slots : /\ Renewing(calls'[t]) /\ calls'[t].token = account'.prefs
                         /\ calls'[t].step \in {"request", "answered", "rejected"}
    BY <1>5, <1>6, <2>2, <2>5
  <2>10. \A k \in server'.tokens :
          \/ k = account'.prefs \/ k \in ui.lost
          \/ \E t \in Slots : calls'[t].op = "destroyToken" /\ calls'[t].token = k
    <3> TAKE k \in server'.tokens
    <3>1. CASE k = NewToken BY <2>5, <3>1
    <3>2. CASE k \in server.tokens
      <4>1. k # 0 BY <1>1, <3>2, TokenAssumption DEF ServerOK, Tokens
      <4>2. k \in ui.lost \/ \E t \in Slots : calls[t].op = "destroyToken" /\ calls[t].token = k
        BY <2>1, <2>4, <3>2, <4>1 DEF NewsletterOK
      <4>3. ASSUME NEW t \in Slots, calls[t].op = "destroyToken", calls[t].token = k
            PROVE  calls'[t].op = "destroyToken" /\ calls'[t].token = k
        BY <1>6, <1>10, <4>3
      <4> QED BY <4>2, <4>3
    <3> QED BY <1>7, <3>1, <3>2
  <2>11. page = "panel" /\ Quiet(ui) BY <2>1 DEF NewsletterOK
  <2> QED BY <1>2, <2>6, <2>7, <2>8, <2>9, <2>10, <2>11 DEF NewsletterOK
<1>17. OtherPanelOK'
  <2>1. OtherPanelOK BY <1>11 DEF IInv
  <2>2. d.op \in WithAccessToken BY <1>5, <1>10 DEF OAuthMethods, WithAccessToken
  <2>3. \A t \in Slots : /\ calls'[t].op = calls[t].op /\ calls'[t].seen = calls[t].seen
                         /\ calls'[t].op \notin WithAccessToken /\ calls'[t].step = "request" => calls'[t] = calls[t]
    BY <1>5, <1>6, <2>2
  <2>4. \A t \in Slots : calls'[t].op \notin PasswordOps BY <2>1, <2>3 DEF OtherPanelOK
  <2> QED BY <1>2, <1>7, <1>14, <1>15, <2>1, <2>3, <2>4 DEF OtherPanelOK
<1>18. use # "marketing" => \A t \in Slots : calls'[t].op \notin MarketingMethods \cup {"destroyToken"}
  BY <1>5, <1>6 DEF IInv
<1>19. trouble = 0 /\ SignedIn /\ server.sessions = {} => \E t \in Slots : Ends(calls'[t])
  <2>1. trouble = 0 /\ SignedIn /\ server.sessions = {} => \E t \in Slots : Ends(calls[t]) BY DEF IInv
  <2>2. ~Ends(calls[s]) BY <1>2 DEF Ends
  <2> QED BY <1>6, <2>1, <2>2
<1>20. Old(server)' = more BY DEF more
<1>21. /\ ServerOK(server)' /\ AccountOK(account, Old(server))' /\ UiOK(ui)' /\ assertion' \in Assertions
       /\ profile' \in Profiles /\ trouble' \in 0 .. MaxTrouble /\ changes' \in 0 .. MaxChanges /\ DOMAIN calls' = Slots
       /\ (\A t \in Slots : CallOK(calls[t], Old(server)))'
  BY <1>1, <1>2, <1>4, <1>8, <1>13, <1>14, <1>20
<1> QED BY <1>2, <1>7, <1>11, <1>15, <1>16, <1>17, <1>18, <1>19, <1>21 DEF IInv

\* An access token expires, or the session ends elsewhere.
LEMMA ExpiryKeeps == ASSUME IInv, ExpireToken \/ SessionEnds, Rest PROVE IInv'
<1>1. /\ trouble' \in 0 .. MaxTrouble /\ trouble' # 0 /\ UNCHANGED <<account, assertion, profile, calls, use, page, ui, changes>>
      /\ \/ server' = [server EXCEPT !.tokens = @ \ {account.access}]
         \/ server' = [server EXCEPT !.sessions = {}]
  BY MoreTrouble DEF ExpireToken, SessionEnds, Rest
<1>2. /\ ServerOK(server') /\ server'.sessions \subseteq server.sessions /\ server'.tokens \subseteq server.tokens
      /\ server'.issued = server.issued
  BY <1>1 DEF IInv, ServerOK
<1>3. Old(server)' = Old(server) /\ SignedIn' = SignedIn BY <1>1, <1>2 DEF Old, SignedIn
<1>4. NewsletterOK => NewsletterOK' BY <1>1, <1>2 DEF NewsletterOK
<1>5. AccountPanelOK => AccountPanelOK' BY <1>1, <1>2, <1>3 DEF AccountPanelOK
<1>6. OtherPanelOK => OtherPanelOK' BY <1>1, <1>2, <1>3 DEF OtherPanelOK
<1> QED BY <1>1, <1>2, <1>3, <1>4, <1>5, <1>6 DEF IInv

LEMMA TokenStepsKeep == ASSUME IInv, TokenSteps PROVE IInv'
<1>1. Rest BY DEF TokenSteps, Rest
<1>2. ASSUME NEW s \in Slots,
             \/ StatusArrives(s) \/ ProfileClient(s) \/ GenerateAssertion(s) \/ CreateOAuthToken(s)
             \/ FetchProfileOAuthToken(s) \/ RefusedAgain(s) \/ InvalidToken(s) \/ ServerFails(s)
      PROVE  IInv'
  BY <1>1, <1>2, StatusKeeps, ClientKeeps, AssertionKeeps, CreateKeeps, RenewKeeps, RefusalKeeps
<1>3. CASE CertificateSigned \/ AssertionExpires \/ ExpireToken \/ SessionEnds
  BY <1>1, <1>3, CertificateKeeps, ExpiryKeeps
<1> QED BY <1>2, <1>3 DEF TokenSteps

-----------------------------------------------------------------------------
LEMMA PanelsKeep == ASSUME IInv, Panels PROVE IInv'
<1>1. ASSUME NEW s \in Slots, Serve(s) \/ ShowError(s) PROVE IInv' BY <1>1, ServeKeeps, ShowErrorKeeps
<1>2. ASSUME NEW s \in Slots,
             \/ Render(s) \/ GateArrives(s) \/ GateFails(s) \/ CheckArrives(s) \/ PanelChanged(s)
             \/ SubmitEmail(s) \/ DisconnectEmail(s)
      PROVE  IInv'
  <2>1. Elsewhere BY <1>2, OnlyElsewhere
  <2> QED BY <1>2, <2>1, GateKeeps, EmailsKeep
<1> QED BY <1>1, <1>2 DEF Panels

LEMMA NextKeeps == ASSUME IInv, Next PROVE IInv'
<1>1. CASE TokenSteps BY <1>1, TokenStepsKeep
<1>2. CASE Panels BY <1>2, PanelsKeep
<1>3. CASE SessionIsVerified \/ EmailIsVerified BY <1>3, VerifiedKeeps
<1>4. CASE Refresh \/ Profile \/ ClientsPanel \/ RecoveryPanel \/ TotpPanel
  <2>1. Elsewhere BY <1>4, OnlyElsewhere
  <2> QED BY <1>4, <2>1, RefreshKeeps, ProfileKeeps, ClientsKeep, RecoveryKeeps, TotpKeeps
<1>5. CASE Newsletter \/ AccountPanels BY <1>5, NewsletterKeeps, AccountKeeps
<1> QED BY <1>1, <1>2, <1>3, <1>4, <1>5 DEF Next

LEMMA StutterKeeps == ASSUME IInv, UNCHANGED vars PROVE IInv'
<1>1. UNCHANGED <<server, account, assertion, profile, calls, trouble, use, page, ui, changes>> BY DEF vars, tokenVars
<1>2. /\ NewsletterOK' = NewsletterOK /\ SignedIn' = SignedIn /\ Old(server)' = Old(server)
  BY <1>1 DEF NewsletterOK, SignedIn, Old
<1>3. AccountPanelOK' = AccountPanelOK /\ OtherPanelOK' = OtherPanelOK BY <1>1, <1>2 DEF AccountPanelOK, OtherPanelOK
<1> QED BY <1>1, <1>2, <1>3 DEF IInv

LEMMA InitOK == ASSUME Init PROVE IInv
<1>1. PICK value \in {"off", "on"} :
          server = [sessions |-> {1}, verified |-> TRUE, tokens |-> {}, issued |-> {},
                    name |-> "none", image |-> "picture", value |-> value, gate |-> use # "emails",
                    clients |-> IF use = "clients" THEN Clients ELSE {}]
  BY DEF Init
<1>2. /\ account = [session |-> 1, access |-> 0, verified |-> use # "greeting", prefs |-> 0,
                    name |-> "none", image |-> "none", imageId |-> FALSE, hadImage |-> FALSE]
      /\ assertion = "none" /\ profile \in {"none", "fetched"} /\ calls = [s \in Slots |-> NoCall] /\ trouble = 0 /\ changes = 0
      /\ page = CASE use = "profile" -> "loading" [] use = "greeting" -> "greeting" [] OTHER -> "panel"
      /\ ui = [InitialUi EXCEPT !.loads = IF use = "profile" THEN {"settings"} ELSE {},
                                !.render = use \in {"key", "totp", "emails", "marketing"},
                                !.avatar = use = "greeting"]
  BY DEF Init
<1>3. /\ DOMAIN server = {"sessions", "verified", "tokens", "issued", "name", "image", "value", "gate", "clients"}
      /\ server.sessions = {1} /\ server.verified = TRUE /\ server.tokens = {} /\ server.issued = {}
      /\ server.clients \subseteq Clients
  BY <1>1
<1>4. ServerOK(server) /\ Old(server) = {0} BY <1>3 DEF ServerOK, Old
<1>5. AccountOK(account, {0}) /\ account.session = 1 /\ account.prefs = 0
  <2>1. /\ DOMAIN account = {"session", "access", "verified", "prefs", "name", "image", "imageId", "hadImage"}
        /\ account.session = 1 /\ account.access = 0 /\ account.prefs = 0 /\ account.verified \in BOOLEAN
    BY <1>2
  <2> QED BY <2>1 DEF AccountOK
<1>6. /\ DOMAIN ui = {"value", "render", "gated", "list", "refreshing", "loads", "name", "avatar", "camera", "ready", "lost"}
      /\ ui.list = {} /\ ui.render \in BOOLEAN /\ (ui.render => use \in {"key", "totp", "emails", "marketing"})
      /\ ui.avatar \in BOOLEAN /\ (ui.avatar => use = "greeting")
      /\ ui.loads = (IF use = "profile" THEN {"settings"} ELSE {}) /\ ui.camera = "off" /\ ui.ready \in BOOLEAN /\ ~ui.ready
  <2> DEFINE render == use \in {"key", "totp", "emails", "marketing"}
             avatar == use = "greeting"
  <2>1. render \in BOOLEAN /\ avatar \in BOOLEAN OBVIOUS
  <2>2. ui = [InitialUi EXCEPT !.loads = IF use = "profile" THEN {"settings"} ELSE {}, !.render = render, !.avatar = avatar]
    BY <1>2
  <2> HIDE DEF render, avatar
  <2>3. /\ DOMAIN ui = {"value", "render", "gated", "list", "refreshing", "loads", "name", "avatar", "camera", "ready", "lost"}
        /\ ui.list = {} /\ ui.render = render /\ ui.avatar = avatar
        /\ ui.loads = (IF use = "profile" THEN {"settings"} ELSE {}) /\ ui.camera = "off" /\ ui.ready = FALSE
    BY <2>2 DEF InitialUi
  <2>4. (render => use \in {"key", "totp", "emails", "marketing"}) /\ (avatar => use = "greeting") BY DEF render, avatar
  <2> QED BY <2>1, <2>3, <2>4
<1>7. UiOK(ui) BY <1>6 DEF UiOK
<1>8. /\ DOMAIN calls = Slots
      /\ \A s \in Slots : /\ CallOK(calls[s], {0}) /\ ~Ends(calls[s]) /\ ~Changed(calls[s])
                          /\ calls[s].op = "none" /\ calls[s].seen = "none" /\ calls[s].step = "none"
  BY <1>2, NoCallOK
<1>9. assertion \in Assertions /\ profile \in Profiles /\ trouble \in 0 .. MaxTrouble /\ changes \in 0 .. MaxChanges
  BY <1>2, TokenAssumption, SettingsAssumption DEF Assertions, Profiles
<1>10. use = "marketing" => NewsletterOK
  BY <1>2, <1>3, <1>5, <1>6, <1>8 DEF NewsletterOK, Quiet, Renewing, MarketingMethods
<1>11. use = "account" => AccountPanelOK
  <2> SUFFICES ASSUME use = "account" PROVE AccountPanelOK OBVIOUS
  <2>1. page = "panel" BY <1>2
  <2>2. Quiet(ui) /\ ~ui.render BY <1>6 DEF Quiet
  <2> QED BY <1>3, <1>5, <1>8, <2>1, <2>2 DEF AccountPanelOK
<1>12. OtherPanelOK
  BY <1>2, <1>3, <1>5, <1>8 DEF OtherPanelOK, PasswordOps
<1>13. \A s \in Slots : calls[s].op \notin MarketingMethods \cup {"destroyToken"} BY <1>8 DEF MarketingMethods
<1> QED BY <1>2, <1>3, <1>4, <1>5, <1>7, <1>8, <1>9, <1>10, <1>11, <1>12, <1>13 DEF IInv

-----------------------------------------------------------------------------
LEMMA InvariantHolds == Spec => []IInv
<1>1. IInv /\ [Next]_vars => IInv' BY NextKeeps, StutterKeeps
<1> QED BY InitOK, <1>1, PTL DEF Spec

LEMMA TokensHold == ASSUME IInv PROVE SettingsTokensHold
<1>1. /\ ServerOK(server) /\ AccountOK(account, Old(server)) /\ UiOK(ui) /\ assertion \in Assertions /\ profile \in Profiles
      /\ trouble \in 0 .. MaxTrouble /\ changes \in 0 .. MaxChanges
      /\ DOMAIN calls = Slots /\ \A s \in Slots : CallOK(calls[s], Old(server))
  BY DEF IInv
<1>2. TypeOK
  <2>1. server.tokens \subseteq server.issued /\ server.issued \subseteq Tokens /\ server.sessions \subseteq {1, 2}
        /\ server.clients \subseteq Clients
    BY <1>1 DEF ServerOK
  <2>2. account.session \in 0 .. 2 /\ account.verified \in BOOLEAN /\ {account.access, account.prefs} \subseteq server.issued \cup {0}
    BY <1>1 DEF AccountOK, Old
  <2>3. \A s \in Slots : /\ calls[s].op \in Ops
                         /\ calls[s].step \in {"none", "status", "gate", "assertion", "token",
                                               "request", "answered", "rejected"}
                         /\ calls[s].token \in Tokens \cup 0 .. 2
    BY <1>1 DEF CallOK, Steps
  <2> QED BY <1>1, <2>1, <2>2, <2>3 DEF TypeOK, UiOK, Assertions, Profiles
<1>3. RetryHasAFreshToken BY <1>1 DEF RetryHasAFreshToken, CallOK
<1>4. NoMarketingTokenIsLeft
  <2> SUFFICES ASSUME use = "marketing", NEW k \in server.tokens
               PROVE  k \in {calls[s].token : s \in Slots} \cup ui.lost
    BY DEF NoMarketingTokenIsLeft
  <2>1. NewsletterOK BY DEF IInv
  <2>2. k # 0 BY <1>1, TokenAssumption DEF ServerOK, Tokens
  <2> QED BY <2>1, <2>2 DEF NewsletterOK
<1>5. SettingsHaveASession
  <2> SUFFICES ASSUME SignedIn, trouble = 0, \A s \in Slots : Free(s) PROVE account.session \in server.sessions
    BY DEF SettingsHaveASession
  <2>1. \A s \in Slots : ~Ends(calls[s]) /\ ~Changed(calls[s]) BY DEF Free, Ends, Changed
  <2>2. server.sessions # {} BY <2>1 DEF IInv
  <2>3. CASE use = "account"
    <3>1. /\ 1 \in server.sessions => account.session # 2
          /\ account.session # 0
          /\ 2 \in server.sessions => account.session = 2
      BY <2>1, <2>3 DEF IInv, AccountPanelOK
    <3>2. server.sessions \in {{1}, {2}} /\ account.session \in 0 .. 2 BY <1>1, <2>2 DEF ServerOK, AccountOK
    <3> QED BY <3>1, <3>2
  <2>4. CASE use # "account" BY <2>2, <2>4, AllIsWell
  <2> QED BY <2>3, <2>4
<1> QED BY <1>2, <1>3, <1>4, <1>5 DEF SettingsTokensHold

\* A refused request is sent again with another access token, no token of the
\* newsletter is forgotten, and a settings screen on which nothing is under way
\* has a session the server knows, whatever was removed or changed in it
\* (account.js, marketing-email-prefs.js, views/settings and its panels).
THEOREM TokensAlwaysHold == Spec => []SettingsTokensHold
<1>1. IInv => SettingsTokensHold BY TokensHold
<1> QED BY InvariantHolds, <1>1, PTL

=============================================================================
