------------------------------ MODULE Settings ------------------------------
(***************************************************************************)
(* The settings screen and its panels (views/settings.js, sub_panels.js,   *)
(* views/settings/*, the panel mixins) on top of AccountTokens.            *)
(*                                                                         *)
(* A behaviour shows what one user does with one part of the screen,       *)
(* `use`, chosen at the start: the greeting of a screen outside of the     *)
(* settings, the profile, the list of clients, the recovery key, two-step  *)
(* authentication, the second e-mail, the newsletter, or the account       *)
(* itself.  An action of a panel sends a request; what the panel does with *)
(* the answer is an action of its own, as other things may happen between. *)
(***************************************************************************)
EXTENDS AccountTokens

CONSTANTS
    Uses,      \* the parts of the screen that are explored
    MaxChanges \* changes the user and other devices make

ASSUME SettingsAssumption == MaxChanges \in Nat

VARIABLES
    use,       \* the part of the screen this behaviour is about
    page,      \* the page that is shown
    ui,        \* what the panels show, and what they are about to do
    changes    \* changes made so far

vars == <<tokenVars, use, page, ui, changes>>

Clients == {"thisDevice", "device", "app", "session", "thisSession"}

(***************************************************************************)
(* What the servers do when a request of a panel is accepted.              *)
(***************************************************************************)
PostDisplayName(arg) == [server EXCEPT !.name = arg]

UploadAvatar == [server EXCEPT !.image = "picture"]

DeleteAvatar == [server EXCEPT !.image = "none"]

DestroyDevice(arg) ==
    [server EXCEPT !.clients = @ \ {arg}, !.sessions = IF arg = "thisDevice" THEN {} ELSE @]

DestroySession(arg) ==
    [server EXCEPT !.clients = @ \ {arg},
                   !.sessions = IF arg \in {"thisSession", "signout"} THEN {} ELSE @]

DestroyOAuthApp(arg) == [server EXCEPT !.clients = @ \ {arg}]

\* value is what the panel of the use is about: on or off, or a second e-mail
\* that is unverified or verified.
SetValue(value) == [server EXCEPT !.value = value]

NewValue(op) ==
    CASE op \in {"createRecoveryBundle", "verifyTotpCode", "optIn"}                  -> "on"
      [] op \in {"deleteRecoveryKey", "deleteTotpToken", "recoveryEmailDestroy"}     -> "off"
      [] op = "recoveryEmailCreate"                                                 -> "unverified"
      [] OTHER                                                                      -> server.value

ChangePassword == [server EXCEPT !.sessions = {2}]

DeleteAccount == [server EXCEPT !.sessions = {}, !.clients = {}]

DestroyToken(token) == [server EXCEPT !.tokens = @ \ {token}]

Effect(op, arg, token) ==
    CASE op = "postDisplayName" -> PostDisplayName(arg)
      [] op = "uploadAvatar"    -> UploadAvatar
      [] op = "deleteAvatar"    -> DeleteAvatar
      [] op = "deviceDestroy"   -> DestroyDevice(arg)
      [] op = "sessionDestroy"  -> DestroySession(arg)
      [] op = "destroyOAuthApp" -> DestroyOAuthApp(arg)
      [] op = "destroyToken"    -> DestroyToken(token)
      [] op = "passwordChange"  -> ChangePassword
      [] op = "accountDestroy"  -> DeleteAccount
      [] OTHER                  -> SetValue(NewValue(op))

Serve(s) ==
    /\ Accept(s, Effect(calls[s].op, calls[s].arg, calls[s].token))
    /\ UNCHANGED <<use, page, ui, changes>>

(***************************************************************************)
(* The state of the screen.                                                *)
(***************************************************************************)
\* value: what the panel of this use shows of the server's value; rendered:
\* the panel asked for nothing more; gated: it shows the session gate;
\* list: the clients shown; loads: the views that wait for the profile;
\* avatar: the picture is to be shown; camera: the stream of the camera;
\* ready: _isBasketReady; lost: tokens whose destruction failed.
InitialUi ==
    [value |-> "unset", render |-> FALSE, gated |-> FALSE, list |-> {}, refreshing |-> FALSE,
     loads |-> {}, name |-> "none", avatar |-> FALSE, camera |-> "off", ready |-> FALSE, lost |-> {}]

Init ==
    /\ use \in Uses
    /\ \E value \in IF use = "key" THEN {"off", "on"} ELSE {"off"} :
          server = [sessions |-> {1}, verified |-> TRUE, tokens |-> {}, issued |-> {},
                    name |-> "none", image |-> "picture", value |-> value, gate |-> use # "emails",
                    clients |-> IF use = "clients" THEN Clients ELSE {}]
    /\ account = [session |-> 1, access |-> 0, verified |-> use # "greeting",
                  prefs |-> 0,
                  name |-> "none", image |-> "none", imageId |-> FALSE, hadImage |-> FALSE]
    /\ assertion = "none"
    /\ profile = IF use = "profile" THEN "none" ELSE "fetched"
    /\ calls = [s \in Slots |-> NoCall]
    /\ trouble = 0
    /\ page = CASE use = "profile" -> "loading" [] use = "greeting" -> "greeting" [] OTHER -> "panel"
    /\ ui = [InitialUi EXCEPT !.loads = IF use = "profile" THEN {"settings"} ELSE {},
                              !.render = use \in {"key", "totp", "emails", "marketing"},
                              !.avatar = use = "greeting"]
    /\ changes = 0

(***************************************************************************)
(* How the actions below are put together.                                 *)
(***************************************************************************)
SignedIn == page \notin {"signin", "signup", "error"}

Ask(s, op, arg) ==
    /\ SignedIn
    /\ Call(s, op, arg)
    /\ UNCHANGED <<server, assertion, trouble, use>>

Change == changes < MaxChanges /\ changes' = changes + 1

Answered(s, op) == SignedIn /\ calls[s].op = op /\ calls[s].step = "answered"

Rejected(s, op) == SignedIn /\ calls[s].op = op /\ calls[s].step = "rejected"

Finish(s) ==
    /\ calls' = [calls EXCEPT ![s] = NoCall]
    /\ UNCHANGED <<server, assertion, trouble, use, changes>>

Then(s, op, arg) ==
    /\ calls' = [calls EXCEPT ![s] = NewCall(op, arg)]
    /\ UNCHANGED <<server, assertion, trouble, use, changes>>

\* The displayed error leaves the panel as it was; these have handlers of their own.
Handled ==
    {"getProfile", "fetchOAuthApps", "sessions", "recoveryEmailStatus",
     "sessionVerificationStatus", "destroyToken"} \cup MarketingMethods

ShowError(s) ==
    /\ Rejected(s, calls[s].op)
    /\ calls[s].op \notin Handled
    /\ calls[s].arg # "signout"
    /\ Finish(s)
    /\ UNCHANGED <<account, profile, page, ui>>

-----------------------------------------------------------------------------
(***************************************************************************)
(* The profile: its cached request, the name and the picture.              *)
(***************************************************************************)
FetchProfile(s) ==
    /\ ui.loads # {}
    /\ profile = "none"
    /\ Ask(s, "getProfile", "none")
    /\ profile' = "pending"
    /\ UNCHANGED <<account, page, ui, changes>>

ProfileArrives(s) ==
    /\ Answered(s, "getProfile")
    /\ account' = [SetProfileImage(account, calls[s].view.image)
                       EXCEPT !.imageId = FALSE, !.name = calls[s].view.name]
    /\ profile' = "fetched"
    /\ Finish(s)
    /\ UNCHANGED <<page, ui>>

ProfileFails(s) ==
    /\ Rejected(s, "getProfile")
    /\ profile' = "failed"
    /\ Finish(s)
    /\ UNCHANGED <<account, page, ui>>

\* Settings.beforeRender, DisplayName.beforeRender
ProfileLoaded ==
    /\ SignedIn
    /\ ui.loads # {}
    /\ profile \in {"fetched", "failed"}
    /\ page' = IF "settings" \notin ui.loads THEN page
               ELSE IF profile = "fetched" THEN "panel" ELSE "error"
    /\ ui' = [ui EXCEPT !.loads = {},
                        !.name = IF profile = "fetched" THEN account.name ELSE @,
                        !.avatar = @ \/ "settings" \in ui.loads]
    /\ UNCHANGED <<tokenVars, use, changes>>

\* PROFILE_CHANGE renders the name and the picture again.
ProfileChange(u) == [u EXCEPT !.loads = @ \cup {"name"}, !.avatar = TRUE]

SubmitName(s, n) ==
    /\ use = "profile" /\ page = "panel"
    /\ ~UnderWay("postDisplayName")
    /\ n # account.name
    /\ Change
    /\ Ask(s, "postDisplayName", n)
    /\ UNCHANGED <<account, profile, page, ui>>

NamePosted(s) ==
    /\ Answered(s, "postDisplayName")
    /\ SetAccount([account EXCEPT !.name = calls[s].arg])
    /\ ui' = ProfileChange(ui)
    /\ Finish(s)
    /\ UNCHANGED page

\* displayAccountProfileImage
DisplayImage(s) ==
    /\ ui.avatar
    /\ Ask(s, "getAvatar", "display")
    /\ ui' = [ui EXCEPT !.avatar = FALSE]
    /\ UNCHANGED <<account, profile, page, changes>>

FetchCurrentProfileImage(a, image) ==
    [SetProfileImage(a, image) EXCEPT !.imageId = image = "picture"]

ImageArrives(s) ==
    /\ Answered(s, "getAvatar")
    /\ SetAccount(FetchCurrentProfileImage(account, calls[s].view.image))
    /\ IF calls[s].arg = "remove" THEN Then(s, "deleteAvatar", "none") ELSE Finish(s)
    /\ UNCHANGED <<page, ui>>

GotoAvatar ==
    /\ use = "profile" /\ page = "panel"
    /\ Change
    /\ page' = "avatar"
    /\ ui' = [ui EXCEPT !.avatar = TRUE]
    /\ UNCHANGED <<tokenVars, use>>

RemoveAvatar(s) ==
    /\ page = "avatar"
    /\ account.image = "picture"
    /\ ~UnderWay("deleteAvatar")
    /\ IF account.imageId THEN Ask(s, "deleteAvatar", "none") ELSE Ask(s, "getAvatar", "remove")
    /\ UNCHANGED <<account, profile, page, ui, changes>>

AvatarRemoved(s) ==
    /\ Answered(s, "deleteAvatar")
    /\ SetAccount([SetProfileImage(account, "none") EXCEPT !.imageId = FALSE])
    /\ ui' = ProfileChange(ui)
    /\ page' = "panel"
    /\ Finish(s)

\* AvatarCamera.startStream: the answer of the user may come when the view is gone.
OpenCamera ==
    /\ page = "avatar"
    /\ Change
    /\ page' = "camera"
    /\ ui' = [ui EXCEPT !.camera = IF @ = "on" THEN @ ELSE "asked"]
    /\ UNCHANGED <<tokenVars, use>>

StreamArrives ==
    /\ ui.camera = "asked"
    /\ ui' = [ui EXCEPT !.camera = "on"]
    /\ UNCHANGED <<tokenVars, use, page, changes>>

StopAndDestroyStream(u) == [u EXCEPT !.camera = IF @ = "on" THEN "off" ELSE @]

LeaveCamera ==
    /\ page = "camera"
    /\ page' = "panel"
    /\ ui' = StopAndDestroyStream(ui)
    /\ UNCHANGED <<tokenVars, use, changes>>

\* AvatarCamera.submit; AvatarCrop.submit differs only in where the picture is from.
SubmitPicture(s) ==
    /\ page = "camera"
    /\ ui.camera = "on"
    /\ ~UnderWay("uploadAvatar")
    /\ Ask(s, "uploadAvatar", "none")
    /\ UNCHANGED <<account, profile, page, ui, changes>>

PictureUploaded(s) ==
    /\ Answered(s, "uploadAvatar")
    /\ SetAccount([SetProfileImage(account, "picture") EXCEPT !.imageId = TRUE])
    /\ ui' = ProfileChange(StopAndDestroyStream(ui))
    /\ page' = "panel"
    /\ Finish(s)

Profile ==
    \/ \E s \in Slots :
          \/ FetchProfile(s) \/ ProfileArrives(s) \/ ProfileFails(s)
          \/ \E n \in {"none", "Ada"} : SubmitName(s, n)
          \/ NamePosted(s) \/ DisplayImage(s) \/ ImageArrives(s)
          \/ RemoveAvatar(s) \/ AvatarRemoved(s) \/ SubmitPicture(s) \/ PictureUploaded(s)
    \/ ProfileLoaded \/ GotoAvatar \/ OpenCamera \/ StreamArrives \/ LeaveCamera

-----------------------------------------------------------------------------
(***************************************************************************)
(* Devices & apps.                                                         *)
(***************************************************************************)
\* Clients.openPanel and the refresh button submit the form: two requests.
FetchClients(s, t) ==
    /\ use = "clients" /\ page = "panel"
    /\ s # t /\ Free(s) /\ Free(t)
    /\ ~ui.refreshing
    /\ Change
    /\ calls' = [calls EXCEPT ![s] = NewCall("fetchOAuthApps", "none"), ![t] = NewCall("sessions", "none")]
    /\ ui' = [ui EXCEPT !.refreshing = TRUE]
    /\ UNCHANGED <<server, assertion, trouble, use, account, profile, page>>

Apps(cs) == cs \cap {"app"}

\* Promise.all: the list is built anew when both answers are there.
ListArrives(s, t) ==
    /\ Answered(s, "fetchOAuthApps")
    /\ Answered(t, "sessions")
    /\ ui' = [ui EXCEPT !.refreshing = FALSE,
                        !.list = Apps(calls[s].view.clients)
                                   \cup (calls[t].view.clients \ {"app"})]
    /\ calls' = [calls EXCEPT ![s] = NoCall, ![t] = NoCall]
    /\ UNCHANGED <<server, assertion, trouble, use, changes, account, profile, page>>

ListFails(s) ==
    /\ ui.refreshing
    /\ calls[s].op \in {"fetchOAuthApps", "sessions"}
    /\ calls[s].step = "rejected"
    /\ ui' = [ui EXCEPT !.refreshing = FALSE]
    /\ calls' = [t \in Slots |->
           IF calls[t].op \in {"fetchOAuthApps", "sessions"} THEN NoCall ELSE calls[t]]
    /\ UNCHANGED <<server, assertion, trouble, use, changes, account, profile, page>>

DestroyAccountClient(s, c) ==
    Ask(s, IF c = "app" THEN "destroyOAuthApp"
           ELSE IF c \in {"device", "thisDevice"} THEN "deviceDestroy" ELSE "sessionDestroy", c)

DisconnectClient(s, c) ==
    /\ use = "clients" /\ page = "panel"
    /\ c \in ui.list
    /\ \A t \in Slots : calls[t].arg # c
    /\ IF c \in {"device", "thisDevice"}
         THEN /\ page' = "disconnect"
              /\ ui' = [ui EXCEPT !.name = c]
              /\ UNCHANGED <<server, assertion, trouble, calls, use>>
         ELSE /\ DestroyAccountClient(s, c)
              /\ UNCHANGED <<page, ui>>
    /\ UNCHANGED <<account, profile, changes>>

\* ClientDisconnect: the user confirms, with a reason, or goes back.
ConfirmDisconnect(s) ==
    /\ page = "disconnect"
    /\ ~UnderWay("deviceDestroy")
    /\ DestroyAccountClient(s, ui.name)
    /\ UNCHANGED <<account, profile, page, ui, changes>>

ReturnToClientList ==
    /\ page = "disconnect"
    /\ page' = "panel"
    /\ UNCHANGED <<tokenVars, use, ui, changes>>

RemoveFromList(c) == ui' = [ui EXCEPT !.list = @ \ {c}]

DeviceDestroyed(s) ==
    /\ Answered(s, "deviceDestroy")
    /\ RemoveFromList(calls[s].arg)
    /\ page' = IF calls[s].arg = "thisDevice" THEN "signin" ELSE "panel"
    /\ Finish(s)
    /\ UNCHANGED <<account, profile>>

AppDestroyed(s) ==
    /\ Answered(s, "destroyOAuthApp")
    /\ RemoveFromList(calls[s].arg)
    /\ Finish(s)
    /\ UNCHANGED <<account, profile, page>>

\* The list does not know the current session: the status of the session tells.
SessionDestroyedUnchecked(s) ==
    /\ Answered(s, "sessionDestroy") /\ calls[s].arg # "signout"
    /\ RemoveFromList(calls[s].arg)
    /\ Finish(s)
    /\ UNCHANGED <<account, profile, page>>

SessionDestroyed(s) ==
    /\ Answered(s, "sessionDestroy") /\ calls[s].arg # "signout"
    /\ RemoveFromList(calls[s].arg)
    /\ Then(s, "recoveryEmailStatus", "none")
    /\ UNCHANGED <<account, profile, page>>

SessionStillThere(s) ==
    /\ Answered(s, "recoveryEmailStatus")
    /\ SetAccount([account EXCEPT !.verified = TRUE])
    /\ Finish(s)
    /\ UNCHANGED <<page, ui>>

\* Any failure of the status leads to the sign-in page.
SessionIsGone(s) ==
    /\ Rejected(s, "recoveryEmailStatus")
    /\ SetAccount(IF calls[s].seen = "INVALID_TOKEN" THEN UnsetSessionToken ELSE account)
    /\ page' = "signin"
    /\ Finish(s)
    /\ UNCHANGED ui

ClientsPanel ==
    \/ \E s, t \in Slots : FetchClients(s, t) \/ ListArrives(s, t)
    \/ \E s \in Slots :
          \/ ListFails(s) \/ ConfirmDisconnect(s) \/ DeviceDestroyed(s) \/ AppDestroyed(s)
          \/ SessionDestroyed(s) \/ SessionStillThere(s) \/ SessionIsGone(s)
          \/ \E c \in Clients : DisconnectClient(s, c)
    \/ ReturnToClientList

-----------------------------------------------------------------------------
(***************************************************************************)
(* Panels behind the session gate: the recovery key, two-step              *)
(* authentication, the second e-mail.  Rendering one asks for the status   *)
(* of the session, and then for what the panel shows.                      *)
(***************************************************************************)
Gated == {"key", "totp", "emails"}

Check == CASE use = "key" -> "recoveryKeyExists" [] use = "totp" -> "checkTotpTokenExists"
           [] OTHER -> "recoveryEmails"

Render(s) ==
    /\ use \in Gated /\ ui.render
    /\ Ask(s, "sessionVerificationStatus", "panel")
    /\ ui' = [ui EXCEPT !.render = FALSE]
    /\ UNCHANGED <<account, profile, page, changes>>

\* setupSessionGateIfRequired; the panel of the recovery key goes on regardless.
GateArrives(s) ==
    /\ Answered(s, "sessionVerificationStatus")
    /\ ui' = [ui EXCEPT !.gated = ~calls[s].view.gate]
    /\ IF calls[s].view.gate \/ use = "key" THEN Then(s, Check, "panel") ELSE Finish(s)
    /\ UNCHANGED <<account, profile, page>>

GateFails(s) ==
    /\ Rejected(s, "sessionVerificationStatus")
    /\ SetAccount(IF calls[s].seen = "INVALID_TOKEN" THEN UnsetSessionToken ELSE account)
    /\ Finish(s)
    /\ UNCHANGED <<page, ui>>

\* The panel of the recovery key renders again whenever its model changes.
ShowValueOnce(v) == ui' = [ui EXCEPT !.value = v]
ShowValue(v) ==
    ui' = [ui EXCEPT !.value = v, !.render = @ \/ (use = "key" /\ ui.value # v)]

CheckArrives(s) ==
    /\ \E op \in {"recoveryKeyExists", "checkTotpTokenExists", "recoveryEmails"} : Answered(s, op)
    /\ CASE calls[s].arg = "panel" -> ShowValue(calls[s].view.value) /\ UNCHANGED page
         [] calls[s].arg # "panel" /\ calls[s].view.value = "off" -> page' = "panel" /\ UNCHANGED ui
         [] OTHER -> page' = calls[s].arg /\ UNCHANGED ui
    /\ Finish(s)
    /\ UNCHANGED <<account, profile>>

Refresh ==
    /\ use \in Gated /\ page = "panel"
    /\ ~ui.render
    /\ Change
    /\ ui' = [ui EXCEPT !.render = TRUE]
    /\ UNCHANGED <<tokenVars, use, page>>

\* The user confirms the session in another window.
SessionIsVerified ==
    /\ use \in Gated /\ ~server.gate
    /\ server' = [server EXCEPT !.gate = TRUE]
    /\ UNCHANGED <<account, assertion, profile, calls, trouble, use, page, ui, changes>>

-----------------------------------------------------------------------------
(* The recovery key. *)
CreateRecoveryBundle(s) ==
    /\ use = "key" /\ page = "panel"
    /\ ui.value = "off" /\ ~ui.gated
    /\ ~UnderWay("createRecoveryBundle")
    /\ Change
    /\ Ask(s, "createRecoveryBundle", "none")
    /\ UNCHANGED <<account, profile, page, ui>>

\* The page of the key asks whether there is one before it shows it.
RecoveryKeyCreated(s) ==
    /\ Answered(s, "createRecoveryBundle")
    /\ Then(s, "recoveryKeyExists", "recovery_key")
    /\ UNCHANGED <<account, profile, page, ui>>

OpenConfirmRevoke(s) ==
    /\ use = "key" /\ page = "panel"
    /\ ui.value = "on" /\ ~ui.gated
    /\ Change
    /\ Ask(s, "recoveryKeyExists", "confirm_revoke")
    /\ UNCHANGED <<account, profile, page, ui>>

DeleteRecoveryKey(s) ==
    /\ page = "confirm_revoke"
    /\ ~UnderWay("deleteRecoveryKey")
    /\ Change
    /\ Ask(s, "deleteRecoveryKey", "none")
    /\ UNCHANGED <<account, profile, page, ui>>

RecoveryKeyDeleted(s) ==
    /\ Answered(s, "deleteRecoveryKey")
    /\ page' = "panel"
    /\ ShowValue("off")
    /\ Finish(s)
    /\ UNCHANGED <<account, profile>>

\* onModalCancel: each page goes back to the panel with what it supposes.
ReturnToAccountRecovery ==
    /\ page \in {"recovery_key", "confirm_revoke"}
    /\ page' = "panel"
    /\ ShowValue(IF page = "recovery_key" THEN "on" ELSE "off")
    /\ UNCHANGED <<tokenVars, use, changes>>

RecoveryPanel ==
    \/ \E s \in Slots :
          \/ CreateRecoveryBundle(s) \/ RecoveryKeyCreated(s) \/ OpenConfirmRevoke(s)
          \/ DeleteRecoveryKey(s) \/ RecoveryKeyDeleted(s)
    \/ ReturnToAccountRecovery

-----------------------------------------------------------------------------
(* Two-step authentication. *)
CreateToken(s) ==
    /\ use = "totp" /\ page = "panel"
    /\ ui.value = "off" /\ ~ui.gated
    /\ Change
    /\ Ask(s, "createTotpToken", "none")
    /\ UNCHANGED <<account, profile, page, ui>>

TokenCreated(s) ==
    /\ Answered(s, "createTotpToken")
    /\ page' = "qr"
    /\ Finish(s)
    /\ UNCHANGED <<account, profile, ui>>

SubmitTotpCode(s) ==
    /\ page = "qr"
    /\ ~UnderWay("verifyTotpCode")
    /\ Ask(s, "verifyTotpCode", "none")
    /\ UNCHANGED <<account, profile, page, ui, changes>>

\* The codes are shown on a page that asks whether two-step is on.
TotpEnabled(s) ==
    /\ Answered(s, "verifyTotpCode")
    /\ ui' = [ui EXCEPT !.render = TRUE]
    /\ Then(s, "checkTotpTokenExists", "recovery_codes")
    /\ UNCHANGED <<account, profile, page>>

DeleteToken(s) ==
    /\ use = "totp" /\ page = "panel"
    /\ ui.value = "on" /\ ~ui.gated
    /\ ~UnderWay("deleteTotpToken")
    /\ Change
    /\ Ask(s, "deleteTotpToken", "none")
    /\ UNCHANGED <<account, profile, page, ui>>

PanelChanged(s) ==
    /\ \E op \in {"deleteTotpToken", "recoveryEmailCreate", "recoveryEmailDestroy"} : Answered(s, op)
    /\ ui' = [ui EXCEPT !.render = TRUE]
    /\ Finish(s)
    /\ UNCHANGED <<account, profile, page>>

ReplaceRecoveryCodes(s) ==
    /\ page = "recovery_codes"
    /\ Change
    /\ Ask(s, "replaceRecoveryCodes", "none")
    /\ UNCHANGED <<account, profile, page, ui>>

CodesReplaced(s) ==
    /\ Answered(s, "replaceRecoveryCodes")
    /\ Finish(s)
    /\ UNCHANGED <<account, profile, page, ui>>

ReturnToTwoStepAuthentication ==
    /\ page = "recovery_codes"
    /\ page' = "panel"
    /\ UNCHANGED <<tokenVars, use, ui, changes>>

TotpPanel ==
    \/ \E s \in Slots :
          \/ CreateToken(s) \/ TokenCreated(s) \/ SubmitTotpCode(s) \/ TotpEnabled(s)
          \/ DeleteToken(s) \/ ReplaceRecoveryCodes(s) \/ CodesReplaced(s)
    \/ ReturnToTwoStepAuthentication

-----------------------------------------------------------------------------
(* The second e-mail. *)
SubmitEmail(s) ==
    /\ use = "emails" /\ page = "panel"
    /\ ui.value = "off" /\ ~ui.gated
    /\ ~UnderWay("recoveryEmailCreate")
    /\ Change
    /\ Ask(s, "recoveryEmailCreate", "none")
    /\ UNCHANGED <<account, profile, page, ui>>

DisconnectEmail(s) ==
    /\ use = "emails" /\ page = "panel"
    /\ ui.value # "off" /\ ui.value # "unset" /\ ~ui.gated
    /\ Change
    /\ Ask(s, "recoveryEmailDestroy", "none")
    /\ UNCHANGED <<account, profile, page, ui>>

EmailIsVerified ==
    /\ server.value = "unverified"
    /\ server' = [server EXCEPT !.value = "verified"]
    /\ UNCHANGED <<account, assertion, profile, calls, trouble, use, page, ui, changes>>

-----------------------------------------------------------------------------
(***************************************************************************)
(* The newsletter: each operation creates a token and destroys it when it  *)
(* has its answer; the form to subscribe is there when the first is over.  *)
(***************************************************************************)
FetchPrefs(s) ==
    /\ use = "marketing" /\ ui.render
    /\ ui' = [ui EXCEPT !.render = FALSE]
    /\ Ask(s, "fetchPrefs", "none")
    /\ UNCHANGED <<account, profile, page, changes>>

IsBasketReady == use = "marketing" /\ ui.ready

OptIn(s) ==
    /\ IsBasketReady
    /\ ui.value # "on"
    /\ ~UnderWay("optIn")
    /\ Change
    /\ Ask(s, "optIn", "none")
    /\ UNCHANGED <<account, profile, page, ui>>

\* destroyAccessToken, after an answer or a failure
WithMarketingEmailClient(s) ==
    /\ calls[s].op \in MarketingMethods
    /\ calls[s].step \in {"answered", "rejected"}
    /\ ui' = [ui EXCEPT !.ready = TRUE,
                        !.value = IF calls[s].step = "answered" THEN calls[s].view.value ELSE @]
    /\ account' = [account EXCEPT !.prefs = 0]
    /\ calls' = [calls EXCEPT ![s] =
           IF account.prefs = 0 THEN NoCall
           ELSE [NewCall("destroyToken", "none") EXCEPT !.token = account.prefs]]
    /\ UNCHANGED <<server, assertion, trouble, use, changes, profile, page>>

TokenDestroyed(s) ==
    /\ calls[s].op = "destroyToken"
    /\ calls[s].step \in {"answered", "rejected"}
    /\ ui' = [ui EXCEPT !.lost = IF calls[s].step = "rejected" THEN @ \cup {calls[s].token} ELSE @]
    /\ Finish(s)
    /\ UNCHANGED <<account, profile, page>>

Newsletter ==
    \E s \in Slots : FetchPrefs(s) \/ OptIn(s) \/ WithMarketingEmailClient(s) \/ TokenDestroyed(s)

-----------------------------------------------------------------------------
(***************************************************************************)
(* The account: its password, its end, signing out.                        *)
(***************************************************************************)
CheckPassword(s, what) ==
    /\ use = "account" /\ page = "panel"
    /\ \A t \in Slots : calls[t].arg # what
    /\ Change
    /\ Ask(s, IF what = "password" THEN "checkPassword" ELSE "accountDestroy", what)
    /\ UNCHANGED <<account, profile, page, ui>>

\* The new password must differ from the old one.
PasswordChecked(s) ==
    /\ Answered(s, "checkPassword")
    /\ \/ Then(s, "passwordChange", "password")
       \/ Finish(s)
    /\ UNCHANGED <<account, profile, page, ui>>

PasswordChanged(s) ==
    /\ Answered(s, "passwordChange")
    /\ SetAccount([account EXCEPT !.session = 2])
    /\ calls' = [calls EXCEPT ![s] = NoCall]
    /\ assertion' = "none"
    /\ UNCHANGED <<server, trouble, use, page, ui, changes>>

AccountDeleted(s) ==
    /\ Answered(s, "accountDestroy")
    /\ page' = "signup"
    /\ SetAccount(DiscardSessionToken)
    /\ Finish(s)
    /\ UNCHANGED ui

\* Failures are ignored: the account is forgotten all the same.
SignOut(s) ==
    /\ use = "account" /\ page = "panel"
    /\ \A t \in Slots : calls[t].arg # "signout"
    /\ Ask(s, "sessionDestroy", "signout")
    /\ UNCHANGED <<account, profile, page, ui, changes>>

SignedOut(s) ==
    /\ SignedIn
    /\ calls[s].op = "sessionDestroy" /\ calls[s].arg = "signout"
    /\ calls[s].step \in {"answered", "rejected"}
    /\ page' = "signin"
    /\ SetAccount(DiscardSessionToken)
    /\ Finish(s)
    /\ UNCHANGED ui

AccountPanels ==
    \E s \in Slots :
        \/ \E what \in {"password", "delete"} : CheckPassword(s, what)
        \/ PasswordChecked(s) \/ PasswordChanged(s) \/ AccountDeleted(s) \/ SignOut(s) \/ SignedOut(s)

-----------------------------------------------------------------------------
Panels ==
    \E s \in Slots :
        \/ Serve(s) \/ ShowError(s)
        \/ Render(s) \/ GateArrives(s) \/ GateFails(s) \/ CheckArrives(s) \/ PanelChanged(s)
        \/ SubmitEmail(s) \/ DisconnectEmail(s)

TokenSteps ==
    /\ \/ \E s \in Slots :
              \/ StatusArrives(s) \/ ProfileClient(s) \/ GenerateAssertion(s)
              \/ CreateOAuthToken(s) \/ FetchProfileOAuthToken(s) \/ RefusedAgain(s)
              \/ InvalidToken(s) \/ ServerFails(s)
       \/ CertificateSigned \/ AssertionExpires \/ ExpireToken \/ SessionEnds
    /\ UNCHANGED <<use, page, ui, changes>>

Next ==
    \/ TokenSteps \/ Panels \/ Refresh \/ SessionIsVerified \/ EmailIsVerified
    \/ Profile \/ ClientsPanel \/ RecoveryPanel \/ TotpPanel \/ Newsletter \/ AccountPanels

(***************************************************************************)
(* Every request is answered, and its answer handled, whatever happens to  *)
(* the others.  Nothing is assumed of the user, or of failures.            *)
(***************************************************************************)
Answer(s) ==
    \/ Serve(s) \/ ShowError(s) \/ ProfileArrives(s) \/ ProfileFails(s)
    \/ NamePosted(s) \/ ImageArrives(s) \/ AvatarRemoved(s) \/ PictureUploaded(s)
    \/ ListFails(s) \/ DeviceDestroyed(s) \/ AppDestroyed(s) \/ SessionDestroyed(s)
    \/ SessionStillThere(s) \/ SessionIsGone(s)
    \/ GateArrives(s) \/ GateFails(s) \/ CheckArrives(s) \/ PanelChanged(s)
    \/ RecoveryKeyCreated(s) \/ RecoveryKeyDeleted(s) \/ TokenCreated(s) \/ TotpEnabled(s)
    \/ CodesReplaced(s) \/ WithMarketingEmailClient(s) \/ TokenDestroyed(s)
    \/ PasswordChanged(s) \/ AccountDeleted(s) \/ SignedOut(s)
    \/ \E t \in Slots : ListArrives(s, t)
    \/ /\ \/ StatusArrives(s) \/ ProfileClient(s) \/ GenerateAssertion(s) \/ CreateOAuthToken(s)
          \/ FetchProfileOAuthToken(s) \/ RefusedAgain(s) \/ InvalidToken(s)
       /\ UNCHANGED <<use, page, ui, changes>>

Fairness ==
    /\ \A s \in Slots : WF_vars(Answer(s))
    /\ WF_vars(\E s \in Slots : FetchProfile(s) \/ DisplayImage(s) \/ Render(s))
    /\ WF_vars(ProfileLoaded)
    /\ WF_vars(CertificateSigned /\ UNCHANGED <<use, page, ui, changes>>)

Spec == Init /\ [][Next]_vars /\ Fairness

-----------------------------------------------------------------------------
(***************************************************************************)
(* What must hold.                                                         *)
(***************************************************************************)
Ops == ProfileMethods \cup OAuthAppMethods \cup MarketingMethods \cup
    {"none", "deviceDestroy", "sessionDestroy", "createRecoveryBundle", "deleteRecoveryKey",
     "recoveryKeyExists", "createTotpToken", "verifyTotpCode", "deleteTotpToken", "checkTotpTokenExists",
     "replaceRecoveryCodes", "recoveryEmails", "recoveryEmailCreate", "recoveryEmailDestroy",
     "destroyToken", "checkPassword", "passwordChange", "accountDestroy", "sessions",
     "recoveryEmailStatus", "sessionVerificationStatus"}

\* The types; and what the account holds are tokens that were issued to it.
TypeOK ==
    /\ server.tokens \subseteq server.issued /\ server.issued \subseteq Tokens
    /\ server.sessions \subseteq {1, 2} /\ server.clients \subseteq Clients
    /\ account.session \in 0 .. 2 /\ account.verified \in BOOLEAN
    /\ {account.access, account.prefs} \subseteq server.issued \cup {0}
    /\ assertion \in {"none", "pending", "made", "INVALID_TOKEN", "error"}
    /\ profile \in {"none", "pending", "fetched", "failed"}
    /\ \A s \in Slots :
          /\ calls[s].op \in Ops
          /\ calls[s].step \in {"none", "status", "gate", "assertion", "token",
                                "request", "answered", "rejected"}
          /\ calls[s].token \in Tokens \cup 0 .. 2
    /\ ui.list \subseteq Clients
    /\ trouble \in 0 .. MaxTrouble /\ changes \in 0 .. MaxChanges

\* A request that was refused with one access token is sent again with
\* another one (account.js:896 and 1473; destroyOAuthApp is known to differ).
RetryHasAFreshToken ==
    \A s \in Slots :
        calls[s].first # 0 /\ calls[s].step = "request" /\ calls[s].op # "destroyOAuthApp"
            => calls[s].token # calls[s].first - 1

\* At most one token for the newsletter is kept, and only while an operation
\* needs it, unless the server failed to destroy it: the tokens share one
\* place, and what keeps two operations apart is _isBasketReady.
NoMarketingTokenIsLeft ==
    use = "marketing" =>
        server.tokens \subseteq {calls[s].token : s \in Slots} \cup ui.lost

\* A settings screen on which nothing is under way has a session the server
\* knows, whatever the user removed or changed in it.
SettingsHaveASession ==
    SignedIn /\ trouble = 0 /\ (\A s \in Slots : Free(s)) => account.session \in server.sessions

\* Who disconnects the session or the device he uses is led to the sign-in page.
OwnEndIsNoticed ==
    use = "clients" /\ server.sessions = {} /\ trouble = 0 ~> page = "signin" \/ trouble # 0

\* Pages of the recovery key go back with what they suppose of it, and late
\* answers set what was true: in the end the panel, when it is shown, shows
\* what the server has.
RecoveryStatusSettles ==
    [](use = "key" /\ trouble = 0) => <>[](page = "panel" => ui.value = server.value)

\* Refreshing the list of clients ends, whichever of its requests fail.
RefreshEnds == ui.refreshing ~> ~ui.refreshing \/ ~SignedIn

\* The tokens the panels use: those of the profile server are renewed before a
\* retry (account.js:1473), those of the newsletter destroyed, and the session
\* is one the server knows.
SettingsTokensHold == TypeOK /\ RetryHasAFreshToken /\ NoMarketingTokenIsLeft /\ SettingsHaveASession

\* What late answers may not leave behind: an old status of the recovery key,
\* while no server fails, and a spinner on the list of clients in any case.
PanelsSettle == RecoveryStatusSettles /\ RefreshEnds

=============================================================================
