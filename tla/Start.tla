-------------------------------- MODULE Start --------------------------------
(***************************************************************************)
(* The start of the application (lib/app-start.js): a page is opened, its  *)
(* parts are made one after the other, some of them wait for an answer,    *)
(* and each may fail; then the first screen is shown, or an error page.    *)
(* What a page is for is read of its URL and of what earlier pages of the  *)
(* browser have stored: the session's `oauth' (lib/session.js), the        *)
(* context of who verifies in the same browser (same-browser.js), the      *)
(* account that is signed in, and what it has seen of each client.         *)
(*                                                                         *)
(* The user then signs in or up for an OAuth client, is asked for the      *)
(* permissions it wants (views/permissions.js), confirms an e-mail, and    *)
(* opens the next page.                                                    *)
(***************************************************************************)
EXTENDS Reliers

Broker == INSTANCE Brokers

CONSTANTS
    Visits,      \* the pages that are opened first: a URL and a browser
    LaterUrls,   \* the URLs that are opened after that, beside links of e-mails
    MaxVisits    \* bound: pages opened

ASSUME MaxVisitsAssumption == MaxVisits \in Nat \ {0}

\* Screens that only other screens lead to.
InnerScreens == {"blank", "permissions", "confirm", "finished", "400", "500"}

ASSUME UrlsAssumption == \A u \in {v.url : v \in Visits} \cup LaterUrls : u.path \notin InnerScreens

VARIABLES
    browser,   \* agent, storage, the answer to fxa_status and the browser's account
    url,       \* of the page
    page,      \* how far the page is, and its parts
    disk,      \* what the pages of this browser have stored
    server     \* the e-mails that were sent, the codes that were issued, and the values of the profile

vars == <<browser, url, page, disk, server>>

None == [values |-> {}, seen |-> [c \in Clients |-> {}]]

(***************************************************************************)
(* What a page is for.                                                     *)
(***************************************************************************)
IsServiceSync(u) == u.service = "sync"

\* Any service that is not Sync is taken for an OAuth client.
IsServiceOAuth(u) == u.service \notin {"none", "sync"}

IsVerification(u) == u.link # "none" \/ u.path = "report_signin"

\* Where storage may not even be looked at, there is none; the model of who
\* verifies looks at it without a guard.
CanRead(b) == b.storage # "denied"

CanWrite(b) == b.storage = "works"

GetVerificationContext(u, stored) ==
    IF stored.context # "none" THEN stored.context
    ELSE IF IsServiceSync(u) THEN "fx_sync"
    ELSE IF IsServiceOAuth(u) THEN "oauth"
    ELSE "web"

GetContext(u, stored) == IF IsVerification(u) THEN GetVerificationContext(u, stored) ELSE u.context

IsDevicePairingAsAuthority(u) == u.redirect = "authority"

IsDevicePairingAsSupplicant(u) == u.path = "pair/supp"

IsOAuth(u, stored) ==
    \/ u.client # "none"
    \/ IsVerification(u) /\ u.service # "none" /\ u.service = stored.session.client
    \/ IsVerification(u) /\ IsServiceOAuth(u)
    \/ u.path \in {"oauth/signin", "oauth/success"}

\* The checks for OAuth come first, since a client might ask for Sync as well.
RelierKind(u, stored) ==
    IF IsDevicePairingAsAuthority(u) THEN "authority"
    ELSE IF IsDevicePairingAsSupplicant(u) THEN "supplicant"
    ELSE IF IsOAuth(u, stored) THEN "oauth"
    ELSE IF IsServiceSync(u) THEN "sync"
    ELSE "web"

\* A mutant: each OAuth relier is taken for one that redirects.
ChooseByAgent(u, agent) == IF agent = "chromeAndroid" THEN "oauth_chrome_android" ELSE "oauth"

ChooseOAuthBrokerContext(u, agent) ==
    IF IsDevicePairingAsAuthority(u) THEN "device_pairing_authority"
    ELSE IF IsDevicePairingAsSupplicant(u) THEN "device_pairing_supplicant"
    ELSE IF agent = "chromeAndroid" THEN "oauth_chrome_android"
    ELSE "oauth"

PairingContexts == {"device_pairing_authority", "device_pairing_supplicant"}

AsksForFirstRun(u, stored) == GetContext(u, stored) = "iframe" /\ IsServiceSync(u)

BrokerContext(u, stored, agent) ==
    LET context ==
            IF AsksForFirstRun(u, stored) THEN "fx_firstrun_v1"
            ELSE IF IsOAuth(u, stored) THEN ChooseOAuthBrokerContext(u, agent)
            ELSE GetContext(u, stored)
    IN  IF context \in PairingContexts THEN context ELSE Broker!Get(context)

(***************************************************************************)
(* The storage.  A page reads what others wrote when it is opened; what a  *)
(* page cannot write it keeps to itself.                                   *)
(***************************************************************************)
EmptyDisk == [user |-> "none", session |-> NoSession, context |-> "none", account |-> None]

Stored == IF CanRead(browser) THEN disk ELSE EmptyDisk

Write(stored) == disk' = IF CanWrite(browser) THEN stored ELSE disk

(***************************************************************************)
(* The errors, and the page of each.                                       *)
(***************************************************************************)
BadRequests == {"INVALID_PARAMETER", "MISSING_PARAMETER", "INCORRECT_REDIRECT", "INVALID_PAIRING_CLIENT", "UNKNOWN_CLIENT"}

GetErrorPage(error) == IF error \in BadRequests THEN "400" ELSE "500"

\* An error is reported and shown, however much of the page is there.
FatalError(error) ==
    /\ page' = [page EXCEPT !.phase = "failed", !.screen = GetErrorPage(error)]
    /\ UNCHANGED <<browser, url, disk, server>>

Goes(next) == page' = next /\ UNCHANGED <<browser, url, disk, server>>

NewPage ==
    [phase |-> "l10n", screen |-> "blank", relier |-> NewRelier("web"), context |-> "none",
     fxaStatus |-> FALSE, told |-> "none", user |-> "none", memory |-> FALSE, before |-> "none"]

\* The types; and a page is blank until it has started or failed.
TypeOK ==
    /\ page.phase \in {"l10n", "relier", "client", "broker", "status", "signinCode", "user", "ready", "started", "failed"}
    /\ (page.screen = "blank") = (page.phase \notin {"started", "failed"})
    /\ server.opened \in 1..MaxVisits
    /\ disk.session.client \in Clients \cup {"none"}

Init ==
    /\ \E v \in Visits : browser = v.browser /\ url = v.url
    /\ page = NewPage
    /\ disk \in [user : {"none", "b"}, session : {NoSession}, context : {"none"}, account : {None}]
    /\ disk.user # "none" => CanWrite(browser)
    /\ \E account \in {"none", "verified"} :
        /\ disk.user # "none" => account = "verified"
        /\ server = [opened |-> 1, account |-> account, mailed |-> {}, granted |-> {}, values |-> {"profile:uid", "profile:email"},
                     asked |-> [c \in Clients |-> IF c = url.client THEN url.scope ELSE {}]]

(***************************************************************************)
(* initializeDeps.                                                         *)
(***************************************************************************)
InitializeL10n ==
    /\ page.phase = "l10n"
    /\ \/ Goes([page EXCEPT !.phase = "relier"])
       \/ FatalError("no texts")

\* The relier is made of the URL; an OAuth relier then asks for its client.
InitializeRelier ==
    /\ page.phase = "relier"
    /\ IF IsVerification(url) /\ ~CanRead(browser) THEN FatalError("SecurityError")
       ELSE \E r \in {Fetch(RelierKind(url, Stored), url, Stored.session, IsVerification(url))} :
              IF r.error # "none" THEN FatalError(r.error)
              ELSE Goes([page EXCEPT !.relier = r, !.phase = IF IsOAuthRelier(r) THEN "client" ELSE "broker"])

ClientInfo ==
    /\ page.phase = "client"
    /\ \/ \E r \in {FetchAnswered(page.relier)} :
             IF r.error # "none" THEN FatalError(r.error)
             ELSE Goes([page EXCEPT !.relier = r, !.phase = "broker"])
       \/ FatalError("UNEXPECTED_ERROR")

\* The broker of the phone refuses clients that may not pair; that of the desktop
\* asks the browser who the phone is.
InitializeAuthenticationBroker ==
    /\ page.phase = "broker"
    /\ \E context \in {BrokerContext(url, Stored, browser.agent)} :
         IF context = "device_pairing_supplicant" /\ page.relier.client \notin PairingClients
         THEN FatalError("INVALID_PAIRING_CLIENT")
         ELSE Goes([page EXCEPT !.context = context, !.fxaStatus = browser.agent = "desktop",
                                !.phase = IF browser.agent = "desktop" THEN "status" ELSE "signinCode"])

\* A mutant: what waits for a channel that does not exist is never told.
StatusAnswers == {"answers", "fails"}

\* The browser answers, or says that it has no such channel.
StatusSettles == {"answers", "noChannel", "fails"}

FetchFxaStatus ==
    /\ page.phase = "status"
    /\ browser.status \in StatusSettles
    /\ CASE browser.status = "answers"   -> Goes([page EXCEPT !.told = browser.account, !.phase = "signinCode"])
         [] browser.status = "noChannel" -> Goes([page EXCEPT !.fxaStatus = FALSE, !.phase = "signinCode"])
         [] browser.status = "fails"     -> FatalError("UNEXPECTED_ERROR")

\* Whatever becomes of the code of a text message, the start goes on; the desktop
\* has yet to learn who the phone is.
ConsumeSigninCode ==
    /\ page.phase = "signinCode"
    /\ \/ Goes([page EXCEPT !.phase = "user"])
       \/ page.context = "device_pairing_authority" /\ FatalError("UNEXPECTED_ERROR")

\* A mutant: no page of such a browser looks at what is stored.
UseMemoryForFxaStatus(p) == p.fxaStatus

\* The user of Sync comes from the browser, if the browser can tell.
ShouldUseMemoryStorage(p) == p.fxaStatus /\ IsSyncRelier(p.relier)

ShouldSetSignedInAccountFromBrowser(p, signedIn) == p.relier.service = "sync" \/ signedIn = "none"

InitializeUser ==
    /\ page.phase = "user"
    /\ \E memory \in {ShouldUseMemoryStorage(page) \/ ~CanWrite(browser)} :
       \E signedIn \in {IF memory THEN "none" ELSE disk.user} :
       \E user \in {IF ShouldSetSignedInAccountFromBrowser(page, signedIn) /\ page.told # "none" THEN page.told ELSE signedIn} :
         /\ page' = [page EXCEPT !.phase = "ready", !.memory = memory, !.user = user, !.before = disk.user]
         /\ disk' = IF memory THEN disk ELSE [disk EXCEPT !.user = user]
    /\ UNCHANGED <<browser, url, server>>

IsVerificationInMobileSafari == url.path = "verify_email" /\ browser.agent = "mobileSafari"

SelectStartPage ==
    IF url.path # "cookies_disabled" /\ ~CanWrite(browser) /\ ~IsVerificationInMobileSafari THEN "cookies_disabled"
    ELSE IF IsDevicePairingAsAuthority(url) THEN "pair/auth/allow"
    ELSE url.path

\* An error of the storage is reported, and the first screen is shown.
AllResourcesReady ==
    /\ page.phase = "ready"
    /\ Goes([page EXCEPT !.phase = "started", !.screen = SelectStartPage])

(***************************************************************************)
(* Signing in or up for an OAuth client, and the permissions.              *)
(***************************************************************************)
\* The account of the page is the one of the storage, with what signing in tells.
SignedInAccount == [disk.account EXCEPT !.values = @ \cup {"profile:uid", "profile:email"}]

\* The code is made for the scope of the relier, with keys if it wants them.
Granted(relier, account) ==
    [client |-> relier.client, scope |-> relier.scope, keys |-> relier.keys,
     unseen |-> IF relier.trusted /\ ~relier.consent THEN {}
                ELSE WithValues(relier.scope, account) \ account.seen[relier.client]]

\* finishOAuthSignInFlow, with what the server knows by then.
FinishSignIn(known, account) ==
    /\ page' = [page EXCEPT !.screen = "finished"]
    /\ server' = [known EXCEPT !.granted = @ \cup {Granted(page.relier, account)}]
    /\ Write([disk EXCEPT !.user = "b", !.account = account, !.session = NoSession])
    /\ UNCHANGED <<browser, url>>

\* The client and its scope go to the session together (oauth-redirect.js:271).
PersistOAuth(relier) == [client |-> relier.client, scope |-> relier.scope]

\* The context an OAuth relier is made with; an OAuth page need not name one.
RelierContext(u, stored) ==
    IF GetContext(u, stored) = "none" THEN "oauth" ELSE GetContext(u, stored)

\* persistVerificationData: what the tab of the link will need is stored.
WaitForEmail(known, account) ==
    /\ page' = [page EXCEPT !.screen = "confirm"]
    /\ server' = [known EXCEPT !.mailed = @ \cup {page.relier.client}]
    /\ Write([disk EXCEPT !.user = "b", !.account = account, !.context = RelierContext(url, Stored),
                          !.session = PersistOAuth(page.relier)])
    /\ UNCHANGED <<browser, url>>

\* Whoever is verified may be asked to confirm the sign-in as well.
GoOn(known, account) ==
    \/ known.account = "verified" /\ FinishSignIn(known, account)
    \/ WaitForEmail(known, account)

SignInOrUp ==
    /\ page.screen = "oauth/signin"
    /\ page.relier.kind = "oauth"
    /\ \E known \in {[server EXCEPT !.account = IF @ = "none" THEN "unverified" ELSE @]} :
         IF AccountNeedsPermissions(page.relier, SignedInAccount)
         THEN /\ page' = [page EXCEPT !.screen = "permissions"]
              /\ server' = known
              /\ UNCHANGED <<browser, url, disk>>
         ELSE GoOn(known, SignedInAccount)

\* The profile of a verified account is fetched before its values are shown;
\* each one that is shown is one the user has seen.
AcceptPermissions ==
    /\ page.screen = "permissions"
    /\ \E account \in {[SignedInAccount EXCEPT !.values = IF server.account = "verified" THEN server.values ELSE @]} :
         GoOn(server, SetClientPermissions(account, page.relier.client, WithValues(page.relier.permissions, account)))

\* A link finishes the flow the session knows of, in the tab that asked for it.
CompleteLink ==
    /\ page.screen = "verify_email" /\ url.link # "none"
    /\ page.relier.kind = "oauth"
    /\ page' = [page EXCEPT !.screen = "finished"]
    /\ server' = [server EXCEPT !.account = "verified",
                                !.granted = IF page.relier.scope = {} THEN @
                                            ELSE @ \cup {Granted(page.relier, Stored.account)}]
    /\ Write([disk EXCEPT !.session = NoSession, !.context = "none"])
    /\ UNCHANGED <<browser, url>>

\* In the settings of this browser, which ask for a session that is confirmed, the
\* user gets a name.
SetDisplayName ==
    /\ page.phase = "started"
    /\ page.user = "b" /\ ~page.memory
    /\ page.screen = "settings"
    /\ server.account = "verified" /\ disk.session = NoSession
    /\ server' = [server EXCEPT !.values = @ \cup {"profile:display_name"}]
    /\ Write([disk EXCEPT !.account.values = @ \cup {"profile:display_name"}])
    /\ UNCHANGED <<browser, url, page>>

\* The link of an e-mail names the client as its service.
LinkOf(client) ==
    [path |-> "verify_email", client |-> "none", redirect |-> "none", scope |-> {}, keys |-> FALSE, consent |-> FALSE,
     service |-> client, context |-> "none", link |-> "signup", channel |-> FALSE, valid |-> TRUE, signin |-> FALSE]

NextVisit ==
    /\ page.phase \in {"started", "failed"}
    /\ server.opened < MaxVisits
    /\ \E u \in LaterUrls \cup {LinkOf(c) : c \in server.mailed} :
         /\ url' = u
         /\ server' = [server EXCEPT !.opened = @ + 1,
                                     !.asked = [c \in Clients |-> IF c = u.client THEN @[c] \cup u.scope ELSE @[c]]]
    /\ page' = NewPage
    /\ UNCHANGED <<browser, disk>>

StartStep ==
    \/ InitializeL10n
    \/ InitializeRelier
    \/ ClientInfo
    \/ InitializeAuthenticationBroker
    \/ FetchFxaStatus
    \/ ConsumeSigninCode
    \/ InitializeUser
    \/ AllResourcesReady

Next ==
    \/ StartStep
    \/ SignInOrUp
    \/ AcceptPermissions
    \/ CompleteLink
    \/ SetDisplayName
    \/ NextVisit

Spec == Init /\ [][Next]_vars /\ WF_vars(StartStep)

(***************************************************************************)
(* Properties.                                                             *)
(***************************************************************************)
\* The relier and the broker are chosen by two rows of conditions in different orders
\* (app-start.js:251, 317), some of them read of what earlier pages stored.  An OAuth
\* relier has the broker of its kind, whatever else its URL says, service=sync too, with
\* one exception: where the context is iframe and the service sync, it has the broker of
\* the first run of Sync (app-start.js:320), though the order of the checks of reliers is
\* there to keep an OAuth relier from "the Sync UI" (app-start.js:256).  Once the page
\* waits for an e-mail or is finished, what is stored is no longer what it was made of.
RelierHasItsBroker ==
    page.phase = "started" /\ page.screen \notin {"confirm", "finished"} /\ IsOAuthRelier(page.relier) =>
        IF AsksForFirstRun(url, Stored) THEN page.context = "fx_firstrun_v1"
        ELSE CASE page.relier.kind = "authority"  -> page.context = "device_pairing_authority"
               [] page.relier.kind = "supplicant" -> page.context = "device_pairing_supplicant"
               [] page.relier.kind = "oauth"      -> page.context \in {"oauth", "oauth_chrome_android"}

\* The user of Sync is the browser's, and of other services the one that is stored,
\* else the browser's; a page of Sync leaves the stored one alone (app-start.js:629,
\* user.js:720).
UserIsTheRightOne ==
    page.phase = "started" /\ page.screen = url.path =>
        /\ IsSyncRelier(page.relier) /\ page.fxaStatus => page.user = page.told /\ page.before = disk.user
        /\ ~IsSyncRelier(page.relier) /\ page.before # "none" /\ CanWrite(browser) => page.user = page.before

\* The parts of a page fit each other and what the browser has stored.
StartIsConsistent == TypeOK /\ RelierHasItsBroker /\ UserIsTheRightOne

\* However often the user comes back, by URLs and by links, a client that is not
\* trusted is limited, none gets a scope another one asked for, keys go where the
\* configuration says, and the user has seen what goes (oauth.js:116, 297, 337).
GrantsAreAllowed ==
    \A g \in server.granted :
        /\ g.client \notin Trusted => g.scope \subseteq UntrustedAllowed
        /\ g.scope \subseteq server.asked[g.client] \cup ReplaceProfile(server.asked[g.client])
        /\ g.keys => \E s \in g.scope \cap DOMAIN ScopedKeysValidation : g.client \in ScopedKeysValidation[s]
        /\ g.unseen = {}

\* A page shows a screen or an error, whichever of its parts fails; only a browser
\* that says it has the channel and never answers leaves it blank (base.js:170).
StartEnds == page.screen = "blank" ~> page.screen # "blank" \/ (page.phase = "status" /\ browser.status = "silent")
=============================================================================
