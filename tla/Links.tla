-------------------------------- MODULE Links --------------------------------
(***************************************************************************)
(* The links of e-mails: to verify an account, a sign in or an address     *)
(* (views/complete_sign_up), to report a sign in (views/report_sign_in),   *)
(* and the screens that follow: connect another device, the text message   *)
(* with a link to install Firefox, and the screens that say a step is over.*)
(*                                                                         *)
(* A link is opened in another tab, in place of the tab that asked for it, *)
(* or in another browser.  Meanwhile the tab that asked polls, and other   *)
(* tabs sign in and out.  The account a screen holds was read from the     *)
(* storage when it was opened; `account' is what the storage has now.      *)
(***************************************************************************)
EXTENDS Brokers, FiniteSets

CONSTANTS
    LinkScenarios, \* the set-ups the run explores
    Numbers,       \* the telephone numbers that are typed
    MaxResends     \* bound: e-mails and messages sent again

ASSUME ResendsAssumption == MaxResends \in Nat \ {0}

ASSUME NumbersAssumption ==
    Numbers \subseteq [plus : BOOLEAN, lead : {"zero", "code", "seven", "other"}, digits : Nat]

ASSUME LinkScenariosAssumption ==
    \A s \in LinkScenarios :
        /\ s.type \in {"signup", "login", "primary_email", "secondary_email", "report"}
        /\ s.signedIn \in {"own", "another", "none"}
        /\ s.context \in Contexts \cup {"none"}

VARIABLES
    link,     \* what the run is about
    linkTab,  \* the tab of the link
    stored,   \* what the storage has of the account and of who is signed in
    auth,     \* what the auth server knows
    others    \* the tab that asked, and what the other tabs were told

linkVars == <<link, linkTab, stored, auth, others>>

(***************************************************************************)
(* verification-reason-mixin: what the link is for.                        *)
(***************************************************************************)
IsSignUp == link.type = "signup"

IsSignIn == link.type = "login"

IsPrimaryEmail == link.type = "primary_email"

IsSecondaryEmail == link.type = "secondary_email"

\* The screens that say a step is over, and the reason each is shown for.
ReadyReason ==
    [signup_verified |-> "signup", signin_verified |-> "login", primary_email_verified |-> "primary_email",
     secondary_email_verified |-> "secondary_email"]

(***************************************************************************)
(* The device.                                                             *)
(***************************************************************************)
IsAndroid == link.device \in {"fx_android", "other_android"}

IsIos == link.device \in {"fx_ios", "other_ios"}

IsFirefoxMobile == link.device \in {"fx_ios", "fx_android"}

\* Firefox that knows Sync over a WebChannel.
IsSyncAuthSupported == link.device \in {"fx_desktop", "fx_android"} /\ link.browser.modern

GetSyncContext ==
    CASE link.device = "fx_android" -> "fx_fennec_v1"
      [] link.device = "fx_desktop" -> "fx_desktop_v3"
      [] OTHER                       -> "none"

(***************************************************************************)
(* Who is signed in: the account of the link, another one, or none.        *)
(***************************************************************************)
IsSignedInAccount == stored.signedIn = "own"

IsAnotherAccountSignedIn == stored.signedIn = "another"

Who == [signedIn |-> stored.signedIn = "another" \/ (stored.signedIn = "own" /\ stored.session = auth.session),
        another |-> IsAnotherAccountSignedIn, redirectTo |-> "none"]

(***************************************************************************)
(* The resume token of the link: the opt-in to the newsletter is what the  *)
(* account takes from it, all of it or, when it is damaged, nothing.       *)
(***************************************************************************)
ResumeFields ==
    [account |-> {"email", "needsOptedInToMarketingEmail"},
     relier  |-> {"entrypoint", "resetPasswordConfirm", "utm"},
     user    |-> {"uniqueUserId"},
     flow    |-> {"deviceId", "flowBegin", "flowId"}]

\* The token the tab that asked put in the link.
GetResumeToken == UNION {ResumeFields[who] : who \in DOMAIN ResumeFields}

\* What of it was given a value: the opt-in is only there when it was given.
Parse(token) ==
    IF token \in {"opt-in", "invalid"} THEN GetResumeToken
    ELSE IF token = "plain" THEN GetResumeToken \ {"needsOptedInToMarketingEmail"} ELSE {}

\* A part that is not of its type spoils the token for whoever reads it.
PopulateFromStringifiedResumeToken(who, token) ==
    IF token = "invalid" THEN {} ELSE Parse(token) \cap ResumeFields[who]

OptsIn == "needsOptedInToMarketingEmail" \in linkTab.known

(***************************************************************************)
(* The persisted context of the tab that asked (verificationInfo).         *)
(***************************************************************************)
SameBrowser == link.where # "there" /\ stored.context # "none"

VerificationContext ==
    IF link.service = "rp" THEN "oauth"
    ELSE IF SameBrowser THEN stored.context
    ELSE IF link.service = "sync" THEN "fx_sync" ELSE "web"

Clear(a) == [a EXCEPT !.context = "none"]

IsOriginalTab == linkTab.original

(***************************************************************************)
(* Screens.                                                                *)
(***************************************************************************)
NoNumber == [plus |-> FALSE, lead |-> "none", digits |-> 0]

LinkInit ==
    /\ link \in LinkScenarios
    /\ linkTab = [page |-> IF link.where = "replaces" THEN "confirm" ELSE "none", step |-> "ready",
                  broker |-> NewBroker("web", link.browser), same |-> FALSE, session |-> 0, known |-> {},
                  original |-> link.where = "replaces", stores |-> FALSE, mark |-> "none", opens |-> 0,
                  canSignIn |-> FALSE, method |-> <<>>, buttons |-> {}, country |-> "none", agreed |-> "none",
                  number |-> NoNumber, resends |-> 0]
    /\ stored = [session |-> IF link.session THEN 1 ELSE 0,
                 signedIn |-> link.signedIn,
                 context |-> link.context]
    /\ auth = [verified |-> FALSE, session |-> IF link.session THEN 1 ELSE 0, sent |-> {},
               subscribed |-> FALSE, reported |-> FALSE]
    /\ others = [asking |-> IF link.where = "other" /\ link.type \in {"signup", "login"} THEN "polls" ELSE "gone",
                 told |-> 0, relier |-> 0, failed |-> FALSE]

Marks == {"none", "damaged", "expired", "used", "error"}

LinkScreens == {"none", "confirm", "complete_signup", "report_signin", "signin_reported", "connect_another_device",
                "why_connect_another_device", "sms", "sms_sent", "signup", "signin", "settings", "halted"}
               \cup DOMAIN ReadyReason

LinkTypeOK ==
    /\ linkTab.page \in LinkScreens /\ linkTab.step \in {"ready", "request", "country", "sending"}
    /\ linkTab.mark \in Marks /\ linkTab.same \in BOOLEAN /\ linkTab.session \in 0..1
    /\ linkTab.known \subseteq ResumeFields.account
    /\ linkTab.resends \in 0..MaxResends /\ linkTab.opens \in 0..2
    /\ linkTab.original \in BOOLEAN /\ linkTab.stores \in BOOLEAN
    /\ linkTab.canSignIn \in BOOLEAN /\ linkTab.buttons \subseteq {"ios", "android"}
    /\ stored.session \in 0..1 /\ stored.signedIn \in {"own", "another", "none"}
    /\ stored.context \in Contexts \cup {"none"}
    /\ auth.verified \in BOOLEAN /\ auth.session \in 0..1 /\ auth.subscribed \in BOOLEAN
    /\ others.asking \in {"polls", "gone", "done"} /\ others.told \in 0..2 /\ others.relier \in 0..2 /\ others.failed \in BOOLEAN

ShowScreen(t, page) == [t EXCEPT !.page = page, !.step = "ready", !.canSignIn = FALSE, !.buttons = {}, !.method = <<>>]

GoTo(page) == linkTab' = ShowScreen(linkTab, page)

Unchanged == UNCHANGED <<link, stored, auth, others>>

(***************************************************************************)
(* verification/base: a link that lacks a field, or has a bad one, and one *)
(* the server refuses.                                                     *)
(***************************************************************************)
IsValid == link.valid /\ linkTab.mark # "damaged"

Mark(mark) == linkTab' = [ShowScreen(linkTab, "complete_signup") EXCEPT !.mark = mark]

\* initialize and beforeRender of the link's screen, with the broker and the
\* account of the moment.  A link that is opened again has a new tab.
OpenEmailLink ==
    /\ \/ linkTab.page \in {"none", "confirm"} /\ linkTab.opens = 0
       \/ linkTab.step = "ready" /\ linkTab.opens = 1
    /\ link.type # "report"
    /\ LET opened == [ShowScreen(linkTab, "complete_signup") EXCEPT
                          !.broker = NewBroker(VerificationContext, link.browser),
                          !.same = SameBrowser, !.opens = @ + 1, !.original = @ /\ linkTab.page = "confirm",
                          !.session = IF link.where = "there" THEN 0 ELSE stored.session,
                          !.stores = FALSE, !.mark = "none", !.country = "none", !.agreed = "none",
                          !.number = NoNumber, !.resends = 0]
       IN  linkTab' = IF link.valid
                      THEN [opened EXCEPT !.step = "request",
                                          !.known = PopulateFromStringifiedResumeToken("account", link.resume)]
                      ELSE [opened EXCEPT !.mark = "damaged"]
    /\ Unchanged

(***************************************************************************)
(* The answer of the server (verifySignUp, completeAccountSignUp).  The    *)
(* other tabs are told when this browser has a session of the account,     *)
(* also when only the newsletter failed.                                   *)
(***************************************************************************)
VerifySignUp == auth' = [auth EXCEPT !.verified = TRUE, !.subscribed = @ \/ OptsIn]

MarketingFails == OptsIn /\ auth' = [auth EXCEPT !.verified = TRUE]

\* Mutant: an error of the newsletter ends the handler before the others are told.
NotifyUnlessMarketingFails(o) ==
    IF linkTab.session # 0 /\ (OptsIn => auth'.subscribed) THEN [o EXCEPT !.told = @ + 1] ELSE o

CompleteAccountSignUp(o) == IF linkTab.session # 0 THEN [o EXCEPT !.told = @ + 1] ELSE o

(***************************************************************************)
(* The buttons of the stores, under the screens that end a flow.  They are *)
(* forced on a Firefox of a phone, and need the Sync service elsewhere.    *)
(***************************************************************************)
ShouldShowSignUpMarketing(forced) ==
    forced \/ (HasCapability(linkTab.broker, "emailVerificationMarketingSnippet") /\ (IsSignUp \/ IsSignIn)
               /\ link.service = "sync" /\ ~IsFirefoxMobile)

StoreButtons(forced) ==
    IF ~ShouldShowSignUpMarketing(forced) THEN {}
    ELSE IF ~forced /\ IsIos THEN {"ios"}
    ELSE IF ~forced /\ IsAndroid THEN {"android"}
    ELSE {"ios", "android"}

\* Only the screen of devices forces them.
CreateMarketingSnippet(page, forced) ==
    IF page \in {"connect_another_device", "sms", "sms_sent"} \cup DOMAIN ReadyReason THEN StoreButtons(forced) ELSE {}

(***************************************************************************)
(* The methods of the brokers: the persisted context is forgotten, and in  *)
(* the original tab of a sign up the user goes back to the relying party.  *)
(***************************************************************************)
BrokerMethod ==
    CASE IsPrimaryEmail   -> "afterCompletePrimaryEmail"
      [] IsSecondaryEmail -> "afterCompleteSecondaryEmail"
      [] IsSignIn         -> "afterCompleteSignIn"
      [] IsSignUp         -> "afterCompleteSignUp"

\* Mutant: whichever tab the link is in.
FinishesAnywhere == linkTab.broker.context \in OAuthContexts /\ IsSignUp

FinishesOAuthFlow == linkTab.broker.context \in OAuthContexts /\ IsSignUp /\ IsOriginalTab

\* A code is only given out for a session, and the servers may refuse it.
GetOAuthResult == IF linkTab.session # 0 THEN BOOLEAN ELSE {FALSE}

\* The user goes back with the code; an error is the end of the flow.
FinishOAuthSignUpFlow(o, ok) == IF ok THEN [o EXCEPT !.relier = @ + 1] ELSE [o EXCEPT !.failed = TRUE]

AfterComplete(method) == <<Clear(stored), GetBehavior(linkTab.broker, method)>>

\* setAccount is not waited for: the account is stored when it was looked at.
NotifyBrokerAndComplete ==
    /\ stored' = AfterComplete(BrokerMethod)[1]
    /\ IF FinishesOAuthFlow
           THEN \E ok \in GetOAuthResult :
                   /\ linkTab' = [ShowScreen(linkTab, IF ok THEN "halted" ELSE "complete_signup") EXCEPT
                                      !.stores = TRUE, !.original = FALSE, !.mark = IF ok THEN @ ELSE "error"]
                   /\ others' = FinishOAuthSignUpFlow(CompleteAccountSignUp(others), ok)
           ELSE /\ \E page \in {Destination(AfterComplete(BrokerMethod)[2], linkTab.broker.caps, Who,
                                         "complete_signup")} :
                      linkTab' = [ShowScreen(linkTab, page) EXCEPT
                                  !.step = IF page = "connect_another_device" THEN "country" ELSE "ready",
                                  !.stores = TRUE,
                                  !.buttons = CreateMarketingSnippet(page, FALSE)]
                /\ others' = CompleteAccountSignUp(others)
    /\ UNCHANGED link

Verified ==
    /\ linkTab.page = "complete_signup" /\ linkTab.step = "request"
    /\ VerifySignUp \/ MarketingFails
    /\ NotifyBrokerAndComplete

\* fetch asks whether a session that is not known to be verified is alive; the
\* account of the screen replaces the stored one.
AccountFetched ==
    /\ linkTab.stores
    /\ linkTab' = [linkTab EXCEPT !.stores = FALSE]
    /\ stored' = [stored EXCEPT !.session =
                      IF link.where = "there" THEN @
                      ELSE IF linkTab.session = auth.session \/ IsPrimaryEmail \/ IsSecondaryEmail
                           THEN linkTab.session ELSE 0]
    /\ UNCHANGED <<link, auth, others>>

(***************************************************************************)
(* The errors of the server.  UNKNOWN_ACCOUNT: it was deleted as it was    *)
(* never verified; a code that is not known was used, or is no code.       *)
(***************************************************************************)
\* Mutant: an error that is not one of these is only logged.
KnownVerificationErrors ==
    {"expired", "none"} \cup {IF IsPrimaryEmail \/ IsSignIn THEN "used" ELSE "damaged"}

VerificationErrors ==
    {"expired", "error"} \cup {IF IsPrimaryEmail \/ IsSignIn THEN "used" ELSE "damaged"}

VerificationFails ==
    /\ linkTab.page = "complete_signup" /\ linkTab.step = "request"
    /\ \E mark \in VerificationErrors : Mark(mark)
    /\ Unchanged

CanResend == stored.session # 0 /\ IsSignUp

ResendEmail ==
    /\ linkTab.page = "complete_signup" /\ linkTab.mark # "none" /\ CanResend /\ linkTab.resends < MaxResends
    /\ \/ /\ stored.session = auth.session
          /\ linkTab' = [linkTab EXCEPT !.resends = @ + 1]
       \/ /\ stored.session # auth.session   \* INVALID_TOKEN
          /\ GoTo("signup")
    /\ Unchanged

(***************************************************************************)
(* Report of a sign in.                                                    *)
(***************************************************************************)
OpenReport ==
    /\ linkTab.page = "none" /\ link.type = "report"
    /\ linkTab' = [ShowScreen(linkTab, "report_signin") EXCEPT !.mark = IF link.valid THEN "none" ELSE "damaged"]
    /\ Unchanged

RejectUnblockCode ==
    /\ linkTab.page = "report_signin" /\ linkTab.mark = "none"
    /\ GoTo("signin_reported")
    /\ auth' = [auth EXCEPT !.reported = TRUE]
    /\ UNCHANGED <<link, stored, others>>

(***************************************************************************)
(* Connect another device.  While its screen is made, the server is asked  *)
(* whether it sends text messages to the country of the user.              *)
(***************************************************************************)
AreSmsRequirementsMet ==
    ~IsAndroid /\ ~IsIos /\ linkTab.session # 0 /\ ~IsAnotherAccountSignedIn

\* The relier of Sync may name the country, and only one of the table.
AllowedCountries == {"AT", "AU", "BE", "CA", "DE", "DK", "ES", "FR", "GB", "IT", "LU", "NL", "PT", "RO", "US"}

Replies ==
    IF link.country \in AllowedCountries THEN {link.country, "no"} ELSE {"RO", "AU", "DE", "LU", "ZZ", "none", "no"}

SmsCountry(reply) == IF reply = "none" THEN "US" ELSE reply

RolloutRate(country) == IF country = "LU" THEN 0 ELSE 1

\* The rule of the experiment: no country outside the table, all of a country
\* that is rolled out, and else the e-mails of testers.
Choose(country) ==
    IF country \notin AllowedCountries THEN "none"
    ELSE IF link.tester THEN "signinCodes"
    ELSE IF RolloutRate(country) >= 1 THEN "all"
    ELSE "none"

\* Mutant: the group is not looked at.
GetAnySmsCountry(reply) == IF reply \in {"error", "no"} THEN "none" ELSE SmsCountry(reply)

GetEligibleSmsCountry(reply) ==
    IF reply \in {"error", "no"} \/ Choose(SmsCountry(reply)) = "none" THEN "none" ELSE SmsCountry(reply)

IsSignedIn == IsSignedInAccount \/ linkTab.same

CanSignIn == ~IsSignedIn /\ IsSyncAuthSupported

\* What is counted of the user's device (the flow events of the screen).
ConnectMethod ==
    IF CanSignIn THEN <<"signin_from", link.device>>
    ELSE IF link.device = "fx_ios" THEN <<"signin_from", "fx_ios">>
    ELSE <<"install_from", link.device>>

MarketingWhich == (IsSignedIn /\ link.device = "fx_android") \/ link.device = "fx_ios"

ShowDevices(t) ==
    [ShowScreen(t, "connect_another_device") EXCEPT
        !.canSignIn = CanSignIn, !.method = ConnectMethod,
        !.buttons = IF CanSignIn THEN {} ELSE CreateMarketingSnippet("connect_another_device", MarketingWhich)]

\* The screens of the text message are for a user who is signed in.
ShowSms(page, country) ==
    IF Who.signedIn
        THEN [ShowScreen(linkTab, page) EXCEPT !.country = country,
                                               !.buttons = CreateMarketingSnippet(page, FALSE)]
        ELSE ShowScreen(linkTab, "signin")

\* beforeRender: the screen of the text message takes the place of this one.
SmsStatusAnswered ==
    /\ linkTab.page = "connect_another_device" /\ linkTab.step = "country" /\ AreSmsRequirementsMet
    /\ \E reply \in Replies \cup {"error"} : \E country \in {GetEligibleSmsCountry(reply)} :
          linkTab' = IF country = "none" THEN ShowDevices(linkTab)
                     ELSE [ShowSms("sms", country) EXCEPT !.agreed = SmsCountry(reply)]
    /\ Unchanged

NotEligibleForSms ==
    /\ linkTab.page = "connect_another_device" /\ linkTab.step = "country" /\ ~AreSmsRequirementsMet
    /\ linkTab' = ShowDevices(linkTab)
    /\ Unchanged

\* The button to sign in takes the user to Sync, with a context of its own.
SignInToSync ==
    /\ linkTab.page = "connect_another_device" /\ linkTab.canSignIn
    /\ linkTab' = [ShowScreen(linkTab, "signin") EXCEPT !.broker = NewBroker(GetSyncContext, link.browser)]
    /\ Unchanged

\* A panel over the screen says why; closed, it gives the screen back.
WhyAndBack ==
    /\ \/ linkTab.page = "connect_another_device" /\ linkTab.step = "ready"
          /\ linkTab' = [linkTab EXCEPT !.page = "why_connect_another_device"]
       \/ linkTab.page = "why_connect_another_device"
          /\ linkTab' = [linkTab EXCEPT !.page = "connect_another_device"]
    /\ Unchanged

(***************************************************************************)
(* Telephone numbers: whether one has the prefix of the country, how it    *)
(* goes on (a trunk 0, the digits of the country code without a plus, a    *)
(* 7), and the digits after the prefix.  A pattern says which lengths are  *)
(* accepted.                                                               *)
(***************************************************************************)
Lengths(country) ==
    CASE country = "AT"                -> [plus |-> 6..15, bare |-> 6..15]
      [] country \in {"AU", "BE", "FR"} -> [plus |-> {9}, bare |-> {10}]
      [] country = "DE"                -> [plus |-> 6..13, bare |-> 6..13]
      [] country = "DK"                -> [plus |-> {8}, bare |-> {8}]
      [] country \in {"ES", "LU", "PT"} -> [plus |-> {9}, bare |-> {9}]
      [] country = "GB"                -> [plus |-> {10}, bare |-> {11}]
      [] country = "IT"                -> [plus |-> 9..10, bare |-> 9..10]
      [] country = "NL"                -> [plus |-> 4..15, bare |-> 4..15]
      [] OTHER                         -> [plus |-> {}, bare |-> {}]

AcceptsRomania(num) == (num.lead = "seven" /\ num.digits = 9) \/ (num.lead = "zero" /\ num.digits = 10)

AcceptsUS(num) == (num.lead = "other" /\ num.digits = 10) \/ (num.lead = "code" /\ num.digits = 11 /\ ~num.plus)

Accepts(country, num) ==
    IF country = "RO" THEN AcceptsRomania(num)
    ELSE IF country \in {"US", "CA"} THEN AcceptsUS(num)
    ELSE IF num.plus THEN num.digits \in Lengths(country).plus
    ELSE num.digits \in Lengths(country).bare

EnsurePrefix(num) == [num EXCEPT !.plus = TRUE]

\* What comes after the 0 of a Romanian number, and the code of an American one.
WithoutLead(num, next) == [num EXCEPT !.digits = @ - 1, !.lead = next]

NormalizeRomania(num) == EnsurePrefix(IF num.lead = "zero" THEN WithoutLead(num, "seven") ELSE num)

NormalizeUS(num) ==
    EnsurePrefix(IF ~num.plus /\ num.lead = "code" /\ num.digits = 11 THEN WithoutLead(num, "other") ELSE num)

Normalize(country, num) ==
    CASE country = "RO"           -> NormalizeRomania(num)
      [] country \in {"US", "CA"} -> NormalizeUS(num)
      [] OTHER                    -> EnsurePrefix(num)

(***************************************************************************)
(* The text message.                                                       *)
(***************************************************************************)
\* The country of the relier comes first.
GetCountry ==
    IF link.country # "none" THEN link.country ELSE IF linkTab.country # "none" THEN linkTab.country ELSE "US"

SubmitNumber ==
    /\ linkTab.page = "sms" /\ linkTab.step = "ready"
    /\ \E num \in Numbers :
          /\ Accepts(GetCountry, num)
          /\ linkTab' = [linkTab EXCEPT !.step = "sending", !.number = Normalize(GetCountry, num)]
    /\ Unchanged

\* The message sent last.
Message == {[country |-> GetCountry, agreed |-> linkTab.agreed, number |-> linkTab.number]}

\* An answer: sent, a number the server refuses (shown at its field), an error.
SmsAnswered ==
    /\ linkTab.page = "sms" /\ linkTab.step = "sending"
    /\ \/ /\ linkTab.session = auth.session
          /\ linkTab' = ShowSms("sms_sent", GetCountry)
          /\ auth' = [auth EXCEPT !.sent = Message]
       \/ /\ linkTab' = [linkTab EXCEPT !.step = "ready", !.number = NoNumber]
          /\ UNCHANGED auth
    /\ UNCHANGED <<link, stored, others>>

ResendSms ==
    /\ linkTab.page = "sms_sent" /\ linkTab.resends < MaxResends /\ linkTab.session = auth.session
    /\ linkTab' = [linkTab EXCEPT !.resends = @ + 1]
    /\ auth' = [auth EXCEPT !.sent = Message]
    /\ UNCHANGED <<link, stored, others>>

BackToSms ==
    /\ linkTab.page = "sms_sent"
    /\ linkTab' = [ShowSms("sms", linkTab.country) EXCEPT !.number = NoNumber]
    /\ Unchanged

(***************************************************************************)
(* The other tabs: the one that asked finds the account verified and, in   *)
(* an OAuth flow, goes back to the relying party; the user signs in with   *)
(* another account, or out.                                                *)
(***************************************************************************)
AskingTabPolls ==
    /\ others.asking = "polls" /\ auth.verified
    /\ \E ok \in BOOLEAN :
          others' = IF link.service = "rp" THEN FinishOAuthSignUpFlow([others EXCEPT !.asking = "done"], ok)
                    ELSE [others EXCEPT !.asking = "done"]
    /\ UNCHANGED <<link, linkTab, stored, auth>>

SignOut ==
    /\ link.moves /\ stored.session # 0
    /\ stored' = [stored EXCEPT !.session = 0, !.signedIn = "none"]
    /\ auth' = [auth EXCEPT !.session = 0]
    /\ UNCHANGED <<link, linkTab, others>>

AnotherSignsIn ==
    /\ link.moves /\ stored.signedIn # "another"
    /\ stored' = [stored EXCEPT !.signedIn = "another"]
    /\ UNCHANGED <<link, linkTab, auth, others>>

LinkNext ==
    \/ OpenEmailLink \/ Verified \/ AccountFetched \/ VerificationFails \/ ResendEmail
    \/ OpenReport \/ RejectUnblockCode
    \/ SmsStatusAnswered \/ NotEligibleForSms \/ SignInToSync \/ WhyAndBack
    \/ SubmitNumber \/ SmsAnswered \/ ResendSms \/ BackToSms
    \/ AskingTabPolls \/ SignOut \/ AnotherSignsIn

\* The server answers; the tab that asked goes on polling.
LinkFairness ==
    /\ WF_linkVars(Verified \/ VerificationFails)
    /\ WF_linkVars(SmsStatusAnswered \/ NotEligibleForSms)
    /\ WF_linkVars(SmsAnswered)
    /\ WF_linkVars(AskingTabPolls)

(***************************************************************************)
(* Properties.                                                             *)
(***************************************************************************)
\* The tab that asked may be closed: when the code was verified in a browser
\* that has a session of the account, its other tabs are told of the sign in,
\* also when the newsletter could not be subscribed to (completeAccountSignUp).
TabsAreTold == auth.verified /\ linkTab.session # 0 /\ linkTab.opens > 0 => others.told > 0

\* The tab that asked is gone and the link does not take its place: the user goes
\* on in another tab or browser, or has a link to sign in, which finishes no flow
\* also where it is opened in place of that tab (oauth-redirect.js:346, against
\* :267).
NoWayBack == others.asking = "gone" /\ (link.where # "replaces" \/ ~IsSignUp \/ linkTab.opens = 2)

\* However often and wherever the link is opened, the user goes back to the
\* relying party at most once; and does, once the code is verified and nobody
\* polls, unless finishing the flow failed or there is no way back
\* (finishOAuthFlowIfOriginalTab).
RelierIsTold ==
    /\ others.relier <= 1
    /\ link.service = "rp" /\ auth.verified /\ others.asking # "polls"
          => others.relier = 1 \/ others.failed \/ NoWayBack

\* A text message only goes to a country the server agreed to and that takes
\* part, or the one the relying party asked for (getEligibleSmsCountry).
MessagesAreEligible ==
    \A sms \in auth.sent :
        \/ sms.country = link.country
        \/ sms.country = sms.agreed /\ (RolloutRate(sms.country) > 0 \/ link.tester)

\* The patterns of these countries take a number with its trunk 0, which is kept
\* after the prefix (country-telephone-info.js:87).
KeepsTrunkDigit(country, num) ==
    country \in {"AU", "BE", "FR", "GB"} /\ num.digits \in Lengths(country).bare

\* What is sent to has the prefix of the country, and to normalise it again changes
\* nothing.  It is a number the pattern takes, but for the trunk digit of four
\* countries; those of the US, Canada and Romania have no dialling digit left.  A
\* country code typed without a plus is taken for a part of the number elsewhere.
OnePrefix ==
    \A sms \in auth.sent :
        /\ sms.number.plus
        /\ Normalize(sms.country, sms.number) = sms.number
        /\ Accepts(sms.country, sms.number) \/ KeepsTrunkDigit(sms.country, sms.number)
        /\ sms.country \in {"US", "CA"} => sms.number.lead = "other" /\ sms.number.digits = 10
        /\ sms.country = "RO" => sms.number.lead = "seven" /\ sms.number.digits = 9

\* Who opens a link is told how it ended, whatever the server answers and
\* whoever signs in or out meanwhile.
LinkEnds ==
    (linkTab.page = "complete_signup" \/ linkTab.step # "ready")
            ~> (linkTab.step = "ready" /\ (linkTab.page = "complete_signup" => linkTab.mark # "none"))

LinkSpec == LinkInit /\ [][LinkNext]_linkVars /\ LinkFairness

\* Whoever is there to hear of a verification does, the relying party at most once.
VerificationIsHeard == LinkTypeOK /\ TabsAreTold /\ RelierIsTold

\* A text message only goes where it may, to a number that was normalised.
MessagesAreAddressed == MessagesAreEligible /\ OnePrefix

=============================================================================
